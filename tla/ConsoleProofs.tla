---------------------------- MODULE ConsoleProofs ----------------------------
(***************************************************************************)
(* OneSoundtrack for any songs, folders and voices, PlaysAsWritten for any *)
(* file and length of play, PacingKept for every tick rate, lateness and   *)
(* overrun, WindowKept for every level, aspect and camera, PlaneIsTrue for *)
(* every map, level and camera, ClockKept for every program, payment and   *)
(* length of line, and ScanForetells for every table and set of channels.  *)
(* None of the seven is inductive.  What is heard when                     *)
(* a frame is mixed rests on no music-owned voice being left by the mute,  *)
(* also in a state file that a later load brings back.  The player must    *)
(* have read neither more nor less than it plays.  What a run of frames    *)
(* has gained and how late the host is now must be bounded together, with  *)
(* the carried fraction.  The bias must have the more room left, the more  *)
(* of it has still to be given up.  A verdict that has been wrong for as   *)
(* long as it is old is dropped in time.  And a CPU that waits still has,  *)
(* within its frame, the event that will wake it.                          *)
(***************************************************************************)
EXTENDS MusicPolicy, MsuPlayer, FramePacing, WideWindow, PlaneGate, SnesIo, HdmaScan, WellFoundedInduction, TLAPS

-----------------------------------------------------------------------------
(* The soundtrack.                                                         *)

MusicInv ==
    /\ MusicTypeOK
    /\ TrackIsSongs(music)
    /\ NoMusicWhenMuted(apu) /\ NoMusicWhenMuted(saved)
    /\ OneIsHeard

-----------------------------------------------------------------------------
(* What the helpers return.                                                *)

LEMMA TrackNumberTyped ==
  ASSUME NEW song \in Nat, NEW variant \in Nat
  PROVE  Dkc2Msu1TrackNumber(song, variant) \in Nat
<1> DEFINE aliases == [s \in 32 .. 37 |-> CASE s = 33 -> 21 [] s = 36 -> 36 [] OTHER -> 15]
           primary == IF song \in 32 .. 37 THEN aliases[song] ELSE song
<1>1. Dkc2Msu1TrackNumber(song, variant) =
        IF primary \in 1 .. 39 /\ variant \in 0 .. 5 THEN primary + 40 * variant ELSE 0
  BY DEF Dkc2Msu1TrackNumber
<1> HIDE DEF primary
<1> QED BY <1>1

\* A selection leaves the player on the song's track or stopped.
LEMMA SelectFinds ==
  ASSUME NEW m \in Statics
  PROVE  Select(m) \in Statics /\ TrackIsSongs(Select(m))
<1> DEFINE number == Dkc2Msu1TrackNumber(m.song, m.variant)
           played == IF Found(m) THEN 1 ELSE 0
           track  == IF Found(m) THEN number ELSE 0
<1>1. number \in Nat
  BY TrackNumberTyped DEF Statics
<1>2. Select(m) = [m EXCEPT !.replacement = played, !.track = track]
  BY DEF Select
<1>3. track \in Nat /\ played \in 0 .. 1
  BY <1>1
<1> HIDE DEF track, played
<1>4. Select(m) \in Statics
  BY <1>2, <1>3 DEF Statics
<1>5. /\ Select(m).replacement = played /\ Select(m).track = track
      /\ Select(m).song = m.song /\ Select(m).variant = m.variant
      /\ Select(m).enabled = m.enabled /\ Select(m).started = m.started
      /\ Select(m).pack = m.pack
  BY <1>2 DEF Statics
<1>6. Found(Select(m)) <=> Found(m)
  BY <1>5 DEF Found
<1>7. Dkc2Msu1TrackNumber(Select(m).song, Select(m).variant) = number
  BY <1>5
<1>8. TrackIsSongs(Select(m))
  BY <1>5, <1>6, <1>7 DEF TrackIsSongs, played, track
<1> QED BY <1>4, <1>8

\* A restorable engine takes the policy and keeps no music-owned voice when
\* it is muted; any other is left alone.
LEMMA RestoreMutes ==
  ASSUME NEW b \in {"play", "mute"}, NEW a \in SoundRam, NoMusicWhenMuted(a)
  PROVE  LET r == Dkc2RestoreSpcMusicPolicy(b, a)
         IN /\ r \in SoundRam /\ NoMusicWhenMuted(r)
            /\ r.engine = IF Restorable(b, a) THEN b ELSE a.engine
<1> DEFINE r == Dkc2RestoreSpcMusicPolicy(b, a)
           off == IF b = "mute" THEN MusicOff(a.voices) ELSE a.voices
<1>1. CASE ~ Restorable(b, a) \/ a.engine = b
  BY <1>1 DEF Dkc2RestoreSpcMusicPolicy
<1>2. CASE Restorable(b, a) /\ a.engine # b
  <2>1. r = [a EXCEPT !.engine = b, !.voices = off]
    BY <1>2 DEF Dkc2RestoreSpcMusicPolicy
  <2>2. a.voices \in [Voices -> {"silent", "music", "effect"}]
    BY DEF SoundRam
  <2>3. off \in [Voices -> {"silent", "music", "effect"}]
    BY <2>2 DEF MusicOff
  <2>4. b = "mute" => \A v \in Voices : off[v] # "music"
    BY <2>2 DEF MusicOff
  <2> HIDE DEF off, r
  <2>5. r \in SoundRam /\ r.engine = b /\ r.voices = off
    BY <2>1, <2>3 DEF SoundRam
  <2> QED BY <1>2, <2>4, <2>5 DEF NoMusicWhenMuted, r
<1> QED BY <1>1, <1>2

\* What applying the policy to m and a leaves, and what will be heard of it.
LEMMA PolicyApplied ==
  ASSUME NEW m \in Statics, NEW a \in SoundRam, branch \in {"play", "mute"},
         TrackIsSongs(m), NoMusicWhenMuted(a), ApplyPolicy(m, a)
  PROVE  /\ music' \in Statics /\ TrackIsSongs(music)'
         /\ apu' \in SoundRam /\ NoMusicWhenMuted(apu)'
         /\ branch' \in {"play", "mute"}
         /\ m.attached = 1 => IF Mixing' THEN apu'.engine = "mute" ELSE apu'.engine # "mute"
<1> DEFINE ready == IF Restorable(Wanted(m), a) THEN 1 ELSE 0
<1>1. Wanted(m) \in {"play", "mute"}
  BY DEF Wanted
<1>2. CASE m.attached = 0
  <2>1. music' = [m EXCEPT !.ready = 0] /\ apu' = a /\ branch' = branch
    BY <1>2 DEF ApplyPolicy
  <2>2. music' \in Statics
    BY <2>1 DEF Statics
  <2>3. TrackIsSongs(music)'
    BY <2>1 DEF Statics, TrackIsSongs, Found
  <2> QED BY <1>2, <2>1, <2>2, <2>3 DEF NoMusicWhenMuted
<1>3. CASE m.attached = 1
  <2>1. /\ music' = [m EXCEPT !.ready = ready]
        /\ apu' = Dkc2RestoreSpcMusicPolicy(Wanted(m), a)
        /\ branch' = Wanted(m)
    BY <1>3 DEF ApplyPolicy
  <2>2. ready \in 0 .. 1 /\ (ready = 1 <=> Restorable(Wanted(m), a))
    OBVIOUS
  <2> HIDE DEF ready
  <2>3. music' \in Statics
    BY <2>1, <2>2 DEF Statics
  <2>4. TrackIsSongs(music)'
    BY <2>1, <2>2 DEF Statics, TrackIsSongs, Found
  <2>5. /\ apu' \in SoundRam /\ NoMusicWhenMuted(apu')
        /\ apu'.engine = IF Restorable(Wanted(m), a) THEN Wanted(m) ELSE a.engine
    BY <1>1, <2>1, RestoreMutes
  <2>6. Mixing' <=> Wanted(m) = "mute" /\ Restorable(Wanted(m), a)
    BY <2>1, <2>2 DEF Mixing, Wanted, Statics
  <2>7. IF Mixing' THEN apu'.engine = "mute" ELSE apu'.engine # "mute"
    BY <1>1, <2>5, <2>6 DEF Restorable
  <2> QED BY <1>1, <2>1, <2>3, <2>4, <2>5, <2>7 DEF NoMusicWhenMuted
<1> QED BY <1>2, <1>3 DEF Statics

-----------------------------------------------------------------------------
(* The steps.                                                              *)

\* What a selection among m and a leaves, while the frame is not yet mixed.
LEMMA CurrentSelected ==
  ASSUME MusicInv, NEW m \in Statics, NEW a \in SoundRam, NoMusicWhenMuted(a),
         SelectCurrent(m, a), saved' = saved, moment' = moment, moment # "mix"
  PROVE  MusicInv'
<1>1. Select(m) \in Statics /\ TrackIsSongs(Select(m))
  BY SelectFinds
<1>2. branch \in {"play", "mute"}
  BY DEF MusicInv, MusicTypeOK
<1>3. /\ music' \in Statics /\ TrackIsSongs(music)'
      /\ apu' \in SoundRam /\ NoMusicWhenMuted(apu)'
      /\ branch' \in {"play", "mute"}
  BY <1>1, <1>2, PolicyApplied DEF SelectCurrent
<1> QED BY <1>3 DEF MusicInv, MusicTypeOK, OneIsHeard, NoMusicWhenMuted

\* Updates of several fields keep the record's type.
Sung(m, song, variant, started) ==
    [m EXCEPT !.song = song, !.variant = variant, !.started = started]
Begun(m, song) == [m EXCEPT !.song = song, !.started = 1]
Opened(m, pack) == [m EXCEPT !.pack = pack, !.enabled = 1]

LEMMA SungTyped ==
  ASSUME NEW m \in Statics, NEW song \in Nat, NEW variant \in Nat, NEW started \in 0 .. 1
  PROVE  Sung(m, song, variant, started) \in Statics
BY DEF Sung, Statics

LEMMA BegunTyped ==
  ASSUME NEW m \in Statics, NEW song \in Nat
  PROVE  Begun(m, song) \in Statics
<1> DEFINE n == [m EXCEPT !.song = song]
<1>1. n \in Statics
  BY DEF Statics
<1>2. Begun(m, song) = [n EXCEPT !.started = 1]
  BY DEF Begun
<1> HIDE DEF n
<1> QED BY <1>1, <1>2 DEF Statics

LEMMA OpenedTyped ==
  ASSUME NEW m \in Statics, NEW pack \in SUBSET Nat
  PROVE  Opened(m, pack) \in Statics
<1> DEFINE n == [m EXCEPT !.pack = pack]
<1>1. n \in Statics
  BY DEF Statics
<1>2. Opened(m, pack) = [n EXCEPT !.enabled = 1]
  BY DEF Opened
<1> HIDE DEF n
<1> QED BY <1>1, <1>2 DEF Statics

LEMMA MusicStep ==
  ASSUME MusicInv, [MusicNext]_musicVars
  PROVE  MusicInv'
<1> USE DEF MusicInv
<1>0. music \in Statics /\ apu \in SoundRam /\ saved \in SoundRam
  BY DEF MusicTypeOK
<1>1. ASSUME NEW p \in Packs, Dkc2MusicLoad(p) PROVE MusicInv'
  <2> DEFINE m == Opened(music, p)
  <2>0. p \in SUBSET Nat
    BY MusicAssumption
  <2>1. m \in Statics
    BY <1>0, <2>0, OpenedTyped
  <2> QED BY <1>0, <1>1, <2>1, CurrentSelected DEF Dkc2MusicLoad, Opened
<1>2. ASSUME NEW b \in 0 .. 1, Dkc2MusicSetEnabled(b) PROVE MusicInv'
  <2> DEFINE m == [music EXCEPT !.enabled = b]
  <2>1. m \in Statics
    BY <1>0 DEF Statics
  <2> QED BY <1>0, <1>2, <2>1, CurrentSelected DEF Dkc2MusicSetEnabled
<1>3. CASE SaveState
  BY <1>3 DEF SaveState, MusicTypeOK, OneIsHeard, NoMusicWhenMuted, Mixing, TrackIsSongs, Found
<1>4. CASE Dkc2MusicStateLoaded
  <2> DEFINE m == Sung(music, saved.song, saved.table, 1)
  <2>0. saved.song \in Nat /\ saved.table \in Nat
    BY <1>0 DEF SoundRam
  <2>1. m \in Statics
    BY <1>0, <2>0, SungTyped
  <2> QED BY <1>0, <1>4, <2>1, CurrentSelected DEF Dkc2MusicStateLoaded, Sung
<1>5. CASE Reset
  <2>1. apu' \in SoundRam /\ apu'.engine = "other"
    BY <1>5 DEF Reset, SoundRam, Silent
  <2> QED BY <1>5, <2>1 DEF Reset, MusicTypeOK, OneIsHeard, NoMusicWhenMuted, TrackIsSongs, Found
<1>6. ASSUME NEW from, NEW to \in {"frame", "mix"}, Dkc2MusicFrame(from, to) PROVE MusicInv'
  <2> DEFINE m == [music EXCEPT !.attached = 1]
  <2>1. m \in Statics /\ m.attached = 1 /\ TrackIsSongs(m)
    BY <1>0 DEF Statics, TrackIsSongs, Found
  <2>2. ApplyPolicy(m, apu) /\ moment' = to /\ saved' = saved
    BY <1>6 DEF Dkc2MusicFrame
  <2> HIDE DEF m
  <2>3. /\ music' \in Statics /\ TrackIsSongs(music)'
        /\ apu' \in SoundRam /\ NoMusicWhenMuted(apu)'
        /\ branch' \in {"play", "mute"}
        /\ IF Mixing' THEN apu'.engine = "mute" ELSE apu'.engine # "mute"
    BY <1>0, <2>1, <2>2, PolicyApplied DEF MusicTypeOK
  <2> QED BY <2>2, <2>3 DEF MusicTypeOK, OneIsHeard, NoMusicWhenMuted
<1>7. CASE Dkc2MusicMix
  BY <1>7 DEF Dkc2MusicMix, MusicTypeOK, OneIsHeard, NoMusicWhenMuted, TrackIsSongs, Found
<1>8. ASSUME NEW s \in Songs, NEW action \in {251, 254, 255}, NEW v \in Variants,
             Dkc2MusicCommand(s, action, v)
      PROVE  MusicInv'
  <2> DEFINE m == Commanded(s, action, v)
             table == IF action = 251 THEN v ELSE IF action = 255 THEN 0 ELSE apu.table
             a == [apu EXCEPT !.song = s, !.table = table]
  <2>1. s \in Nat /\ v \in Nat
    BY MusicAssumption
  <2>2. m \in Statics
    <3>1. CASE action = 255
      <4>1. m = Sung(music, s, 0, 0)
        BY <3>1 DEF Commanded, Sung
      <4> QED BY <1>0, <2>1, <4>1, SungTyped
    <3>2. CASE action = 251
      <4>1. m = Sung(music, s, v, 1)
        BY <3>2 DEF Commanded, Sung
      <4> QED BY <1>0, <2>1, <4>1, SungTyped
    <3>3. CASE action = 254
      <4>1. m = Begun(music, s)
        BY <3>3 DEF Commanded, Begun
      <4> QED BY <1>0, <2>1, <4>1, BegunTyped
    <3> QED BY <1>8, <3>1, <3>2, <3>3
  <2>3. table \in Nat
    BY <1>0, <2>1 DEF SoundRam
  <2>4. SelectCurrent(m, a)
    BY <1>8 DEF Dkc2MusicCommand
  <2> HIDE DEF m, table
  <2>5. a \in SoundRam /\ NoMusicWhenMuted(a)
    BY <1>0, <2>1, <2>3 DEF SoundRam, NoMusicWhenMuted
  <2> QED BY <1>8, <2>2, <2>4, <2>5, CurrentSelected DEF Dkc2MusicCommand
<1>9. ASSUME NEW e \in 0 .. 1, Upload(e) PROVE MusicInv'
  <2>1. apu' = [apu EXCEPT !.engine = branch, !.voices = Silent, !.echo = e]
    BY <1>9 DEF Upload
  <2>2. Silent \in [Voices -> {"silent", "music", "effect"}] /\ \A v \in Voices : Silent[v] # "music"
    BY DEF Silent
  <2>3. branch \in {"play", "mute"}
    BY DEF MusicTypeOK
  <2>4. apu' \in SoundRam /\ apu'.voices = Silent
    BY <1>0, <2>1, <2>2, <2>3 DEF SoundRam
  <2> QED BY <1>9, <2>2, <2>4
        DEF Upload, MusicTypeOK, OneIsHeard, NoMusicWhenMuted, TrackIsSongs, Found
<1>10. ASSUME NEW v \in Voices, NEW use \in {"silent", "music", "effect"}, Sound(v, use)
       PROVE  MusicInv'
  <2>1. apu' = [apu EXCEPT !.voices[v] = use]
    BY <1>10 DEF Sound
  <2>2. apu.voices \in [Voices -> {"silent", "music", "effect"}]
    BY <1>0 DEF SoundRam
  <2>3. apu' \in SoundRam /\ apu'.engine = apu.engine /\ apu'.voices = [apu.voices EXCEPT ![v] = use]
    BY <1>0, <2>1, <2>2 DEF SoundRam
  <2>4. NoMusicWhenMuted(apu')
    BY <1>10, <2>2, <2>3 DEF NoMusicWhenMuted, Sound
  <2> QED BY <1>10, <2>3, <2>4
        DEF Sound, MusicTypeOK, OneIsHeard, NoMusicWhenMuted, TrackIsSongs, Found
<1>11. CASE UNCHANGED musicVars
  BY <1>11 DEF musicVars, MusicTypeOK, OneIsHeard, NoMusicWhenMuted, Mixing, TrackIsSongs, Found
<1> QED BY <1>1, <1>2, <1>3, <1>4, <1>5, <1>6, <1>7, <1>8, <1>9, <1>10, <1>11 DEF MusicNext

LEMMA MusicInvariance == MusicSpec => []MusicInv
<1>1. MusicInit => MusicInv
  <2> SUFFICES ASSUME MusicInit PROVE MusicInv
    OBVIOUS
  <2>1. music \in Statics
    BY DEF MusicInit, Statics, NoPlayer
  <2>2. apu \in SoundRam /\ apu.engine = "other"
    BY DEF MusicInit, SoundRam, Silent
  <2> QED BY <2>1, <2>2
        DEF MusicInit, MusicInv, MusicTypeOK, TrackIsSongs, Found, NoMusicWhenMuted, OneIsHeard
<1> QED BY <1>1, MusicStep, PTL DEF MusicSpec

\* Type correctness of the policy, the sound RAM and the state file.
THEOREM MusicTypeCorrect == MusicSpec => []MusicTypeOK
<1>1. MusicInv => MusicTypeOK
  BY DEF MusicInv
<1> QED BY <1>1, MusicInvariance, PTL

\* The player hears one soundtrack, and it is the game's song, over every
\* sequence of commands, uploads, notes, folders, switches, resets and loads.
THEOREM OneSoundtrackIsHeard == MusicSpec => []OneSoundtrack
<1>1. MusicInv => OneSoundtrack
  BY DEF MusicInv, OneSoundtrack
<1> QED BY <1>1, MusicInvariance, PTL

-----------------------------------------------------------------------------
(* The cadence.                                                            *)

\* How late the host is against the exact deadline, over Den.
Lateness == pace.lag * Den - pace.fraction

GainBounded == burst + Lateness <= Slack * Den
LossBounded == drift <= Lateness + Den /\ drift <= (MaxOvershoot + 1) * Den
OneFrameAhead == ahead + over = FrameClocks /\ snapshot.ahead + snapshot.over = FrameClocks

SwitchIsWhole == style = "switch" => pace.fraction = 0

PacingInv ==
    PacingTypeOK /\ SwitchIsWhole /\ GainBounded /\ LossBounded /\ OneFrameAhead

-----------------------------------------------------------------------------
(* Arithmetic.                                                             *)

LEMMA DivMod ==
  ASSUME NEW a \in Nat, NEW d \in Nat \ {0}
  PROVE  a \div d \in Nat /\ a % d \in 0 .. d - 1 /\ (a \div d) * d + (a % d) = a
<1>1. a = d * (a \div d) + (a % d) /\ a % d \in 0 .. d - 1 /\ a \div d \in Int
  OBVIOUS
<1> DEFINE q == a \div d
           r == a % d
<1>2. q \in Int /\ r \in 0 .. d - 1 /\ a = d * q + r
  BY <1>1
<1> HIDE DEF q, r
<1>3. q >= 0
  <2> SUFFICES ASSUME q <= -1 PROVE FALSE
    BY <1>2
  <2>1. d * q <= -d
    BY <1>2
  <2> QED BY <1>2, <2>1
<1>4. q * d = d * q
  BY <1>2
<1>5. q \in Nat /\ r \in 0 .. d - 1 /\ q * d + r = a
  BY <1>2, <1>3, <1>4
<1> QED BY <1>5 DEF q, r

LEMMA TimesMonotone ==
  ASSUME NEW a \in Int, NEW b \in Int, NEW d \in Nat, a <= b
  PROVE  a * d <= b * d
<1>1. (b - a) * d >= 0
  OBVIOUS
<1>2. (b - a) * d = b * d - a * d
  OBVIOUS
<1> QED BY <1>1, <1>2

LEMMA TimesSum ==
  ASSUME NEW a \in Int, NEW b \in Int, NEW c \in Int, NEW d \in Int
  PROVE  /\ (a + b - c) * d = a * d + b * d - c * d
         /\ a * d \in Int /\ b * d \in Int /\ c * d \in Int
OBVIOUS

LEMMA MaxWithZero ==
  ASSUME NEW x \in Int
  PROVE  /\ Max({0, x}) = (IF x > 0 THEN x ELSE 0)
         /\ Max({0, x}) \in Nat
<1> DEFINE w == IF x > 0 THEN x ELSE 0
<1>1. w \in {0, x} /\ \A y \in {0, x} : w >= y
  OBVIOUS
<1>2. \A v \in {0, x} : (\A y \in {0, x} : v >= y) => v = w
  OBVIOUS
<1>3. Max({0, x}) = CHOOSE v \in {0, x} : \A y \in {0, x} : v >= y
  BY DEF Max
<1>4. Max({0, x}) = w
  BY <1>1, <1>2, <1>3
<1> QED BY <1>4

\* A frame's whole ticks and the fraction it carries on are what was carried
\* to it and its exact ticks.
LEMMA TicksAddUp ==
  ASSUME PacingTypeOK, SwitchIsWhole
  PROVE  /\ frame_ticks \in Nat /\ Ticks \in Nat /\ WholeTicks \in Nat /\ Slack \in Nat
         /\ Carried \in 0 .. Den - 1 /\ Den \in Nat \ {0}
         /\ style = "switch" => Carried = 0
         /\ WholeTicks * Den + Carried = pace.fraction + Ticks
         /\ MaxOvershoot \in Nat /\ MaxOvershoot <= Slack
<1>1. frame_ticks \in Nat
  BY PacingAssumption, DivMod DEF frame_ticks
<1>2. Slack \in Nat /\ MaxOvershoot \in Nat /\ MaxOvershoot <= Slack
  BY <1>1, PacingAssumption DEF Slack, frame_ticks
<1>3. CASE style = "switch"
  <2>1. frame_ticks * Den \in Nat
    BY <1>1, PacingAssumption
  <2> QED BY <1>1, <1>2, <1>3, <2>1, PacingAssumption DEF Ticks, WholeTicks, Carried, SwitchIsWhole
<1>4. CASE style = "sdl"
  <2>1. pace.fraction \in Nat /\ Num \in Nat /\ Den \in Nat \ {0} /\ pace.fraction + Num \in Nat
    BY PacingAssumption DEF PacingTypeOK
  <2>2. /\ (pace.fraction + Num) \div Den \in Nat /\ (pace.fraction + Num) % Den \in 0 .. Den - 1
        /\ ((pace.fraction + Num) \div Den) * Den + ((pace.fraction + Num) % Den) = pace.fraction + Num
    BY <2>1, DivMod
  <2> QED BY <1>1, <1>2, <1>4, <2>1, <2>2 DEF Ticks, WholeTicks, Carried
<1> QED BY <1>3, <1>4 DEF PacingTypeOK

-----------------------------------------------------------------------------
(* The steps.                                                              *)

\* What a frame of `interval` ticks that leaves the host `late` behind does to
\* the two histories.
LEMMA HistoriesMove ==
  ASSUME PacingInv, NEW late \in 0 .. Slack, NEW interval \in Int,
         interval = WholeTicks + late - pace.lag
  PROVE  /\ interval * Den - Ticks \in Int
         /\ interval * Den - Ticks = late * Den - Carried - Lateness
         /\ late * Den \in Nat /\ late * Den <= Slack * Den
         /\ Lateness \in Int /\ Slack * Den \in Nat
<1>1. PacingTypeOK /\ SwitchIsWhole
  BY DEF PacingInv
<1>2. /\ Ticks \in Nat /\ WholeTicks \in Nat /\ Slack \in Nat /\ Carried \in Int
      /\ Den \in Nat /\ WholeTicks * Den + Carried = pace.fraction + Ticks
  BY <1>1, TicksAddUp
<1>3. pace.lag \in Nat /\ pace.fraction \in Nat
  BY <1>1, <1>2 DEF PacingTypeOK
<1>4. /\ interval * Den = WholeTicks * Den + late * Den - pace.lag * Den
      /\ WholeTicks * Den \in Int /\ late * Den \in Int /\ pace.lag * Den \in Int
  BY <1>2, <1>3, TimesSum
<1>5. late * Den <= Slack * Den /\ 0 * Den <= late * Den /\ Slack * Den \in Nat
  BY <1>2, TimesMonotone
<1> DEFINE I == interval * Den
           W == WholeTicks * Den
           L == late * Den
           P == pace.lag * Den
           S == Slack * Den
<1>6. /\ I = W + L - P /\ W \in Int /\ L \in Int /\ P \in Int /\ S \in Nat
      /\ L <= S /\ 0 <= L /\ W + Carried = pace.fraction + Ticks
      /\ Lateness = P - pace.fraction
      /\ Ticks \in Int /\ Carried \in Int /\ pace.fraction \in Int
  BY <1>2, <1>3, <1>4, <1>5 DEF Lateness
<1> HIDE DEF I, W, L, P, S
<1>7. /\ I - Ticks \in Int /\ I - Ticks = L - Carried - Lateness
      /\ L \in Nat /\ L <= S /\ Lateness \in Int /\ S \in Nat
  BY <1>6
<1> QED BY <1>7 DEF I, L, S

\* What the invariant says of the host's clock.
HostInv ==
    /\ style \in {"switch", "sdl"}
    /\ pace \in [lag : 0 .. Slack, fraction : 0 .. Den - 1]
    /\ burst \in Nat /\ drift \in Nat
    /\ SwitchIsWhole /\ GainBounded /\ LossBounded

\* A frame that keeps the deadline: it waited, or it catches up.
LEMMA DeadlineKept ==
  ASSUME PacingInv, NEW late \in 0 .. Slack, NEW interval \in Int,
         interval = WholeTicks + late - pace.lag,
         style' = style, pace' = [lag |-> late, fraction |-> Carried],
         burst' = Max({0, burst + Ticks - interval * Den}),
         \/ drift' = 0
         \/ drift' = Max({0, drift + interval * Den - Ticks}) /\ late <= MaxOvershoot
  PROVE  HostInv'
<1>1. PacingTypeOK /\ SwitchIsWhole /\ GainBounded /\ LossBounded
  BY DEF PacingInv
<1>2. /\ Ticks \in Nat /\ Slack \in Nat /\ Carried \in 0 .. Den - 1 /\ Den \in Nat \ {0}
      /\ style = "switch" => Carried = 0
      /\ MaxOvershoot \in Nat
  BY <1>1, TicksAddUp
<1> DEFINE I == interval * Den
           L == late * Den
           S == Slack * Den
           O == (MaxOvershoot + 1) * Den
<1>3. /\ I - Ticks \in Int /\ I - Ticks = L - Carried - Lateness
      /\ L \in Nat /\ L <= S /\ Lateness \in Int /\ S \in Nat
  BY HistoriesMove
<1>4. I \in Int
  BY <1>2
<1>5. O \in Nat /\ (late <= MaxOvershoot => L + Den <= O)
  <2>1. (late + 1) * Den = L + Den
    BY <1>2
  <2> QED BY <1>2, <2>1, TimesMonotone
<1>6. style' = style /\ Slack' = Slack /\ pace'.lag = late /\ pace'.fraction = Carried
      /\ Lateness' = L - Carried
  BY DEF Slack, Lateness
<1>7. pace' \in [lag : 0 .. Slack, fraction : 0 .. Den - 1]
  BY <1>2
<1>8. burst \in Nat /\ drift \in Nat /\ burst + Lateness <= S
      /\ drift <= Lateness + Den /\ drift <= O
  BY <1>1 DEF PacingTypeOK, GainBounded, LossBounded
<1> DEFINE b == burst + Ticks - I
           d == drift + I - Ticks
<1>9. burst' = Max({0, b}) /\ (drift' = 0 \/ (drift' = Max({0, d}) /\ late <= MaxOvershoot))
  OBVIOUS
<1> HIDE DEF I, L, S, O
<1>10. b \in Int /\ d \in Int
  BY <1>2, <1>4, <1>8
<1>11. b = burst + Lateness - (L - Carried) /\ d = drift - Lateness + (L - Carried)
  BY <1>2, <1>3, <1>4, <1>8
<1> HIDE DEF b, d
<1>12. /\ burst' = (IF b > 0 THEN b ELSE 0)
       /\ drift' = 0 \/ (drift' = (IF d > 0 THEN d ELSE 0) /\ late <= MaxOvershoot)
  BY <1>9, <1>10, MaxWithZero
<1>13. burst' \in Nat /\ drift' \in Nat
  BY <1>10, <1>12
<1>14. burst' + (L - Carried) <= S
  BY <1>2, <1>3, <1>8, <1>10, <1>11, <1>12
<1>15. drift' <= L - Carried + Den /\ drift' <= O
  BY <1>2, <1>3, <1>5, <1>8, <1>10, <1>11, <1>12
<1>16. GainBounded' /\ LossBounded'
  BY <1>6, <1>14, <1>15 DEF GainBounded, LossBounded, S, O
<1> QED BY <1>1, <1>2, <1>6, <1>7, <1>13, <1>16 DEF HostInv, PacingTypeOK, SwitchIsWhole

\* A frame too late to be caught up: it has lost more than the runs of frames
\* had gained.
LEMMA DeadlineMoved ==
  ASSUME PacingInv, NEW work \in Nat, Reanchor(work)
  PROVE  HostInv'
<1>1. PacingTypeOK /\ SwitchIsWhole /\ GainBounded
  BY DEF PacingInv
<1>2. /\ Ticks \in Nat /\ WholeTicks \in Nat /\ Slack \in Nat
      /\ Carried \in 0 .. Den - 1 /\ Den \in Nat \ {0} /\ MaxOvershoot \in Nat
      /\ WholeTicks * Den + Carried = pace.fraction + Ticks
  BY <1>1, TicksAddUp
<1>3. pace.lag \in Nat /\ pace.fraction \in Nat /\ burst \in Nat
  BY <1>1, <1>2 DEF PacingTypeOK
<1> DEFINE W == WholeTicks * Den
           P == pace.lag * Den
           K == work * Den
           S == Slack * Den
           R == (Slack + 1) * Den
           O == (MaxOvershoot + 1) * Den
           b == burst + Ticks - K
<1>4. R <= P + K - W
  <2>1. Slack + 1 <= pace.lag + work - WholeTicks
    BY <1>2, <1>3 DEF Reanchor, Behind
  <2>2. R <= (pace.lag + work - WholeTicks) * Den
    BY <1>2, <1>3, <2>1, TimesMonotone
  <2> QED BY <1>2, <1>3, <2>2, TimesSum
<1>5. /\ W \in Int /\ P \in Int /\ K \in Int /\ S \in Nat /\ O \in Nat /\ R = S + Den
      /\ W + Carried = pace.fraction + Ticks /\ burst + (P - pace.fraction) <= S
      /\ Ticks \in Nat /\ Carried \in 0 .. Den - 1
  BY <1>1, <1>2, <1>3 DEF GainBounded, Lateness
<1> HIDE DEF W, P, K, S, R, O
<1>6. b \in Int /\ b <= 0
  BY <1>2, <1>3, <1>4, <1>5
<1>7. burst' = Max({0, b}) /\ drift' = 0 /\ style' = style /\ pace' = [lag |-> 0, fraction |-> 0]
  BY DEF Reanchor, Ticked, K
<1> HIDE DEF b
<1>8. burst' = 0
  BY <1>6, <1>7, MaxWithZero
<1>9. Slack' = Slack /\ Lateness' = 0
  BY <1>2, <1>7 DEF Slack, Lateness
<1>10. GainBounded' /\ LossBounded'
  BY <1>2, <1>5, <1>7, <1>8, <1>9 DEF GainBounded, LossBounded, S, O
<1>11. pace' \in [lag : 0 .. Slack, fraction : 0 .. Den - 1] /\ pace'.fraction = 0
  BY <1>2, <1>7
<1> QED BY <1>1, <1>7, <1>8, <1>9, <1>10, <1>11 DEF HostInv, PacingTypeOK, SwitchIsWhole

\* Both clocks start afresh.
LEMMA ClockStarted ==
  ASSUME PacingTypeOK, style' = style, pace' = [lag |-> 0, fraction |-> 0],
         burst' = 0, drift' = 0
  PROVE  HostInv'
<1>1. frame_ticks \in Nat
  BY PacingAssumption, DivMod DEF frame_ticks
<1>2. /\ Slack' \in Nat /\ Slack' * Den \in Nat /\ (MaxOvershoot + 1) * Den \in Nat
      /\ Den \in Nat \ {0}
  BY <1>1, PacingAssumption DEF Slack, frame_ticks
<1>3. Lateness' = 0
  BY <1>2 DEF Lateness
<1>4. pace' \in [lag : 0 .. Slack', fraction : 0 .. Den - 1] /\ pace'.fraction = 0
  BY <1>2
<1> QED BY <1>2, <1>3, <1>4 DEF HostInv, GainBounded, LossBounded, SwitchIsWhole, PacingTypeOK, Slack

LEMMA PacingStep ==
  ASSUME PacingInv, [PacingNext]_pacingVars
  PROVE  PacingInv'
<1>1. PacingTypeOK /\ SwitchIsWhole /\ GainBounded /\ LossBounded /\ OneFrameAhead
  BY DEF PacingInv
<1> DEFINE Emulated == /\ ahead \in Int /\ over \in Nat
                       /\ snapshot \in [ahead : Int, over : Nat]
                       /\ OneFrameAhead
<1>2. Emulated /\ HostInv
  BY <1>1 DEF PacingTypeOK, HostInv
<1>3. HostInv' /\ Emulated' => PacingInv'
  BY DEF HostInv, PacingInv, PacingTypeOK
<1> HIDE DEF Emulated
<1>4. ASSUME NEW work \in Works, NEW overrun \in Overruns, PacedFrame(work, overrun)
      PROVE  PacingInv'
  <2>1. work \in Nat /\ overrun \in Nat /\ FrameClocks \in Nat \ {0}
    BY PacingAssumption
  <2>2. Emulated'
    BY <1>2, <1>4, <2>1 DEF Emulated, OneFrameAhead, PacedFrame, Dkc2RunOneFrame
  <2>3. WholeTicks \in Nat /\ MaxOvershoot \in Nat /\ MaxOvershoot <= Slack /\ Slack \in Nat
    BY <1>1, TicksAddUp
  <2>4. pace.lag \in Nat
    BY <1>1, <2>3 DEF PacingTypeOK
  <2>5. ASSUME NEW overshoot \in 0 .. MaxOvershoot, Wait(work, overshoot) PROVE HostInv'
    <3>1. overshoot \in 0 .. Slack /\ WholeTicks + overshoot - pace.lag \in Int
      BY <2>3, <2>4
    <3> QED BY <2>5, <3>1, DeadlineKept DEF Wait, Ticked
  <2>6. ASSUME CatchUp(work) PROVE HostInv'
    <3>1. Behind(work) \in 0 .. Slack /\ work = WholeTicks + Behind(work) - pace.lag
      BY <2>1, <2>3, <2>4, <2>6 DEF CatchUp, Behind
    <3>2. /\ style' = style /\ pace' = [lag |-> Behind(work), fraction |-> Carried]
          /\ burst' = Max({0, burst + Ticks - work * Den}) /\ drift' = 0
      BY <2>6 DEF CatchUp, Ticked
    <3> QED BY <2>1, <3>1, <3>2, DeadlineKept
  <2>7. ASSUME Reanchor(work) PROVE HostInv'
    BY <2>1, <2>7, DeadlineMoved
  <2> QED BY <1>3, <1>4, <2>2, <2>5, <2>6, <2>7 DEF PacedFrame
<1>5. CASE Restart
  <2>1. Emulated'
    BY <1>2, <1>5 DEF Emulated, OneFrameAhead, Restart
  <2> QED BY <1>1, <1>3, <1>5, <2>1, ClockStarted DEF Restart
<1>6. CASE SaveSnapshot
  <2>1. Emulated'
    BY <1>2, <1>6 DEF Emulated, OneFrameAhead, SaveSnapshot
  <2>2. HostInv'
    BY <1>2, <1>6 DEF HostInv, SwitchIsWhole, GainBounded, LossBounded, Lateness, Slack, SaveSnapshot
  <2> QED BY <1>3, <2>1, <2>2
<1>7. CASE LoadSnapshot
  <2>1. Emulated'
    BY <1>2, <1>7 DEF Emulated, OneFrameAhead, LoadSnapshot
  <2>2. HostInv'
    BY <1>2, <1>7 DEF HostInv, SwitchIsWhole, GainBounded, LossBounded, Lateness, Slack, LoadSnapshot
  <2> QED BY <1>3, <2>1, <2>2
<1>8. CASE UNCHANGED pacingVars
  <2>1. Emulated'
    BY <1>2, <1>8 DEF Emulated, OneFrameAhead, pacingVars
  <2>2. HostInv'
    BY <1>2, <1>8 DEF HostInv, SwitchIsWhole, GainBounded, LossBounded, Lateness, Slack, pacingVars
  <2> QED BY <1>3, <2>1, <2>2
<1> QED BY <1>4, <1>5, <1>6, <1>7, <1>8 DEF PacingNext

-----------------------------------------------------------------------------
(* The theorems.                                                           *)

\* A deadline passed by any number of frames is moved to less than a frame
\* ahead.
LEMMA BudgetIsAFrame ==
  ASSUME PacingInv
  PROVE  FrameBudget
<1>1. /\ ahead \in Int /\ over \in Nat /\ ahead + over = FrameClocks
      /\ FrameClocks \in Nat \ {0}
  BY PacingAssumption DEF PacingInv, PacingTypeOK, OneFrameAhead
<1>2. CASE ahead > 0
  BY <1>1, <1>2 DEF FrameBudget, Budget
<1>3. CASE ahead <= 0
  <2> DEFINE q == (-ahead) \div FrameClocks
             r == (-ahead) % FrameClocks
             C == q * FrameClocks
  <2>1. -ahead \in Nat
    BY <1>1, <1>3
  <2>2. q \in Nat /\ r \in 0 .. FrameClocks - 1 /\ C + r = -ahead /\ C \in Int
    BY <1>1, <2>1, DivMod
  <2>3. Budget = ahead + FrameClocks * (q + 1)
    BY <1>1, <1>3 DEF Budget
  <2> HIDE DEF q, r
  <2>4. FrameClocks * (q + 1) = C + FrameClocks
    BY <1>1, <2>2
  <2> HIDE DEF C
  <2>5. Budget = FrameClocks - r
    BY <1>1, <2>2, <2>3, <2>4
  <2>6. over >= FrameClocks
    BY <1>1, <1>3
  <2> QED BY <1>1, <2>2, <2>5, <2>6 DEF FrameBudget
<1> QED BY <1>1, <1>2, <1>3

LEMMA CadenceFollows ==
  ASSUME PacingInv
  PROVE  Cadence
<1>1. PacingTypeOK /\ SwitchIsWhole /\ GainBounded /\ LossBounded
  BY DEF PacingInv
<1>2. Slack \in Nat /\ Den \in Nat \ {0}
  BY <1>1, TicksAddUp
<1>3. pace.lag \in Nat /\ pace.fraction \in 0 .. Den - 1 /\ burst \in Nat
  BY <1>1, <1>2 DEF PacingTypeOK
<1> DEFINE P == pace.lag * Den
           S == Slack * Den
<1>4. P \in Nat /\ S \in Nat /\ (Slack + 1) * Den = S + Den /\ burst + (P - pace.fraction) <= S
  BY <1>1, <1>2, <1>3 DEF GainBounded, Lateness
<1> HIDE DEF P, S
<1>5. burst <= (Slack + 1) * Den
  BY <1>2, <1>3, <1>4
<1> QED BY <1>1, <1>5 DEF Cadence, LossBounded

LEMMA PacingInvariance == PacingSpec => []PacingInv
<1>1. PacingInit => PacingInv
  <2> SUFFICES ASSUME PacingInit PROVE PacingInv
    OBVIOUS
  <2>1. frame_ticks \in Nat /\ FrameClocks \in Nat
    BY PacingAssumption, DivMod DEF frame_ticks
  <2>2. /\ Slack \in Nat /\ Slack * Den \in Nat /\ (MaxOvershoot + 1) * Den \in Nat
        /\ Den \in Nat \ {0}
    BY <2>1, PacingAssumption DEF Slack, frame_ticks
  <2>3. Lateness = 0
    BY <2>2 DEF Lateness, PacingInit
  <2>4. PacingTypeOK
    BY <2>1, <2>2 DEF PacingInit, PacingTypeOK
  <2> QED BY <2>1, <2>2, <2>3, <2>4
        DEF PacingInit, PacingInv, SwitchIsWhole, GainBounded, LossBounded, OneFrameAhead
<1> QED BY <1>1, PacingStep, PTL DEF PacingSpec

\* Every value the pacing variables take keeps its type: the lateness stays
\* within the slack and the carried fraction below one tick.
THEOREM PacingTypeCorrect == PacingSpec => []PacingTypeOK
<1>1. PacingInv => PacingTypeOK
  BY DEF PacingInv
<1> QED BY <1>1, PacingInvariance, PTL

\* No run of frames outruns its ticks by more than the slack and a tick, none
\* that waits falls behind, and each frame runs at most a frame of the
\* emulated clock, less what the one before overran.
THEOREM PacingIsKept == PacingSpec => []PacingKept
<1>1. PacingInv => PacingKept
  BY CadenceFollows, BudgetIsAFrame DEF PacingKept
<1> QED BY <1>1, PacingInvariance, PTL

-----------------------------------------------------------------------------
(* The widescreen window.                                                  *)

Bounds == Holds \cup {FirstPage}

\* A bias to the east and the camera's way to the east wall; a bias to the
\* west and its way to every west bound.  A frame that has moved the camera
\* is ahead of the drawing by one pixel of the bias.
EastLag(b, late) == b > 0 => Pace * (b - late) <= view.maximum - view.camera
WestLag(b, late) == b < 0 => \A h \in Bounds : Pace * (-b - late) <= view.camera - h

Late == IF culled.due THEN 1 ELSE 0

LagBounded ==
    bias.valid = 1 /\ mapped => EastLag(bias.presented, Late) /\ WestLag(bias.presented, Late)

CullKnown ==
    /\ host.ready => host.bias = bias.presented
    /\ culled.ready =>
         /\ culled.due /\ host.ready
         /\ culled.from = -Dkc2VideoExpandCullLeft(NativeLeft)
         /\ culled.to = Dkc2VideoExpandCullSpan(NativeSpan) - Dkc2VideoExpandCullLeft(NativeLeft)
         /\ culled.even => host.bias <= extra /\ -host.bias <= extra

WindowInv == WindowTypeOK /\ LagBounded /\ CullKnown /\ WindowKept

LEMMA PaceIsPositive ==
  /\ Pace \in Nat /\ Pace >= GlideSpan /\ Pace >= CameraTravel /\ Pace >= 1
  /\ GlideSpan \in Nat \ {0} /\ CameraTravel \in Nat
BY WindowAssumption DEF Pace

\* The lengths in play.
LEMMA WindowNumbers ==
  ASSUME WindowTypeOK
  PROVE  /\ view.camera \in Int /\ view.maximum \in Int /\ extra \in Nat
         /\ view.camera <= view.maximum
         /\ minimum_scroll_x \in Bounds /\ minimum_scroll_x \in Int
         /\ minimum_scroll_x <= view.camera
         /\ \A h \in Bounds : h \in Int /\ Pace * extra + GlideSpan <= view.maximum - h
<1>1. view.camera \in Int /\ view.maximum \in Maxima /\ extra \in Extras /\ west \in Holds \cup {0}
      /\ FirstPage <= view.camera /\ view.camera <= view.maximum
  BY DEF WindowTypeOK
<1>2. Maxima \subseteq Nat /\ Holds \subseteq Nat /\ Extras \subseteq Nat /\ FirstPage \in Nat \ {0}
  BY WindowAssumption
<1>3. \A h \in Bounds : h \in Int /\ Pace * extra + GlideSpan <= view.maximum - h
  <2> TAKE h \in Bounds
  <2>1. h \in Int
    BY <1>2 DEF Bounds
  <2>2. view.maximum - h >= Pace * extra + GlideSpan
    BY <1>1, WindowAssumption DEF Bounds
  <2>3. Pace * extra + GlideSpan \in Int
    BY <1>1, <1>2, PaceIsPositive
  <2> QED BY <1>1, <1>2, <2>1, <2>2, <2>3
<1>4. minimum_scroll_x \in Bounds /\ minimum_scroll_x <= view.camera
  BY <1>1, <1>2 DEF minimum_scroll_x, Bounds
<1>5. minimum_scroll_x \in Int
  BY <1>3, <1>4
<1>6. view.camera \in Int /\ view.camera <= view.maximum
  BY <1>1
<1>7. view.maximum \in Nat /\ extra \in Nat
  BY <1>1, <1>2, Zenon
<1> QED BY <1>7, <1>3, <1>4, <1>5, <1>6

\* A wall's push costs the camera as much travel as it takes to undo it.
LEMMA PushIsBounded ==
  ASSUME WindowTypeOK, NEW travel \in Nat
  PROVE  /\ Push(travel) \in Nat
         /\ Push(travel) > 0 => Pace * Push(travel) + travel <= Pace * extra + GlideSpan
<1>1. /\ extra \in Nat /\ Pace \in Nat /\ Pace >= GlideSpan /\ GlideSpan \in Nat \ {0}
      /\ Pace * extra \in Int /\ extra * GlideSpan \in Int
  BY WindowNumbers, PaceIsPositive
<1>2. CASE travel < extra * GlideSpan
  <2> DEFINE q == travel \div GlideSpan
             r == travel % GlideSpan
  <2>1. q \in Nat /\ r \in 0 .. GlideSpan - 1 /\ q * GlideSpan + r = travel
    BY <1>1, DivMod
  <2>2. Push(travel) = extra - q
    BY <1>2 DEF Push
  <2> HIDE DEF q, r
  <2>3. q < extra
    <3> SUFFICES ASSUME extra <= q PROVE FALSE
      BY <1>1, <2>1
    <3>1. extra * GlideSpan <= q * GlideSpan /\ q * GlideSpan \in Int
      BY <1>1, <2>1, TimesMonotone
    <3> QED BY <1>1, <1>2, <2>1, <3>1
  <2>4. GlideSpan * q <= Pace * q
    BY <1>1, <2>1, TimesMonotone
  <2>5. GlideSpan * q = q * GlideSpan /\ Pace * (extra - q) = Pace * extra - Pace * q
        /\ Pace * q \in Int /\ q * GlideSpan \in Int
    BY <1>1, <2>1
  <2>6. Pace * (extra - q) + travel <= Pace * extra + GlideSpan
    BY <1>1, <2>1, <2>4, <2>5
  <2> QED BY <1>1, <2>1, <2>2, <2>3, <2>6
<1>3. CASE ~(travel < extra * GlideSpan)
  BY <1>3 DEF Push
<1> QED BY <1>2, <1>3

\* A margin given to one side is taken from a level that is wide enough.
LEMMA PinIsBounded ==
  ASSUME WindowTypeOK, NEW travel \in Nat
  PROVE  Pace * (extra - travel) + travel <= Pace * extra + GlideSpan
<1>1. extra \in Nat /\ Pace \in Nat /\ Pace >= 1 /\ GlideSpan \in Nat
  BY WindowNumbers, PaceIsPositive
<1>2. 1 * travel <= Pace * travel
  BY <1>1, TimesMonotone
<1>3. Pace * (extra - travel) = Pace * extra - Pace * travel /\ 1 * travel = travel
      /\ Pace * travel \in Int /\ Pace * extra \in Int
  BY <1>1
<1> QED BY <1>1, <1>2, <1>3

\* The bias wanted leaves the camera its way to either wall.
LEMMA WantedHasRoom ==
  ASSUME WindowTypeOK
  PROVE  WantedBias \in Int /\ EastLag(WantedBias, 0) /\ WestLag(WantedBias, 0)
<1> DEFINE lower == minimum_scroll_x
           upper == view.maximum
           half  == (upper - lower) \div 2
           reach == IF half > extra THEN extra ELSE half
           w == view.camera - lower
           e == upper - view.camera
           push == IF edge = "glide" THEN Push(w) - Push(e) ELSE 0
           low == lower + reach - view.camera
           high == upper - reach - view.camera
           X == Pace * extra
<1>1. /\ view.camera \in Int /\ upper \in Int /\ extra \in Nat /\ lower \in Int
      /\ lower \in Bounds /\ w \in Nat /\ e \in Nat
      /\ \A h \in Bounds : h \in Int /\ X + GlideSpan <= upper - h
  BY WindowNumbers
<1>2. Pace \in Nat /\ Pace >= 1 /\ GlideSpan \in Nat /\ X \in Int
  BY <1>1, PaceIsPositive
<1>3. /\ Push(w) \in Nat /\ Push(e) \in Nat
      /\ Push(w) > 0 => Pace * Push(w) + w <= X + GlideSpan
      /\ Push(e) > 0 => Pace * Push(e) + e <= X + GlideSpan
      /\ Pace * (extra - w) + w <= X + GlideSpan
      /\ Pace * (extra - e) + e <= X + GlideSpan
  BY <1>1, PushIsBounded, PinIsBounded
<1>4. reach \in Int /\ reach <= extra
  BY <1>1
<1> DEFINE pw == Push(w)
           pe == Push(e)
<1>5. push \in Int /\ push <= Push(w) /\ -push <= Push(e)
  <2>1. pw \in Nat /\ pe \in Nat /\ push = IF edge = "glide" THEN pw - pe ELSE 0
    BY <1>3
  <2> HIDE DEF pw, pe, push
  <2>2. push \in Int /\ push <= pw /\ -push <= pe
    BY <2>1
  <2> QED BY <2>2 DEF pw, pe, push
<1>6. \/ WantedBias = 0
      \/ WantedBias = Dkc2VideoClampInt(Dkc2VideoClampInt(push, low, high), -extra, extra)
  BY DEF WantedBias
<1>7. low = reach - w /\ high = e - reach /\ low \in Int /\ high \in Int
  BY <1>1, <1>4
<1> HIDE DEF reach, push, low, high, X, w, e
<1>8. /\ WantedBias \in Int
      /\ WantedBias > 0 => WantedBias <= push \/ WantedBias <= low
      /\ WantedBias < 0 => WantedBias >= push \/ WantedBias >= high
  BY <1>1, <1>5, <1>6, <1>7 DEF Dkc2VideoClampInt
<1>9. ASSUME WantedBias > 0 PROVE Pace * WantedBias + w <= X + GlideSpan
  <2>1. PICK p \in Int : p > 0 /\ WantedBias <= p /\ Pace * p + w <= X + GlideSpan
    <3>1. CASE WantedBias <= push
      <4>1. Push(w) \in Int /\ Push(w) > 0 /\ WantedBias <= Push(w)
            /\ Pace * Push(w) + w <= X + GlideSpan
        BY <1>3, <1>5, <1>8, <1>9, <3>1
      <4> QED BY <4>1
    <3>2. CASE WantedBias <= low
      <4>1. extra - w \in Int /\ WantedBias <= extra - w /\ extra - w > 0
        BY <1>1, <1>4, <1>7, <1>8, <1>9, <3>2
      <4> QED BY <1>3, <4>1
    <3> QED BY <1>8, <1>9, <3>1, <3>2
  <2>2. WantedBias * Pace <= p * Pace
    BY <1>2, <1>8, <2>1, TimesMonotone
  <2>3. WantedBias * Pace = Pace * WantedBias /\ p * Pace = Pace * p
        /\ Pace * WantedBias \in Int /\ Pace * p \in Int
    BY <1>2, <1>8
  <2> QED BY <1>1, <1>2, <2>1, <2>2, <2>3
<1>10. ASSUME WantedBias < 0 PROVE Pace * (-WantedBias) + e <= X + GlideSpan
  <2>1. PICK p \in Int : p > 0 /\ -WantedBias <= p /\ Pace * p + e <= X + GlideSpan
    <3>1. CASE WantedBias >= push
      <4>1. Push(e) \in Int /\ Push(e) > 0 /\ -WantedBias <= Push(e)
            /\ Pace * Push(e) + e <= X + GlideSpan
        BY <1>3, <1>5, <1>8, <1>10, <3>1
      <4> QED BY <4>1
    <3>2. CASE WantedBias >= high
      <4>1. extra - e \in Int /\ -WantedBias <= extra - e /\ extra - e > 0
        BY <1>1, <1>4, <1>7, <1>8, <1>10, <3>2
      <4> QED BY <1>3, <4>1
    <3> QED BY <1>8, <1>10, <3>1, <3>2
  <2>2. (-WantedBias) * Pace <= p * Pace
    BY <1>2, <1>8, <2>1, TimesMonotone
  <2>3. (-WantedBias) * Pace = Pace * (-WantedBias) /\ p * Pace = Pace * p
        /\ Pace * (-WantedBias) \in Int /\ Pace * p \in Int
    BY <1>2, <1>8
  <2> QED BY <1>1, <1>2, <2>1, <2>2, <2>3
<1>11. EastLag(WantedBias, 0)
  <2> SUFFICES ASSUME WantedBias > 0 PROVE Pace * (WantedBias - 0) <= upper - view.camera
    BY DEF EastLag
  <2>1. Pace * WantedBias + w <= X + GlideSpan /\ X + GlideSpan <= upper - lower
        /\ Pace * WantedBias \in Int /\ WantedBias - 0 = WantedBias
    BY <1>1, <1>2, <1>8, <1>9
  <2> QED BY <1>1, <1>2, <2>1 DEF w
<1>12. WestLag(WantedBias, 0)
  <2> SUFFICES ASSUME WantedBias < 0, NEW h \in Bounds
               PROVE  Pace * (-WantedBias - 0) <= view.camera - h
    BY DEF WestLag
  <2>1. Pace * (-WantedBias) + e <= X + GlideSpan /\ X + GlideSpan <= upper - h /\ h \in Int
        /\ Pace * (-WantedBias) \in Int /\ -WantedBias - 0 = -WantedBias
    BY <1>1, <1>2, <1>8, <1>10
  <2> QED BY <1>1, <1>2, <2>1 DEF e
<1> QED BY <1>8, <1>11, <1>12

\* A pixel more of the bias is Pace more of the way.
LEMMA LagOfLess ==
  ASSUME NEW b \in Int, NEW late \in {0, 1}
  PROVE  /\ Pace * (b - 1) = Pace * b - Pace /\ Pace * (b - 1) <= Pace * (b - late)
         /\ Pace * (b - 0) = Pace * b
         /\ Pace * b \in Int /\ Pace * (b - late) \in Int /\ Pace * (b - 1) \in Int
<1>1. Pace \in Nat
  BY PaceIsPositive
<1>2. Pace * (b - 1) = Pace * b - Pace /\ Pace * (b - 0) = Pace * b
      /\ Pace * b \in Int /\ Pace * (b - 1) \in Int
  BY <1>1
<1>3. CASE late = 0
  BY <1>1, <1>2, <1>3
<1>4. CASE late = 1
  BY <1>1, <1>2, <1>4
<1> QED BY <1>2, <1>3, <1>4

\* The bias a drawing presents: the one wanted, or a pixel nearer to it.
LEMMA BiasFollows ==
  ASSUME WindowTypeOK
  PROVE  /\ PresentedBias \in Int /\ bias.presented \in Int
         /\ ~Settled => PresentedBias = WantedBias
         /\ \/ PresentedBias >= WantedBias /\ PresentedBias = bias.presented - 1
            \/ PresentedBias <= WantedBias /\ PresentedBias = bias.presented + 1
            \/ PresentedBias = WantedBias
         /\ Settled => /\ PresentedBias <= bias.presented + 1
                       /\ PresentedBias >= bias.presented - 1
<1>1. WantedBias \in Int /\ bias.presented \in Int
  BY WantedHasRoom DEF WindowTypeOK
<1> QED BY <1>1 DEF PresentedBias

\* In a map that is known the bias presented leaves the camera its way.
LEMMA PresentedHasRoom ==
  ASSUME WindowTypeOK, LagBounded, mapped
  PROVE  EastLag(PresentedBias, 0) /\ WestLag(PresentedBias, 0)
<1> DEFINE b == bias.presented
           p == PresentedBias
           v == WantedBias
<1>1. /\ p \in Int /\ b \in Int /\ v \in Int
      /\ EastLag(v, 0) /\ WestLag(v, 0)
      /\ ~Settled => p = v
      /\ (p >= v /\ p = b - 1) \/ (p <= v /\ p = b + 1) \/ p = v
  BY BiasFollows, WantedHasRoom
<1>2. Settled => EastLag(b, Late) /\ WestLag(b, Late)
  BY DEF LagBounded, Settled
<1>3. Late \in {0, 1} /\ Pace \in Nat
  BY PaceIsPositive DEF Late
<1>4. view.camera \in Int /\ view.maximum \in Int /\ \A h \in Bounds : h \in Int
  BY WindowNumbers
<1> HIDE DEF b, p, v
<1>5. EastLag(p, 0)
  <2> SUFFICES ASSUME p > 0 PROVE Pace * (p - 0) <= view.maximum - view.camera
    BY DEF EastLag
  <2>1. CASE p <= v
    <3>1. Pace * (v - 0) <= view.maximum - view.camera
      BY <1>1, <2>1 DEF EastLag
    <3>2. p * Pace <= v * Pace
      BY <1>1, <1>3, <2>1, TimesMonotone
    <3>3. p * Pace = Pace * (p - 0) /\ v * Pace = Pace * (v - 0)
          /\ Pace * (p - 0) \in Int /\ Pace * (v - 0) \in Int
      BY <1>1, <1>3
    <3> QED BY <1>4, <3>1, <3>2, <3>3
  <2>2. CASE Settled /\ p = b - 1
    <3>1. Pace * (b - Late) <= view.maximum - view.camera
      BY <1>1, <1>2, <2>2 DEF EastLag
    <3>2. /\ Pace * (b - 1) <= Pace * (b - Late) /\ Pace * (b - 1) \in Int
          /\ Pace * (b - Late) \in Int
      BY <1>1, <1>3, LagOfLess
    <3>3. p - 0 = b - 1
      BY <1>1, <2>2
    <3> QED BY <1>4, <3>1, <3>2, <3>3
  <2> QED BY <1>1, <2>1, <2>2
<1>6. WestLag(p, 0)
  <2> SUFFICES ASSUME p < 0, NEW h \in Bounds PROVE Pace * (-p - 0) <= view.camera - h
    BY DEF WestLag
  <2>1. CASE p >= v
    <3>1. Pace * (-v - 0) <= view.camera - h
      BY <1>1, <2>1 DEF WestLag
    <3>2. (-p) * Pace <= (-v) * Pace
      BY <1>1, <1>3, <2>1, TimesMonotone
    <3>3. (-p) * Pace = Pace * (-p - 0) /\ (-v) * Pace = Pace * (-v - 0)
          /\ Pace * (-p - 0) \in Int /\ Pace * (-v - 0) \in Int
      BY <1>1, <1>3
    <3> QED BY <1>4, <3>1, <3>2, <3>3
  <2>2. CASE Settled /\ p = b + 1
    <3>1. Pace * (-b - Late) <= view.camera - h
      BY <1>1, <1>2, <2>2 DEF WestLag
    <3>2. -b \in Int
      BY <1>1
    <3>3. /\ Pace * (-b - 1) <= Pace * (-b - Late) /\ Pace * (-b - 1) \in Int
          /\ Pace * (-b - Late) \in Int
      BY <1>3, <3>2, LagOfLess
    <3>4. -p - 0 = -b - 1
      BY <1>1, <2>2
    <3> QED BY <1>4, <3>1, <3>3, <3>4
  <2> QED BY <1>1, <2>1, <2>2
<1> QED BY <1>5, <1>6 DEF p

\* A room at least the bias's: the picture's centre is inside the bounds.
LEMMA RoomHoldsCentre ==
  ASSUME WindowTypeOK, NEW b \in Int, EastLag(b, 0), WestLag(b, 0)
  PROVE  minimum_scroll_x <= view.camera + b /\ view.camera + b <= view.maximum
<1>1. /\ view.camera \in Int /\ view.maximum \in Int /\ view.camera <= view.maximum
      /\ minimum_scroll_x \in Bounds /\ minimum_scroll_x \in Int
      /\ minimum_scroll_x <= view.camera
  BY WindowNumbers
<1>2. Pace \in Nat /\ Pace >= 1
  BY PaceIsPositive
<1>3. ASSUME NEW c \in Nat PROVE c <= Pace * (c - 0) /\ Pace * (c - 0) \in Int
  <2>1. 1 * c <= Pace * c
    BY <1>2, TimesMonotone
  <2> QED BY <1>2, <2>1
<1>4. CASE b > 0
  <2>1. Pace * (b - 0) <= view.maximum - view.camera
    BY <1>4 DEF EastLag
  <2>2. b <= Pace * (b - 0) /\ Pace * (b - 0) \in Int
    BY <1>3, <1>4
  <2> QED BY <1>1, <1>4, <2>1, <2>2
<1>5. CASE b < 0
  <2>1. Pace * (-b - 0) <= view.camera - minimum_scroll_x
    BY <1>1, <1>5 DEF WestLag
  <2>2. -b <= Pace * (-b - 0) /\ Pace * (-b - 0) \in Int
    BY <1>3, <1>5
  <2> QED BY <1>1, <1>5, <2>1, <2>2
<1>6. CASE b = 0
  BY <1>1, <1>6
<1> QED BY <1>4, <1>5, <1>6

\* The margins asked for end at the bounds.
LEMMA MarginsEndInLevel ==
  ASSUME WindowTypeOK, NEW b \in Int,
         minimum_scroll_x <= view.camera + b, view.camera + b <= view.maximum,
         Slides \/ (edge = "bars" /\ b = 0)
  PROVE  /\ minimum_scroll_x <= view.camera + b - Dkc2VideoMarginsForBias(b).left
         /\ view.camera + b + Dkc2VideoMarginsForBias(b).right <= view.maximum
<1>1. /\ view.camera \in Int /\ view.maximum \in Int /\ extra \in Nat
      /\ minimum_scroll_x \in Int
  BY WindowNumbers
<1> DEFINE centre == view.camera + b
<1>2. /\ edge # "reflect" /\ ~(view.maximum < minimum_scroll_x)
      /\ view.camera + (IF Slides THEN b ELSE 0) = centre
  BY <1>1 DEF Slides
<1>3. /\ Dkc2VideoMarginsForBias(b).left = Dkc2VideoClampInt(centre - minimum_scroll_x, 0, extra)
      /\ Dkc2VideoMarginsForBias(b).right = Dkc2VideoClampInt(view.maximum - centre, 0, extra)
  BY <1>2 DEF Dkc2VideoMarginsForBias
<1> QED BY <1>1, <1>3 DEF Dkc2VideoClampInt

\* What the cartridge kept, by a bias a pixel away, holds the window.
LEMMA CullHoldsWindow ==
  ASSUME WindowTypeOK, CullKnown, culled.ready, culled.even, Settled
  PROVE  /\ culled.from + NativeLeft - 1 <= PresentedBias - extra
         /\ PresentedBias + NativeWidth + extra <=
               culled.to - (NativeSpan - NativeLeft - NativeWidth - 1)
<1>1. extra \in Nat /\ NativeLeft \in Nat /\ NativeSpan \in Nat /\ NativeWidth \in Nat
  BY WindowNumbers, WindowAssumption
<1>2. /\ host.ready /\ host.bias = bias.presented
      /\ culled.from = -Dkc2VideoExpandCullLeft(NativeLeft)
      /\ culled.to = Dkc2VideoExpandCullSpan(NativeSpan) - Dkc2VideoExpandCullLeft(NativeLeft)
      /\ host.bias <= extra /\ -host.bias <= extra
  BY DEF CullKnown
<1>3. /\ PresentedBias \in Int /\ host.bias \in Int
      /\ PresentedBias <= host.bias + 1 /\ PresentedBias >= host.bias - 1
  BY <1>2, BiasFollows
<1>4. Dkc2VideoExpandCullLeft(NativeLeft) = NativeLeft + (extra - host.bias)
  BY <1>1, <1>2, <1>3 DEF Dkc2VideoExpandCullLeft, Dkc2VideoClampInt
<1>5. Dkc2VideoExpandCullSpan(NativeSpan) = NativeSpan + 2 * extra
  BY <1>2 DEF Dkc2VideoExpandCullSpan
<1> QED BY <1>1, <1>2, <1>3, <1>4, <1>5

\* The record of a cull that has not happened, and of one that has.
CullRecord == [due : BOOLEAN, ready : BOOLEAN, even : BOOLEAN, from : Int, to : Int]

LEMMA CullsAreRecords ==
  /\ NotCulled \in CullRecord
  /\ WindowTypeOK /\ Cull => culled' \in CullRecord
<1>1. NotCulled \in CullRecord
  BY DEF NotCulled, CullRecord
<1>2. ASSUME WindowTypeOK, Cull PROVE culled' \in CullRecord
  <2>1. host.ready \in BOOLEAN /\ host.bias \in Int /\ extra \in Nat
    BY <1>2, WindowNumbers DEF WindowTypeOK
  <2>2. NativeLeft \in Nat /\ NativeSpan \in Nat
    BY WindowAssumption
  <2>3. Dkc2VideoExpandCullLeft(NativeLeft) \in Int /\ Dkc2VideoExpandCullSpan(NativeSpan) \in Int
    BY <2>1, <2>2 DEF Dkc2VideoExpandCullLeft, Dkc2VideoExpandCullSpan, Dkc2VideoClampInt
  <2> DEFINE even == host.bias <= extra /\ -host.bias <= extra
             left == Dkc2VideoExpandCullLeft(NativeLeft)
             to == Dkc2VideoExpandCullSpan(NativeSpan) - left
  <2>4. culled' = [due |-> TRUE, ready |-> host.ready, even |-> even, from |-> -left, to |-> to]
    BY <1>2 DEF Cull
  <2>5. even \in BOOLEAN /\ -left \in Int /\ to \in Int
    BY <2>3
  <2> HIDE DEF even, left, to
  <2> QED BY <2>1, <2>4, <2>5, Zenon DEF CullRecord
<1> QED BY <1>1, <1>2

\* A frame of the cartridge culls by the bias it was left.
LEMMA CullIsKnown ==
  ASSUME CullKnown, Cull, UNCHANGED <<extra, host, bias>>
  PROVE  CullKnown'
<1>1. /\ Dkc2VideoExpandCullLeft(NativeLeft)' = Dkc2VideoExpandCullLeft(NativeLeft)
      /\ Dkc2VideoExpandCullSpan(NativeSpan)' = Dkc2VideoExpandCullSpan(NativeSpan)
  BY DEF Dkc2VideoExpandCullLeft, Dkc2VideoExpandCullSpan
<1>2. /\ culled'.due = TRUE /\ culled'.ready = host.ready
      /\ culled'.even = (host.bias <= extra /\ -host.bias <= extra)
      /\ culled'.from = -Dkc2VideoExpandCullLeft(NativeLeft)
      /\ culled'.to = Dkc2VideoExpandCullSpan(NativeSpan) - Dkc2VideoExpandCullLeft(NativeLeft)
  BY DEF Cull
<1>3. UNCHANGED <<extra, host, bias>>
  OBVIOUS
<1>4. host.ready => host.bias = bias.presented
  BY DEF CullKnown
<1> QED BY <1>1, <1>2, <1>3, <1>4 DEF CullKnown

LEMMA GuestFrameKeeps ==
  ASSUME WindowInv, NEW t \in -CameraTravel .. CameraTravel, GuestFrame(view.camera + t)
  PROVE  WindowInv'
<1>1. /\ WindowTypeOK /\ LagBounded /\ CullKnown /\ Cull
      /\ culled.due = FALSE /\ culled'.due = TRUE
      /\ UNCHANGED <<edge, extra, west, mapped, bias, host>>
      /\ view' = [view EXCEPT !.camera = view.camera + t] /\ pictured' = Unseen
      /\ FirstPage <= view.camera + t /\ view.camera + t <= view.maximum
  BY DEF WindowInv, GuestFrame, Cull, WindowTypeOK
<1>2. /\ view.camera \in Int /\ view.maximum \in Int /\ \A h \in Bounds : h \in Int
      /\ extra \in Nat /\ bias.presented \in Int /\ view.camera + t \in Int
  BY <1>1, WindowNumbers DEF WindowTypeOK
<1>3. /\ view'.camera = view.camera + t /\ view'.maximum = view.maximum
      /\ view' \in [camera : Int, maximum : Maxima]
  BY <1>1, <1>2 DEF WindowTypeOK
<1>4. culled' \in CullRecord
  BY <1>1, CullsAreRecords
<1>5. WindowTypeOK'
  BY <1>1, <1>2, <1>3, <1>4 DEF WindowTypeOK, CullRecord
<1>6. LagBounded'
  <2>1. Late = 0 /\ Late' = 1
    BY <1>1 DEF Late
  <2> DEFINE b == bias.presented
  <2>2. /\ Pace \in Nat /\ CameraTravel \in Nat /\ Pace >= CameraTravel
        /\ t <= Pace /\ -t <= Pace
    BY PaceIsPositive
  <2>3. ASSUME bias.valid = 1, mapped PROVE EastLag(b, 0) /\ WestLag(b, 0)
    BY <1>1, <2>1, <2>3 DEF LagBounded
  <2>4. ASSUME bias.valid = 1, mapped, b > 0
        PROVE  Pace * (b - 1) <= view.maximum - (view.camera + t)
    <3>1. Pace * (b - 0) <= view.maximum - view.camera
      BY <2>3, <2>4 DEF EastLag
    <3>2. /\ Pace * (b - 1) = Pace * b - Pace /\ Pace * (b - 0) = Pace * b
          /\ Pace * b \in Int
      BY <1>2, LagOfLess
    <3> QED BY <1>2, <2>2, <3>1, <3>2
  <2>5. ASSUME bias.valid = 1, mapped, b < 0, NEW h \in Bounds
        PROVE  Pace * (-b - 1) <= (view.camera + t) - h
    <3>1. Pace * (-b - 0) <= view.camera - h
      BY <2>3, <2>5 DEF WestLag
    <3>2. -b \in Int
      BY <1>2
    <3>3. /\ Pace * (-b - 1) = Pace * (-b) - Pace /\ Pace * (-b - 0) = Pace * (-b)
          /\ Pace * (-b) \in Int
      BY <3>2, LagOfLess
    <3> QED BY <1>2, <2>2, <3>1, <3>3
  <2> QED BY <1>1, <1>3, <2>1, <2>4, <2>5 DEF LagBounded, EastLag, WestLag
<1>7. CullKnown'
  BY <1>1, CullIsKnown
<1>8. WindowKept'
  BY <1>1 DEF WindowKept, WindowInLevel, ShownIsKept, Unseen
<1> QED BY <1>5, <1>6, <1>7, <1>8 DEF WindowInv

LEMMA DrawWorldKeeps ==
  ASSUME WindowInv, NEW r \in BOOLEAN, NEW f \in Holds \cup {0}, DrawWorld(r, f)
  PROVE  WindowInv'
<1> DEFINE p == PresentedBias
<1>1. WindowTypeOK /\ LagBounded /\ CullKnown
  BY DEF WindowInv
<1>2. /\ UNCHANGED <<view, edge, extra>>
      /\ bias' = [valid |-> IF mapped THEN 1 ELSE 0, frames |-> BiasFrames, presented |-> p]
      /\ mapped' = TRUE /\ west' = f
      /\ host' = [ready |-> r, bias |-> IF r THEN p ELSE 0]
      /\ culled' = NotCulled
  BY DEF DrawWorld, HoldWest
<1>3. p \in Int /\ BiasFrames \in Nat
  BY <1>1, BiasFollows DEF BiasFrames, WindowTypeOK
<1>4. WindowTypeOK'
  BY <1>1, <1>2, <1>3, CullsAreRecords DEF WindowTypeOK, CullRecord
<1>5. mapped => EastLag(p, 0) /\ WestLag(p, 0)
  BY <1>1, PresentedHasRoom
<1> DEFINE margins == Dkc2VideoMarginsForBias(p)
<1>6. pictured' = IF r
                  THEN [kind |-> "world", known |-> mapped, settled |-> Settled,
                        bias |-> p, left |-> margins.left, right |-> margins.right,
                        minimum |-> minimum_scroll_x, culled |-> culled]
                  ELSE Unseen
  BY DEF DrawWorld
<1>7. mapped => /\ minimum_scroll_x <= view.camera + p /\ view.camera + p <= view.maximum
                /\ Slides \/ (edge = "bars" /\ p = 0) =>
                     /\ minimum_scroll_x <= view.camera + p - margins.left
                     /\ view.camera + p + margins.right <= view.maximum
  BY <1>1, <1>3, <1>5, RoomHoldsCentre, MarginsEndInLevel
<1>8. Settled /\ culled.ready /\ culled.even =>
        /\ culled.from + NativeLeft - 1 <= p - extra
        /\ p + NativeWidth + extra <= culled.to - (NativeSpan - NativeLeft - NativeWidth - 1)
  BY <1>1, CullHoldsWindow
<1> HIDE DEF p, margins
<1>9. LagBounded'
  <2>1. Late' = 0
    BY <1>2 DEF Late, NotCulled
  <2>2. bias'.valid = 1 => mapped
    BY <1>2
  <2> QED BY <1>2, <1>5, <2>1, <2>2 DEF LagBounded, EastLag, WestLag
<1>10. CullKnown'
  BY <1>2 DEF CullKnown, NotCulled
<1>11. WindowInLevel'
  <2> SUFFICES ASSUME r, mapped PROVE WindowInLevel'
    BY <1>6 DEF WindowInLevel, Unseen
  <2>1. /\ pictured'.bias = p /\ pictured'.minimum = minimum_scroll_x
        /\ pictured'.left = margins.left /\ pictured'.right = margins.right
        /\ view'.camera = view.camera /\ view'.maximum = view.maximum
        /\ edge' = edge
    BY <1>2, <1>6
  <2>2. /\ pictured'.minimum <= view'.camera + pictured'.bias
        /\ view'.camera + pictured'.bias <= view'.maximum
    BY <1>7, <2>1
  <2>3. ASSUME edge' \in {"shift", "glide"} \/ (edge' = "bars" /\ pictured'.bias = 0)
        PROVE  /\ pictured'.minimum <= view'.camera + pictured'.bias - pictured'.left
               /\ view'.camera + pictured'.bias + pictured'.right <= view'.maximum
    <3>1. Slides \/ (edge = "bars" /\ p = 0)
      BY <2>1, <2>3 DEF Slides
    <3>2. /\ minimum_scroll_x <= view.camera + p - margins.left
          /\ view.camera + p + margins.right <= view.maximum
      BY <1>7, <3>1
    <3> QED BY <2>1, <3>2
  <2> SUFFICES ASSUME (Slides \/ (edge = "bars" /\ pictured.bias = 0))'
               PROVE  /\ pictured'.minimum <= view'.camera + pictured'.bias - pictured'.left
                      /\ view'.camera + pictured'.bias + pictured'.right <= view'.maximum
    BY <2>2 DEF WindowInLevel
  <2> QED BY <2>3 DEF Slides
<1>12. ShownIsKept'
  BY <1>2, <1>6, <1>8 DEF ShownIsKept, Unseen
<1> QED BY <1>4, <1>9, <1>10, <1>11, <1>12 DEF WindowInv, WindowKept

\* A map not known owes the bias nothing.
LEMMA EnterSceneKeeps ==
  ASSUME WindowInv, NEW m \in Maxima, NEW x \in FirstPage .. m, EnterScene(m, x)
  PROVE  WindowInv'
<1>1. /\ WindowTypeOK /\ CullKnown /\ Cull
      /\ UNCHANGED <<edge, extra, west, bias, host>>
      /\ view' = [camera |-> x, maximum |-> m] /\ mapped' = FALSE /\ pictured' = Unseen
  BY DEF WindowInv, EnterScene
<1>2. x \in Int /\ FirstPage <= x /\ x <= m
  BY WindowAssumption
<1>4. culled' \in CullRecord
  BY <1>1, CullsAreRecords
<1>5. WindowTypeOK'
  BY <1>1, <1>2, <1>4 DEF WindowTypeOK, CullRecord
<1>6. CullKnown'
  BY <1>1, CullIsKnown
<1> QED BY <1>1, <1>5, <1>6 DEF WindowInv, LagBounded, WindowKept, WindowInLevel, ShownIsKept, Unseen

LEMMA StateLoadedKeeps ==
  ASSUME WindowInv, NEW m \in Maxima, NEW x \in FirstPage .. m, StateLoaded(m, x)
  PROVE  WindowInv'
<1>1. /\ WindowTypeOK /\ CullKnown /\ culled.due = FALSE
      /\ UNCHANGED <<edge, extra, culled>>
      /\ west' = 0 /\ bias' = [bias EXCEPT !.valid = 0] /\ host' = [host EXCEPT !.ready = FALSE]
      /\ view' = [camera |-> x, maximum |-> m] /\ mapped' = FALSE /\ pictured' = Unseen
  BY DEF WindowInv, StateLoaded, Forget, WindowTypeOK
<1>2. x \in Int /\ FirstPage <= x /\ x <= m
  BY WindowAssumption
<1>3. WindowTypeOK'
  BY <1>1, <1>2 DEF WindowTypeOK
<1>4. CullKnown'
  BY <1>1 DEF CullKnown, WindowTypeOK
<1> QED BY <1>1, <1>3, <1>4 DEF WindowInv, LagBounded, WindowKept, WindowInLevel, ShownIsKept, Unseen

LEMMA DrawBoundedKeeps ==
  ASSUME WindowInv, DrawBounded
  PROVE  WindowInv'
<1>1. /\ WindowTypeOK
      /\ UNCHANGED <<view, edge, extra>> /\ culled' = NotCulled
      /\ west' = 0 /\ bias' = [bias EXCEPT !.valid = 0] /\ host' = [host EXCEPT !.ready = FALSE]
      /\ mapped' = FALSE /\ pictured' = Unseen
  BY DEF WindowInv, DrawBounded, Forget
<1>2. WindowTypeOK'
  BY <1>1, CullsAreRecords DEF WindowTypeOK, CullRecord
<1>3. CullKnown'
  BY <1>1 DEF CullKnown, WindowTypeOK, NotCulled
<1> QED BY <1>1, <1>2, <1>3 DEF WindowInv, LagBounded, WindowKept, WindowInLevel, ShownIsKept, Unseen

LEMMA ChoiceKeeps ==
  ASSUME WindowInv, \/ \E policy \in EdgePolicies : Dkc2VideoSetEdgePolicy(policy)
                    \/ \E e \in Extras : Dkc2VideoSetAspect(e)
  PROVE  WindowInv'
<1>1. WindowTypeOK /\ CullKnown /\ LagBounded
  BY DEF WindowInv
<1>2. /\ culled.due = FALSE /\ UNCHANGED <<view, west, mapped, bias, culled>>
      /\ edge' \in EdgePolicies /\ extra' \in Extras /\ pictured' = Unseen
      /\ \/ UNCHANGED <<host, extra>>
         \/ host' = [host EXCEPT !.ready = FALSE]
  BY <1>1 DEF Dkc2VideoSetEdgePolicy, Dkc2VideoSetAspect, WindowTypeOK
<1>3. WindowTypeOK'
  BY <1>1, <1>2 DEF WindowTypeOK
<1>4. CullKnown'
  BY <1>1, <1>2 DEF CullKnown, WindowTypeOK
<1>5. LagBounded'
  BY <1>1, <1>2 DEF LagBounded, EastLag, WestLag, Late
<1> QED BY <1>2, <1>3, <1>4, <1>5 DEF WindowInv, WindowKept, WindowInLevel, ShownIsKept, Unseen

LEMMA WindowStart == WindowInit => WindowInv
<1> SUFFICES ASSUME WindowInit PROVE WindowInv
  OBVIOUS
<1>1. WindowTypeOK
  <2>1. \A m \in Maxima : FirstPage <= m
    <3> TAKE m \in Maxima
    <3>1. PICK e \in Extras : TRUE
      BY DEF WindowInit
    <3>2. /\ m \in Nat /\ e \in Nat /\ FirstPage \in Nat
          /\ m - FirstPage >= Pace * e + GlideSpan
      BY <3>1, WindowAssumption
    <3>3. Pace * e \in Nat /\ GlideSpan \in Nat
      BY <3>2, PaceIsPositive
    <3> QED BY <3>2, <3>3
  <2>2. FirstPage \in Int
    BY WindowAssumption
  <2>3. /\ bias \in [valid : {0, 1}, frames : Nat, presented : Int]
        /\ host \in [ready : BOOLEAN, bias : Int]
        /\ culled \in CullRecord
    BY CullsAreRecords DEF WindowInit
  <2>4. PICK m \in Maxima : view = [camera |-> FirstPage, maximum |-> m]
    BY DEF WindowInit
  <2>5. view \in [camera : Int, maximum : Maxima] /\ FirstPage <= view.camera
        /\ view.camera <= view.maximum
    BY <2>1, <2>2, <2>4
  <2>6. edge \in EdgePolicies /\ extra \in Extras /\ west \in Holds \cup {0} /\ mapped \in BOOLEAN
    BY DEF WindowInit
  <2> QED BY <2>3, <2>5, <2>6 DEF WindowTypeOK, CullRecord
<1> QED BY <1>1 DEF WindowInit, WindowInv, LagBounded, CullKnown, WindowKept, WindowInLevel,
                    ShownIsKept, NotCulled, Unseen

LEMMA WindowStep == WindowInv /\ [WindowNext]_windowVars => WindowInv'
<1> SUFFICES ASSUME WindowInv, [WindowNext]_windowVars PROVE WindowInv'
  OBVIOUS
<1>1. CASE \E t \in -CameraTravel .. CameraTravel : GuestFrame(view.camera + t)
  BY <1>1, GuestFrameKeeps
<1>2. CASE \E m \in Maxima : \E x \in FirstPage .. m : EnterScene(m, x) \/ StateLoaded(m, x)
  BY <1>2, EnterSceneKeeps, StateLoadedKeeps
<1>3. CASE \E r \in BOOLEAN, f \in Holds \cup {0} : DrawWorld(r, f)
  BY <1>3, DrawWorldKeeps
<1>4. CASE DrawBounded
  BY <1>4, DrawBoundedKeeps
<1>5. CASE \/ \E policy \in EdgePolicies : Dkc2VideoSetEdgePolicy(policy)
           \/ \E e \in Extras : Dkc2VideoSetAspect(e)
  BY <1>5, ChoiceKeeps
<1>6. CASE UNCHANGED windowVars
  BY <1>6 DEF windowVars, WindowInv, WindowTypeOK, LagBounded, EastLag, WestLag, Late,
              CullKnown, Dkc2VideoExpandCullLeft, Dkc2VideoExpandCullSpan,
              WindowKept, WindowInLevel, ShownIsKept, Slides
<1> QED BY <1>1, <1>2, <1>3, <1>4, <1>5, <1>6 DEF WindowNext

\* The window's variables have their types at every aspect, edge and level.
THEOREM WindowTypeCorrect == WindowSpec => []WindowTypeOK
<1>1. WindowInv => WindowTypeOK
  BY DEF WindowInv
<1> QED BY <1>1, WindowStart, WindowStep, PTL DEF WindowSpec

\* At every aspect and in every level wide enough, the late bias shows nothing
\* beyond a wall, and nothing is in the picture that its own lateness culled.
THEOREM WindowIsKept == WindowSpec => []WindowKept
<1>1. WindowInv => WindowKept
  BY DEF WindowInv
<1> QED BY <1>1, WindowStart, WindowStep, PTL DEF WindowSpec
-----------------------------------------------------------------------------
(* Planes.  A verdict in use was looked up, so as many drawn frames in a   *)
(* row can have used a wrong one as it is old.  Until a load sets stamps   *)
(* back, a verdict with the newest stamp is about the map as it is, and a  *)
(* page whose stamp the gate has seen has not been written since: the gate *)
(* knows how far the camera has been from where it stood then.             *)

Worlds == [map : Map, stamp : [Pages -> Nat], clock : 0 .. MaxClock, level : Levels, camera : Places]

Entry(e) ==
  /\ e = [valid |-> e.valid, stamp |-> e.stamp, age |-> e.age, of |-> e.of]
  /\ e.valid \in 0 .. 1 /\ e.age \in 0 .. Refresh /\ e.of \in Map

PlaneTypes ==
  /\ world \in Worlds /\ kept \in Worlds
  /\ gate \in [valid : 0 .. 1, level : Levels, seen : [Pages -> Nat],
               anchor : [Pages -> Places], traveled : [Pages -> 0 .. 1]]
  /\ DOMAIN cache = Checks /\ \A c \in Checks : Entry(cache[c])
  /\ asPlane \in 0 .. 1 /\ away \in [Pages -> Int] /\ loaded \in 0 .. 1
  /\ wrong \in 0 .. Refresh - 1

\* A verdict that will be used again has been wrong for as long as it is old.
WrongAsOld ==
  /\ cache["wraps"].valid = 1 /\ cache["wraps"].of \in Wraps => wrong <= cache["wraps"].age
  /\ cache["object"].valid = 1 => wrong <= cache["object"].age

StampsTell ==
  /\ \A p \in Pages : world.stamp[p] <= world.clock
  /\ NewestStamp \in 0 .. world.clock
  /\ \A c \in Checks : cache[c].valid = 1 =>
       /\ cache[c].stamp \in 0 .. world.clock
       /\ cache[c].stamp = NewestStamp => cache[c].of = world.map

GateSees ==
  \A p \in Pages :
    /\ gate.seen[p] <= world.clock
    /\ gate.valid = 1 =>
         /\ away[p] = -1 => world.stamp[p] # gate.seen[p]
         /\ gate.traveled[p] = 1 /\ world.stamp[p] = gate.seen[p] => away[p] >= Travel

PlaneInv == PlaneTypes /\ WrongAsOld /\ (loaded = 0 => StampsTell /\ GateSees)

LEMMA GreatestIs ==
  ASSUME NEW S \in SUBSET Int, NEW m \in S, \A x \in S : m >= x
  PROVE  Max(S) = m
<1>1. \A v \in S : (\A y \in S : v >= y) => v = m
  OBVIOUS
<1> QED BY <1>1 DEF Max

LEMMA LeastOfTwo ==
  ASSUME NEW a \in Int, NEW b \in Int
  PROVE  Min({a, b}) = IF a <= b THEN a ELSE b
<1> DEFINE m == IF a <= b THEN a ELSE b
<1>1. m \in {a, b} /\ \A x \in {a, b} : x >= m
  OBVIOUS
<1>2. \A v \in {a, b} : (\A y \in {a, b} : y >= v) => v = m
  OBVIOUS
<1>3. Min({a, b}) = CHOOSE v \in {a, b} : \A y \in {a, b} : y >= v
  BY DEF Min
<1>4. Min({a, b}) = m
  BY <1>1, <1>2, <1>3
<1> QED BY <1>4

LEMMA GreaterOfTwo ==
  ASSUME NEW a \in Int, NEW b \in Int
  PROVE  Max({a, b}) \in Int /\ Max({a, b}) >= a /\ Max({a, b}) >= b
         /\ (Max({a, b}) = a \/ Max({a, b}) = b)
<1> DEFINE m == IF a >= b THEN a ELSE b
<1>1. Max({a, b}) = m
  BY GreatestIs
<1> QED BY <1>1

LEMMA PlaneStarts == GateInit => PlaneInv
<1> SUFFICES ASSUME GateInit PROVE PlaneInv
  OBVIOUS
<1>1. /\ world \in [map : Map, stamp : {[p \in Pages |-> 0]}, clock : {0}, level : Levels, camera : Places]
      /\ gate = [valid |-> 0, level |-> world.level, seen |-> world.stamp,
                 anchor |-> [p \in Pages |-> world.camera], traveled |-> [p \in Pages |-> 0]]
      /\ cache = [c \in Checks |-> [valid |-> 0, stamp |-> 0, age |-> 0, of |-> world.map]]
      /\ asPlane = 0 /\ kept = world /\ away = [p \in Pages |-> Travel] /\ loaded = 0 /\ wrong = 0
  BY DEF GateInit
<1>2. Refresh \in Nat \ {0} /\ Travel \in Nat \ {0} /\ MaxClock \in Nat /\ Pages # {}
  BY GateAssumption
<1>3. world \in Worlds /\ world.stamp = [p \in Pages |-> 0] /\ world.clock = 0 /\ world.map \in Map
  BY <1>1, <1>2 DEF Worlds
<1>4. \A c \in Checks : Entry(cache[c]) /\ cache[c].valid = 0
  BY <1>1, <1>2, <1>3 DEF Entry
<1>5. PlaneTypes
  BY <1>1, <1>2, <1>3, <1>4 DEF PlaneTypes, Worlds
<1>6. "wraps" \in Checks /\ "object" \in Checks
  BY DEF Checks
<1>7. WrongAsOld
  BY <1>4, <1>6 DEF WrongAsOld
<1>8. NewestStamp = 0
  <2>1. {world.stamp[p] : p \in Pages} = {0}
    BY <1>2, <1>3
  <2>2. {0} \in SUBSET Int /\ \A x \in {0} : 0 >= x
    OBVIOUS
  <2>3. Max({0}) = 0
    BY <2>2, GreatestIs
  <2> QED BY <2>1, <2>3 DEF NewestStamp
<1>9. StampsTell
  BY <1>3, <1>4, <1>8 DEF StampsTell
<1>10. GateSees
  BY <1>1, <1>3 DEF GateSees
<1> QED BY <1>5, <1>7, <1>9, <1>10 DEF PlaneInv

\* A write makes the page's stamp newer than every verdict and every gate.
LEMMA FrameKeepsPlanes ==
  ASSUME PlaneInv, NEW w \in SUBSET Pages, NEW m \in Map, NEW l \in Levels, NEW x \in Places,
         RunFrame(w, m, l, x)
  PROVE  PlaneInv'
<1> DEFINE stamps == [p \in Pages |-> IF p \in w THEN world.clock + 1 ELSE world.stamp[p]]
<1>1. /\ world' = [map |-> m, clock |-> world.clock + 1, level |-> l, camera |-> x, stamp |-> stamps]
      /\ world.clock < MaxClock /\ \A p \in Pages \ w : m[p] = world.map[p]
      /\ away' = [p \in Pages |-> IF p \in w THEN -1 ELSE away[p]]
      /\ UNCHANGED <<gate, cache, asPlane, kept, loaded, wrong>>
  BY DEF RunFrame
<1>2. PlaneTypes /\ world \in Worlds /\ MaxClock \in Nat
  BY GateAssumption DEF PlaneInv, PlaneTypes
<1>3. world.clock \in 0 .. MaxClock /\ world.stamp \in [Pages -> Nat] /\ world.map \in Map
  BY <1>2 DEF Worlds
<1>4. stamps \in [Pages -> Nat]
  BY <1>3
<1>5. /\ world'.map = m /\ world'.clock = world.clock + 1 /\ world'.stamp = stamps
      /\ world'.level = l /\ world'.camera = x
  BY <1>1
<1>6. world' \in Worlds
  BY <1>1, <1>2, <1>3, <1>4 DEF Worlds
<1>7. PlaneTypes'
  BY <1>1, <1>2, <1>6 DEF PlaneTypes
<1>8. WrongAsOld'
  BY <1>1 DEF PlaneInv, WrongAsOld
<1>9. ASSUME loaded = 0 PROVE StampsTell' /\ GateSees'
  <2>1. StampsTell /\ GateSees
    BY <1>9 DEF PlaneInv
  <2>2. \A p \in Pages : world'.stamp[p] <= world'.clock
    BY <1>3, <1>5, <2>1 DEF StampsTell
  <2>3. CASE w = {}
    <3>1. stamps = world.stamp
      BY <1>3, <2>3
    <3>2. m = world.map
      BY <1>1, <1>3, <2>3 DEF Map
    <3>3. NewestStamp' = NewestStamp
      BY <1>5, <3>1 DEF NewestStamp
    <3>4. StampsTell'
      BY <1>1, <1>3, <1>5, <2>1, <2>2, <3>2, <3>3 DEF StampsTell
    <3>5. away' = away
      BY <1>1, <1>2, <2>3 DEF PlaneTypes
    <3>6. \A p \in Pages : gate.seen[p] \in Nat
      BY <1>2 DEF PlaneTypes
    <3>7. GateSees'
      BY <1>1, <1>3, <1>5, <2>1, <3>1, <3>5, <3>6 DEF GateSees
    <3> QED BY <3>4, <3>7
  <2>4. CASE w # {}
    <3>1. PICK q \in w : q \in Pages
      BY <2>4
    <3>2. world'.clock \in {world'.stamp[p] : p \in Pages}
      BY <1>5, <3>1
    <3>3. NewestStamp' = world'.clock
      <4> DEFINE S == {world'.stamp[p] : p \in Pages}
      <4>1. S \in SUBSET Int /\ world'.clock \in S /\ \A s \in S : world'.clock >= s
        BY <1>3, <1>4, <1>5, <2>2, <3>2
      <4>2. Max(S) = world'.clock
        BY <4>1, GreatestIs
      <4> QED BY <4>2 DEF NewestStamp
    <3>4. StampsTell'
      BY <1>1, <1>3, <1>5, <2>1, <2>2, <3>3 DEF StampsTell
    <3>5. ASSUME NEW p \in Pages PROVE gate.seen[p] \in Nat /\ gate.seen[p] <= world.clock
      BY <1>2, <2>1 DEF PlaneTypes, GateSees
    <3>6. GateSees'
      BY <1>1, <1>3, <1>5, <2>1, <3>5 DEF GateSees
    <3> QED BY <3>4, <3>6
  <2> QED BY <2>3, <2>4
<1> QED BY <1>1, <1>7, <1>8, <1>9 DEF PlaneInv

LEMMA SaveAndLoadKeepPlanes ==
  ASSUME PlaneInv, SaveWorld \/ \E cleared \in 0 .. 1 : LoadWorld(cleared)
  PROVE  PlaneInv'
<1>1. CASE SaveWorld
  <2>1. kept' = world /\ UNCHANGED <<world, gate, cache, asPlane, away, loaded, wrong>>
    BY <1>1 DEF SaveWorld
  <2>2. NewestStamp' = NewestStamp
    BY <2>1 DEF NewestStamp
  <2> QED BY <2>1, <2>2 DEF PlaneInv, PlaneTypes, WrongAsOld, StampsTell, GateSees
<1>2. ASSUME NEW cleared \in 0 .. 1, LoadWorld(cleared) PROVE PlaneInv'
  <2> DEFINE stamps == IF cleared = 1 THEN [p \in Pages |-> 0] ELSE world.stamp
  <2>1. /\ world' = [kept EXCEPT !.stamp = stamps] /\ loaded' = 1
        /\ UNCHANGED <<gate, cache, asPlane, kept, away, wrong>>
    BY <1>2 DEF LoadWorld
  <2>2. PlaneTypes /\ kept \in Worlds /\ stamps \in [Pages -> Nat]
    BY DEF PlaneInv, PlaneTypes, Worlds
  <2>3. world' \in Worlds
    BY <2>1, <2>2 DEF Worlds
  <2>4. PlaneTypes' /\ WrongAsOld'
    BY <2>1, <2>2, <2>3 DEF PlaneInv, PlaneTypes, WrongAsOld
  <2> QED BY <2>1, <2>4 DEF PlaneInv
<1> QED BY <1>1, <1>2

\* The gate after a drawn frame.
LEMMA GateDrawn ==
  ASSUME PlaneTypes
  PROVE  /\ Dkc2TrackVramPages \in [valid : {1}, level : {world.level}, seen : {world.stamp},
                                    anchor : [Pages -> Places], traveled : [Pages -> 0 .. 1]]
         /\ \A p \in Pages : Dkc2TrackVramPages.traveled[p] = 1 <=> Traveled(p)
<1>1. \A p \in Pages : Anchor(p) \in Places
  BY DEF PlaneTypes, Worlds, Anchor
<1>2. [p \in Pages |-> Anchor(p)] \in [Pages -> Places]
  BY <1>1
<1>3. [p \in Pages |-> IF Traveled(p) THEN 1 ELSE 0] \in [Pages -> 0 .. 1]
  OBVIOUS
<1> QED BY <1>2, <1>3 DEF Dkc2TrackVramPages

\* The farthest the camera has been is what the gate has seen of it.
LEMMA FarIsSeen ==
  ASSUME PlaneTypes, StampsTell, GateSees, NEW p \in Pages,
         Dkc2TrackVramPages.traveled[p] = 1
  PROVE  FarFrom(p) >= Travel
<1>1. /\ world.camera \in Int /\ gate.anchor[p] \in Int /\ away[p] \in Int /\ gate.valid \in 0 .. 1
      /\ Travel \in Nat \ {0}
  BY GateAssumption DEF PlaneTypes, Worlds
<1>2. CASE NewLevel
  BY <1>1, <1>2 DEF FarFrom
<1>3. CASE ~ NewLevel
  <2>1. \/ ~ Rewritten(p) /\ gate.traveled[p] = 1
        \/ Gap(world.camera, Anchor(p)) >= Travel
    BY <1>3, GateDrawn DEF Traveled
  <2>2. ~ Rewritten(p)
    BY <1>1, <2>1 DEF Anchor, Gap
  <2>3. gate.valid = 1 /\ world.stamp[p] = gate.seen[p]
    BY <1>1, <1>3, <2>2 DEF NewLevel, Rewritten
  <2>4. away[p] # -1 /\ (gate.traveled[p] = 1 => away[p] >= Travel)
    BY <2>3 DEF GateSees
  <2> DEFINE a == away[p]
             b == Gap(world.camera, gate.anchor[p])
  <2>5. a \in Int /\ b \in Int /\ FarFrom(p) = Max({a, b})
    BY <1>1, <1>3, <2>4 DEF FarFrom, Gap
  <2>6. a >= Travel \/ b >= Travel
    BY <2>1, <2>2, <2>4 DEF Anchor
  <2> HIDE DEF a, b
  <2>7. Max({a, b}) \in Int /\ Max({a, b}) >= a /\ Max({a, b}) >= b
    BY <2>5, GreaterOfTwo
  <2> QED BY <1>1, <2>5, <2>6, <2>7
<1> QED BY <1>2, <1>3

\* Every verdict is a drawn frame older, or dropped with the level.
LEMMA AgedIs ==
  ASSUME PlaneTypes, NEW c \in Checks
  PROVE  /\ Entry(Aged[c])
         /\ Aged[c].of = cache[c].of /\ Aged[c].stamp = cache[c].stamp
         /\ Aged[c].valid = 1 => /\ cache[c].valid = 1 /\ ~ NewLevel
                                 /\ Aged[c].age = IF cache[c].age < Refresh THEN cache[c].age + 1
                                                  ELSE Refresh
<1>1. Entry(cache[c]) /\ Refresh \in Nat \ {0}
  BY GateAssumption DEF PlaneTypes
<1>2. cache[c].age \in 0 .. Refresh
  BY <1>1 DEF Entry
<1>3. Min({cache[c].age + 1, Refresh}) = IF cache[c].age < Refresh THEN cache[c].age + 1 ELSE Refresh
  BY <1>1, <1>2, LeastOfTwo
<1> DEFINE e == cache[c]
           age == Min({e.age + 1, Refresh})
<1>4. Aged[c] = IF NewLevel THEN [e EXCEPT !.valid = 0] ELSE [e EXCEPT !.age = age]
  BY DEF Aged
<1>5. age \in 0 .. Refresh
  BY <1>1, <1>2, <1>3
<1> HIDE DEF e, age
<1>6. Entry(e)
  BY <1>1 DEF e
<1>7. /\ e = [valid |-> e.valid, stamp |-> e.stamp, age |-> e.age, of |-> e.of]
      /\ e.valid \in 0 .. 1 /\ e.age \in 0 .. Refresh /\ e.of \in Map
  BY <1>6 DEF Entry
<1>8. CASE NewLevel
  <2>1. Aged[c] = [valid |-> 0, stamp |-> e.stamp, age |-> e.age, of |-> e.of]
    BY <1>4, <1>7, <1>8
  <2> QED BY <1>7, <2>1 DEF Entry, e
<1>9. CASE ~ NewLevel
  <2>1. Aged[c] = [valid |-> e.valid, stamp |-> e.stamp, age |-> age, of |-> e.of]
    BY <1>4, <1>7, <1>9
  <2> QED BY <1>3, <1>5, <1>7, <1>9, <2>1 DEF Entry, e, age
<1> QED BY <1>8, <1>9

LEMMA LookedIs ==
  ASSUME PlaneTypes, NEW e, Entry(e)
  PROVE  /\ Entry(Looked(e)) /\ Looked(e).valid = 1
         /\ \/ Looked(e) = e /\ ~ Stale(e)
            \/ Looked(e).of = world.map /\ Looked(e).age = 0 /\ Looked(e).stamp = NewestStamp
<1>1. world.map \in Map /\ Refresh \in Nat \ {0}
  BY GateAssumption DEF PlaneTypes, Worlds
<1> QED BY <1>1 DEF Looked, Entry, Stale

\* A drawn frame keeps the invariant, and shows what the property says.
LEMMA DrawKeepsPlanes ==
  ASSUME PlaneInv, Draw
  PROVE  /\ PlaneInv'
         /\ loaded = 0 /\ asPlane' = 1 =>
              \/ world.map \in Objects
              \/ world.map \in Wraps /\ \A p \in Pages : away'[p] >= Travel
<1> DEFINE all == \A p \in Pages : Dkc2TrackVramPages.traveled[p] = 1
           wraps == IF all THEN Looked(Aged["wraps"]) ELSE Aged["wraps"]
           plane == all /\ wraps.of \in Wraps
           object == IF plane THEN Aged["object"] ELSE Looked(Aged["object"])
           used == IF plane THEN wraps ELSE object
<1>1. /\ PlaneTypes /\ WrongAsOld /\ "wraps" \in Checks /\ "object" \in Checks
      /\ Refresh \in Nat \ {0} /\ Travel \in Nat \ {0}
      /\ wrong \in 0 .. Refresh - 1
  BY GateAssumption DEF PlaneInv, PlaneTypes, Checks
<1>2. Entry(Aged["wraps"]) /\ Entry(Aged["object"])
  BY <1>1, AgedIs
<1>3. /\ Entry(Looked(Aged["wraps"])) /\ Looked(Aged["wraps"]).valid = 1
      /\ \/ Looked(Aged["wraps"]) = Aged["wraps"] /\ ~ Stale(Aged["wraps"])
         \/ /\ Looked(Aged["wraps"]).of = world.map /\ Looked(Aged["wraps"]).age = 0
            /\ Looked(Aged["wraps"]).stamp = NewestStamp
  BY <1>1, <1>2, LookedIs
<1>4. /\ Entry(Looked(Aged["object"])) /\ Looked(Aged["object"]).valid = 1
      /\ \/ Looked(Aged["object"]) = Aged["object"] /\ ~ Stale(Aged["object"])
         \/ /\ Looked(Aged["object"]).of = world.map /\ Looked(Aged["object"]).age = 0
            /\ Looked(Aged["object"]).stamp = NewestStamp
  BY <1>1, <1>2, LookedIs
<1>5. Entry(wraps) /\ Entry(object)
  BY <1>2, <1>3, <1>4
<1>6. Accepts["wraps"] = Wraps /\ Accepts["object"] = Objects
  BY DEF Accepts
<1>7. /\ gate' = Dkc2TrackVramPages /\ away' = [p \in Pages |-> FarFrom(p)]
      /\ UNCHANGED <<world, kept, loaded>>
      /\ cache' = [c \in Checks |-> IF c = "wraps" THEN wraps ELSE object]
      /\ asPlane' = (IF plane \/ object.of \in Objects THEN 1 ELSE 0)
      /\ wrong' = (IF used.of = world.map THEN 0 ELSE Min({wrong + 1, Refresh}))
  BY <1>6 DEF Draw, Dkc2BandShowsStaticPlane
<1>8. cache'["wraps"] = wraps /\ cache'["object"] = object /\ DOMAIN cache' = Checks
  BY <1>1, <1>7
<1>9. wrong' = IF used.of = world.map THEN 0 ELSE wrong + 1
  BY <1>1, <1>7, LeastOfTwo
<1>10. wraps.age \in 0 .. Refresh /\ object.age \in 0 .. Refresh
  BY <1>5 DEF Entry
<1>11. ASSUME NEW c \in Checks, Aged[c].valid = 1, c = "wraps" => Aged[c].of \in Wraps
       PROVE  wrong + 1 <= Aged[c].age
  <2>1. /\ cache[c].valid = 1 /\ Aged[c].of = cache[c].of
        /\ Aged[c].age = IF cache[c].age < Refresh THEN cache[c].age + 1 ELSE Refresh
    BY <1>1, <1>11, AgedIs
  <2>2. Entry(cache[c])
    BY <1>1 DEF PlaneTypes
  <2>3. cache[c].age \in 0 .. Refresh
    BY <2>2 DEF Entry
  <2>4. wrong <= cache[c].age
    BY <1>1, <1>11, <2>1 DEF WrongAsOld, Checks
  <2> QED BY <1>1, <2>1, <2>3, <2>4
<1>12. \/ used.of = world.map /\ used.age = 0
       \/ used.valid = 1 /\ used.age < Refresh /\ wrong + 1 <= used.age
  <2>1. CASE plane
    <3>1. used = Looked(Aged["wraps"]) /\ used.of \in Wraps
      BY <2>1
    <3>2. CASE Looked(Aged["wraps"]) = Aged["wraps"] /\ ~ Stale(Aged["wraps"])
      <4>1. Aged["wraps"].valid = 1 /\ Aged["wraps"].age < Refresh
        BY <1>1, <1>2, <1>3, <3>2 DEF Stale, Entry
      <4> QED BY <1>1, <1>11, <3>1, <3>2, <4>1
    <3> QED BY <1>3, <3>1, <3>2
  <2>2. CASE ~plane
    <3>1. used = Looked(Aged["object"])
      BY <2>2
    <3>2. CASE Looked(Aged["object"]) = Aged["object"] /\ ~ Stale(Aged["object"])
      <4>1. Aged["object"].valid = 1 /\ Aged["object"].age < Refresh
        BY <1>1, <1>2, <1>4, <3>2 DEF Stale, Entry
      <4> QED BY <1>1, <1>11, <3>1, <3>2, <4>1
    <3> QED BY <1>4, <3>1, <3>2
  <2> QED BY <2>1, <2>2
<1>13. used.age \in 0 .. Refresh
  BY <1>10
<1>14. wrong' \in 0 .. Refresh - 1
  BY <1>1, <1>9, <1>12, <1>13
<1>15. wrong' <= wrong + 1 /\ wrong' <= used.age
  BY <1>1, <1>9, <1>12, <1>13
<1>16. WrongAsOld'
  <2>1. ASSUME wraps.valid = 1, wraps.of \in Wraps PROVE wrong' <= wraps.age
    <3>1. CASE all
      BY <1>15, <2>1, <3>1
    <3>2. CASE ~all
      <4>1. wrong + 1 <= wraps.age
        BY <1>1, <1>11, <2>1, <3>2
      <4> QED BY <1>1, <1>10, <1>14, <1>15, <4>1
    <3> QED BY <3>1, <3>2
  <2>2. ASSUME object.valid = 1 PROVE wrong' <= object.age
    <3>1. CASE ~plane
      BY <1>15, <3>1
    <3>2. CASE plane
      <4>1. wrong + 1 <= object.age
        BY <1>1, <1>11, <2>2, <3>2
      <4> QED BY <1>1, <1>10, <1>14, <1>15, <4>1
    <3> QED BY <3>1, <3>2
  <2> QED BY <1>8, <2>1, <2>2 DEF WrongAsOld
<1>17. away' \in [Pages -> Int]
  <2>1. ASSUME NEW p \in Pages PROVE FarFrom(p) \in Int
    <3>1. /\ world.camera \in Int /\ gate.anchor[p] \in Int /\ away[p] \in Int
      BY <1>1, GateAssumption DEF PlaneTypes, Worlds
    <3>2. Gap(world.camera, gate.anchor[p]) \in Int
      BY <3>1 DEF Gap
    <3> DEFINE a == away[p]
               b == Gap(world.camera, gate.anchor[p])
    <3>3. /\ a \in Int /\ b \in Int /\ Travel \in Int
          /\ FarFrom(p) = IF NewLevel THEN Travel ELSE IF a = -1 THEN 0 ELSE Max({a, b})
      BY <1>1, <3>1, <3>2 DEF FarFrom
    <3> HIDE DEF a, b
    <3>4. Max({a, b}) \in Int
      BY <3>3, GreaterOfTwo
    <3> QED BY <3>3, <3>4
  <2> QED BY <1>7, <2>1
<1>18. PlaneTypes'
  <2>1. gate' \in [valid : 0 .. 1, level : Levels, seen : [Pages -> Nat],
                   anchor : [Pages -> Places], traveled : [Pages -> 0 .. 1]]
    BY <1>1, <1>7, GateDrawn DEF PlaneTypes, Worlds
  <2>2. \A c \in Checks : cache'[c] = wraps \/ cache'[c] = object
    BY <1>7
  <2>3. \A c \in Checks : Entry(cache'[c])
    BY <1>5, <2>2
  <2>4. asPlane' \in 0 .. 1
    BY <1>7
  <2>5. \A c \in Checks : Entry(cache[c])'
    BY <2>3 DEF Entry
  <2> QED BY <1>1, <1>7, <1>8, <1>14, <1>17, <2>1, <2>4, <2>5 DEF PlaneTypes
<1>19. ASSUME loaded = 0
       PROVE  /\ StampsTell' /\ GateSees'
              /\ asPlane' = 1 =>
                   \/ world.map \in Objects
                   \/ world.map \in Wraps /\ \A p \in Pages : away'[p] >= Travel
  <2>1. StampsTell /\ GateSees /\ NewestStamp' = NewestStamp
    BY <1>7, <1>19 DEF PlaneInv, NewestStamp
  <2>2. ASSUME NEW c \in Checks, Aged[c].valid = 1
        PROVE  /\ Aged[c].stamp \in 0 .. world.clock
               /\ Aged[c].stamp = NewestStamp => Aged[c].of = world.map
    BY <1>1, <2>1, <2>2, AgedIs DEF StampsTell
  <2>3. ASSUME wraps.valid = 1
        PROVE  /\ wraps.stamp \in 0 .. world.clock
               /\ wraps.stamp = NewestStamp => wraps.of = world.map
    BY <1>1, <1>3, <2>1, <2>2, <2>3 DEF StampsTell
  <2>4. ASSUME object.valid = 1
        PROVE  /\ object.stamp \in 0 .. world.clock
               /\ object.stamp = NewestStamp => object.of = world.map
    BY <1>1, <1>4, <2>1, <2>2, <2>4 DEF StampsTell
  <2>5. StampsTell'
    <3>1. \A c \in Checks : cache'[c].valid = 1 =>
            /\ cache'[c].stamp \in 0 .. world.clock
            /\ cache'[c].stamp = NewestStamp => cache'[c].of = world.map
      BY <1>7, <2>3, <2>4
    <3> QED BY <1>7, <2>1, <3>1 DEF StampsTell
  <2>6. ASSUME NEW p \in Pages
        PROVE  /\ gate'.seen[p] = world.stamp[p]
               /\ Dkc2TrackVramPages.traveled[p] = 1 => FarFrom(p) >= Travel
    BY <1>1, <1>7, <2>1, GateDrawn, FarIsSeen
  <2>7. ASSUME NEW p \in Pages PROVE away'[p] # -1
    <3>1. /\ world.camera \in Int /\ gate.anchor[p] \in Int /\ away[p] \in Int
      BY <1>1, GateAssumption DEF PlaneTypes, Worlds
    <3>2. Gap(world.camera, gate.anchor[p]) \in Int /\ Gap(world.camera, gate.anchor[p]) >= 0
      BY <3>1 DEF Gap
    <3>3. CASE NewLevel \/ away[p] = -1
      BY <1>1, <1>7, <3>3 DEF FarFrom
    <3>4. CASE ~NewLevel /\ away[p] # -1
      <4>1. away'[p] = Max({away[p], Gap(world.camera, gate.anchor[p])})
        BY <1>7, <3>4 DEF FarFrom
      <4> DEFINE a == away[p]
                 b == Gap(world.camera, gate.anchor[p])
      <4>2. a \in Int /\ b \in Int /\ b >= 0 /\ away'[p] = Max({a, b})
        BY <3>1, <3>2, <4>1
      <4> HIDE DEF a, b
      <4> QED BY <4>2, GreaterOfTwo
    <3> QED BY <3>3, <3>4
  <2>8. GateSees'
    BY <1>7, <2>1, <2>6, <2>7 DEF GateSees, StampsTell
  <2>9. ASSUME asPlane' = 1
        PROVE  \/ world.map \in Objects
               \/ world.map \in Wraps /\ \A p \in Pages : away'[p] >= Travel
    <3>1. CASE plane
      <4>1. wraps.of = world.map
        BY <1>2, <1>3, <2>2, <3>1, <1>1 DEF Stale, Entry
      <4> QED BY <1>7, <2>6, <3>1, <4>1
    <3>2. CASE ~plane
      <4>1. object.of \in Objects
        BY <1>7, <2>9, <3>2
      <4>2. object.of = world.map
        BY <1>2, <1>4, <2>2, <3>2, <1>1 DEF Stale, Entry
      <4> QED BY <4>1, <4>2
    <3> QED BY <3>1, <3>2
  <2> QED BY <2>5, <2>8, <2>9
<1> QED BY <1>7, <1>16, <1>18, <1>19 DEF PlaneInv

\* Whatever the console and the renderer do.
LEMMA PlaneKeeps == PlaneInv /\ [GateNext]_gateVars => PlaneInv'
<1> SUFFICES ASSUME PlaneInv, [GateNext]_gateVars PROVE PlaneInv'
  OBVIOUS
<1>1. CASE UNCHANGED gateVars
  <2>1. NewestStamp' = NewestStamp
    BY <1>1 DEF gateVars, NewestStamp
  <2> QED BY <1>1, <2>1 DEF gateVars, PlaneInv, PlaneTypes, WrongAsOld, StampsTell, GateSees
<1>2. ASSUME NEW w \in SUBSET Pages, NEW m \in Map, NEW l \in Levels, NEW x \in Places,
             RunFrame(w, m, l, x)
      PROVE  PlaneInv'
  BY <1>2, FrameKeepsPlanes
<1>3. CASE SaveWorld \/ \E cleared \in 0 .. 1 : LoadWorld(cleared)
  BY <1>3, SaveAndLoadKeepPlanes
<1>4. CASE Draw
  BY <1>4, DrawKeepsPlanes
<1> QED BY <1>1, <1>2, <1>3, <1>4 DEF GateNext

\* Verdicts and stamps stay in range: ages end at the refresh.
THEOREM GateTypeCorrect == GateSpec => []GateTypeOK
<1>1. PlaneInv => GateTypeOK
  BY DEF PlaneInv, PlaneTypes, Worlds, Entry, GateTypeOK
<1> QED BY <1>1, PlaneStarts, PlaneKeeps, PTL DEF GateSpec

\* For any map, level and travel of the camera, a map is shown as a plane for
\* what it holds, and a wrap only when no page of it was written within
\* kDkc2PlaneTravel of the camera; after a load the verdict is wrong for less
\* than a refresh.
THEOREM PlanesAreTrue == GateSpec => PlaneIsTrue
<1>1. ASSUME PlaneInv, [GateNext]_gateVars
      PROVE  [Draw => /\ wrong' < Refresh
                      /\ loaded = 0 /\ asPlane' = 1 =>
                           \/ world.map \in Objects
                           \/ world.map \in Wraps /\ \A p \in Pages : away'[p] >= Travel]_gateVars
  <2> SUFFICES ASSUME Draw
               PROVE  /\ wrong' < Refresh
                      /\ loaded = 0 /\ asPlane' = 1 =>
                           \/ world.map \in Objects
                           \/ world.map \in Wraps /\ \A p \in Pages : away'[p] >= Travel
    OBVIOUS
  <2>1. PlaneTypes'
    BY <1>1, DrawKeepsPlanes DEF PlaneInv
  <2>2. wrong' \in 0 .. Refresh - 1 /\ Refresh \in Nat
    BY <2>1, GateAssumption DEF PlaneTypes
  <2> QED BY <1>1, <2>2, DrawKeepsPlanes
<1> QED BY <1>1, PlaneStarts, PlaneKeeps, PTL DEF GateSpec, PlaneIsTrue

-----------------------------------------------------------------------------
(* Tracks.  A player that has moved k source frames holds frames k and     *)
(* k + 1 of what the file should sound like, has read exactly those, and   *)
(* knows whether the second was the last; its phase is what k frames leave *)
(* of the output frames heard.                                             *)

Players == [source : Nat, total : Nat, loopFrame : Nat, loop : 0 .. 1, phase : Nat,
            current : Int, next : Int, final : 0 .. 1, playing : 0 .. 1]

\* ShouldHear of any file.
FrameOf(f, k) ==
  IF k < f.total THEN k
  ELSE IF TrackLoops(f) = 1
  THEN f.loopFrame + ((k - f.loopFrame) % (f.total - f.loopFrame))
  ELSE f.total - 1

HasOpen(p, f) ==
  /\ p \in Players /\ f \in Tracks
  /\ p.total = f.total /\ p.loopFrame = f.loopFrame /\ p.loop = TrackLoops(f)

PlayerAt(p, f, k) ==
  /\ HasOpen(p, f) /\ p.playing = 1
  /\ p.current = FrameOf(f, k) /\ p.next = FrameOf(f, k + 1)
  /\ TrackLoops(f) = 1 => p.final = 0 /\ p.source = FrameOf(f, k + 1) + 1
  /\ TrackLoops(f) = 0 => /\ k < f.total
                          /\ p.source = IF k + 2 <= f.total THEN k + 2 ELSE f.total
                          /\ p.final = IF k + 1 >= f.total THEN 1 ELSE 0

\* A player that has stopped is behind a file that does not loop.
StoppedBehind(p, f) ==
  /\ HasOpen(p, f) /\ p.playing = 0 /\ TrackLoops(f) = 0
  /\ p.current \in 0 .. f.total - 1 /\ p.next \in 0 .. f.total - 1 /\ p.source <= f.total

\* n ticks heard, each output frame being InRate ticks long, a source frame OutRate.
Due(p, f, n) ==
  \/ \E k \in Nat : PlayerAt(p, f, k) /\ n = k * OutRate + p.phase
  \/ StoppedBehind(p, f) /\ n >= f.total * OutRate

MsuInv ==
  /\ heard \in Nat /\ Due(player, file, heard * InRate)
  /\ player.phase \in 0 .. OutRate + InRate
  /\ player.playing = 1 => player.phase < OutRate

\* a is q whole d and r.
Splits(a, d, q, r) == a = q * d + r /\ r \in 0 .. d - 1

LEMMA Residue ==
  ASSUME NEW a \in Nat, NEW d \in Nat \ {0}, NEW q \in Nat, NEW r, Splits(a, d, q, r)
  PROVE  a \div d = q /\ a % d = r
<1> DEFINE x == a \div d
           y == a % d
<1>1. /\ x \in Nat /\ y \in 0 .. d - 1 /\ x * d + y = a
      /\ a = q * d + r /\ r \in 0 .. d - 1
  BY DivMod DEF Splits
<1> HIDE DEF x, y
<1> DEFINE z == x + 0 - q
<1>2. z \in Int /\ z = x - q /\ z * d = r - y
  <2>1. z * d = x * d + 0 * d - q * d /\ x * d \in Int /\ q * d \in Int
    BY <1>1, TimesSum
  <2>2. 0 * d = 0
    OBVIOUS
  <2> QED BY <1>1, <2>1, <2>2
<1> HIDE DEF z
<1>3. x = q
  <2>1. ASSUME z >= 1 PROVE FALSE
    <3>1. 1 * d <= z * d /\ 1 * d = d
      BY <1>2, <2>1, TimesMonotone
    <3> QED BY <1>1, <1>2, <3>1
  <2>2. ASSUME z <= -1 PROVE FALSE
    <3>1. z * d <= -1 * d /\ -1 * d = -d
      BY <1>2, <2>2, TimesMonotone
    <3> QED BY <1>1, <1>2, <3>1
  <2> QED BY <1>1, <1>2, <2>1, <2>2
<1>4. y = r
  BY <1>1, <1>3
<1> QED BY <1>3, <1>4 DEF x, y

LEMMA Successor ==
  ASSUME NEW a \in Nat, NEW d \in Nat \ {0}
  PROVE  (a + 1) % d = IF (a % d) + 1 = d THEN 0 ELSE (a % d) + 1
<1> DEFINE x == a \div d
           y == a % d
<1>1. x \in Nat /\ y \in 0 .. d - 1 /\ x * d + y = a
  BY DivMod
<1> HIDE DEF x, y
<1> DEFINE b == a + 1
           next == x + 1
<1>2. b \in Nat /\ b = x * d + y + 1 /\ next \in Nat /\ next * d = x * d + d /\ x * d \in Int
  <2>1. (x + 1) * d = x * d + d /\ x * d \in Int
    BY <1>1
  <2> QED BY <1>1, <2>1
<1> HIDE DEF b, next
<1>3. CASE y + 1 = d
  <2>1. Splits(b, d, next, 0)
    BY <1>1, <1>2, <1>3 DEF Splits
  <2>2. b % d = 0
    BY <1>2, <2>1, Residue
  <2> QED BY <1>3, <2>2 DEF y, b
<1>4. CASE y + 1 # d
  <2> DEFINE r == y + 1
  <2>1. Splits(b, d, x, r)
    BY <1>1, <1>2, <1>4 DEF Splits
  <2> HIDE DEF r
  <2>2. b % d = r
    BY <1>1, <1>2, <2>1, Residue
  <2> QED BY <1>4, <2>2 DEF r, y, b
<1> QED BY <1>3, <1>4

LEMMA FileTyped ==
  ASSUME NEW f \in Tracks
  PROVE  /\ f.total \in Nat \ {0} /\ f.loopFrame \in Nat /\ TrackLoops(f) \in 0 .. 1
         /\ TrackLoops(f) = 1 => f.loopFrame < f.total
BY PlayerAssumption DEF TrackLoops

\* What is heard next: the following frame, the loop's first behind the end.
LEMMA FrameFollows ==
  ASSUME NEW f \in Tracks, NEW k \in Nat
  PROVE  /\ FrameOf(f, k) \in 0 .. f.total - 1
         /\ TrackLoops(f) = 1 =>
              FrameOf(f, k + 1) = IF FrameOf(f, k) + 1 >= f.total THEN f.loopFrame
                                  ELSE FrameOf(f, k) + 1
<1>1. /\ f.total \in Nat \ {0} /\ f.loopFrame \in Nat /\ TrackLoops(f) \in 0 .. 1
      /\ TrackLoops(f) = 1 => f.loopFrame < f.total
  BY FileTyped
<1>2. CASE k + 1 < f.total
  BY <1>1, <1>2 DEF FrameOf
<1>3. CASE TrackLoops(f) = 0
  BY <1>1, <1>3 DEF FrameOf
<1>4. CASE k + 1 >= f.total /\ TrackLoops(f) = 1
  <2> DEFINE d == f.total - f.loopFrame
             a == k - f.loopFrame
  <2>1. d \in Nat \ {0} /\ a \in Nat /\ f.loopFrame + d = f.total /\ k + 1 - f.loopFrame = a + 1
    BY <1>1, <1>4
  <2> HIDE DEF d, a
  <2> DEFINE now == a % d
             then == (a + 1) % d
  <2>2. now \in 0 .. d - 1 /\ then = IF now + 1 = d THEN 0 ELSE now + 1
    BY <2>1, Successor, DivMod
  <2>3. FrameOf(f, k + 1) = f.loopFrame + then
    <3>1. ~ k + 1 < f.total
      BY <1>1, <1>4
    <3> DEFINE b == k + 1
    <3>2. ~ b < f.total /\ b - f.loopFrame = a + 1
      BY <1>1, <2>1, <3>1
    <3> HIDE DEF b
    <3>3. FrameOf(f, b) = f.loopFrame + ((b - f.loopFrame) % (f.total - f.loopFrame))
      BY <1>4, <3>2 DEF FrameOf
    <3>4. FrameOf(f, b) = f.loopFrame + then
      BY <3>2, <3>3 DEF d
    <3> QED BY <3>4 DEF b
  <2>4. CASE k >= f.total
    <3>1. ~ k < f.total
      BY <1>1, <2>4
    <3>2. FrameOf(f, k) = f.loopFrame + now
      BY <1>4, <3>1 DEF FrameOf, a, d
    <3> HIDE DEF now, then
    <3> QED BY <1>1, <1>4, <2>1, <2>2, <2>3, <3>2
  <2>5. CASE k = f.total - 1
    <3>1. FrameOf(f, k) = k
      BY <1>1, <2>5 DEF FrameOf
    <3>2. Splits(a, d, 0, d - 1)
      <4>1. a = d - 1
        BY <1>1, <2>5 DEF a, d
      <4> QED BY <2>1, <4>1 DEF Splits
    <3>3. now = d - 1
      BY <2>1, <3>2, Residue
    <3> HIDE DEF now, then
    <3>4. then = 0
      BY <2>1, <2>2, <3>3
    <3> QED BY <1>1, <1>4, <2>1, <2>3, <2>5, <3>1, <3>4
  <2> QED BY <1>1, <1>4, <2>4, <2>5
<1> QED BY <1>1, <1>2, <1>3, <1>4

\* A looping track always has a frame to read, another until its end.
LEMMA ReadIs ==
  ASSUME NEW p, NEW f, HasOpen(p, f)
  PROVE  /\ TrackLoops(f) = 1 \/ p.source < f.total =>
              LET at == IF p.source < f.total THEN p.source ELSE f.loopFrame
              IN ReadFrame(p) = [got |-> 1, sample |-> at, p |-> [p EXCEPT !.source = at + 1]]
         /\ TrackLoops(f) = 0 /\ p.source >= f.total =>
              ReadFrame(p) = [got |-> 0, sample |-> -1, p |-> p]
<1>1. /\ p \in Players /\ f \in Tracks
      /\ p.total = f.total /\ p.loopFrame = f.loopFrame /\ p.loop = TrackLoops(f)
  BY DEF HasOpen
<1>2. /\ f.total \in Nat \ {0} /\ f.loopFrame \in Nat /\ TrackLoops(f) \in 0 .. 1
      /\ TrackLoops(f) = 1 => f.loopFrame < f.total
  BY <1>1, FileTyped
<1>3. p.source \in Nat
  BY <1>1 DEF Players
<1>4. CASE p.source < f.total
  <2>1. ReadFrame(p) = [got |-> 1, sample |-> p.source, p |-> [p EXCEPT !.source = p.source + 1]]
    BY <1>1, <1>2, <1>3, <1>4 DEF ReadFrame, Seek
  <2> QED BY <1>2, <1>3, <1>4, <2>1
<1>5. CASE p.source >= f.total /\ TrackLoops(f) = 1
  <2> DEFINE q == [p EXCEPT !.source = f.loopFrame]
  <2>1. q \in Players /\ q.source = f.loopFrame /\ q.total = f.total
    BY <1>1, <1>2 DEF Players
  <2>2. [q EXCEPT !.source = f.loopFrame + 1] = [p EXCEPT !.source = f.loopFrame + 1]
    BY <1>1, <1>2 DEF Players
  <2>3. ReadFrame(p) = [got |-> 1, sample |-> f.loopFrame, p |-> [q EXCEPT !.source = f.loopFrame + 1]]
    BY <1>1, <1>2, <1>3, <1>5, <2>1 DEF ReadFrame, Seek
  <2> QED BY <1>2, <1>3, <1>5, <2>2, <2>3
<1>6. CASE p.source >= f.total /\ TrackLoops(f) = 0
  <2>1. ReadFrame(p) = [got |-> 0, sample |-> -1, p |-> p]
    BY <1>1, <1>2, <1>3, <1>6 DEF ReadFrame, Unread
  <2> QED BY <1>2, <1>3, <1>6, <2>1
<1> QED BY <1>2, <1>3, <1>4, <1>5, <1>6

\* The three ways to go on.
ReadOn(m, s) == [[m EXCEPT !.source = s + 1] EXCEPT !.next = s]
HeldOn(m) == [[m EXCEPT !.final = 1] EXCEPT !.next = m.current]
Stopped(m) == [m EXCEPT !.playing = 0]

LEMMA ReadOnIs ==
  ASSUME NEW m, NEW f, HasOpen(m, f), NEW s \in Nat
  PROVE  /\ HasOpen(ReadOn(m, s), f) /\ ReadOn(m, s).source = s + 1 /\ ReadOn(m, s).next = s
         /\ ReadOn(m, s).phase = m.phase /\ ReadOn(m, s).current = m.current
         /\ ReadOn(m, s).final = m.final /\ ReadOn(m, s).playing = m.playing
<1> DEFINE o == [m EXCEPT !.source = s + 1]
           a == [o EXCEPT !.next = s]
<1>1. m \in Players /\ f \in Tracks
  BY DEF HasOpen
<1>2. m.total = f.total /\ m.loopFrame = f.loopFrame /\ m.loop = TrackLoops(f)
  BY DEF HasOpen
<1>3. /\ o \in Players /\ o.source = s + 1 /\ o.phase = m.phase
      /\ o.current = m.current /\ o.final = m.final /\ o.playing = m.playing
      /\ o.total = m.total /\ o.loopFrame = m.loopFrame /\ o.loop = m.loop
  BY <1>1 DEF Players
<1> HIDE DEF o
<1>4. /\ a \in Players /\ a.source = o.source /\ a.next = s /\ a.phase = o.phase
      /\ a.current = o.current /\ a.final = o.final /\ a.playing = o.playing
      /\ a.total = o.total /\ a.loopFrame = o.loopFrame /\ a.loop = o.loop
  BY <1>3 DEF Players
<1>5. a = ReadOn(m, s)
  BY DEF o, ReadOn
<1> HIDE DEF a
<1> QED BY <1>1, <1>2, <1>3, <1>4, <1>5 DEF HasOpen

LEMMA HeldOnIs ==
  ASSUME NEW m, NEW f, HasOpen(m, f)
  PROVE  /\ HasOpen(HeldOn(m), f) /\ HeldOn(m).final = 1 /\ HeldOn(m).next = m.current
         /\ HeldOn(m).phase = m.phase /\ HeldOn(m).current = m.current
         /\ HeldOn(m).source = m.source /\ HeldOn(m).playing = m.playing
<1>1. m \in Players /\ f \in Tracks
  BY DEF HasOpen
<1>2. m.total = f.total /\ m.loopFrame = f.loopFrame /\ m.loop = TrackLoops(f)
  BY DEF HasOpen
<1> DEFINE o == [m EXCEPT !.final = 1]
           a == [o EXCEPT !.next = m.current]
<1>3. /\ o \in Players /\ o.final = 1 /\ o.phase = m.phase
      /\ o.current = m.current /\ o.source = m.source /\ o.playing = m.playing
      /\ o.total = m.total /\ o.loopFrame = m.loopFrame /\ o.loop = m.loop
  BY <1>1 DEF Players
<1>5. m.current \in Int
  BY <1>1 DEF Players
<1> HIDE DEF o
<1>4. /\ a \in Players /\ a.source = o.source /\ a.next = m.current /\ a.phase = o.phase
      /\ a.current = o.current /\ a.final = o.final /\ a.playing = o.playing
      /\ a.total = o.total /\ a.loopFrame = o.loopFrame /\ a.loop = o.loop
  BY <1>3, <1>5 DEF Players
<1>6. a = HeldOn(m)
  BY DEF o, HeldOn
<1> HIDE DEF a
<1> QED BY <1>1, <1>2, <1>3, <1>4, <1>6 DEF HasOpen

LEMMA StoppedIs ==
  ASSUME NEW m, NEW f, HasOpen(m, f)
  PROVE  /\ HasOpen(Stopped(m), f) /\ Stopped(m).playing = 0
         /\ Stopped(m).phase = m.phase /\ Stopped(m).current = m.current
         /\ Stopped(m).source = m.source /\ Stopped(m).next = m.next
<1>1. m \in Players /\ f \in Tracks
  BY DEF HasOpen
<1>2. m.total = f.total /\ m.loopFrame = f.loopFrame /\ m.loop = TrackLoops(f)
  BY DEF HasOpen
<1>3. Stopped(m) \in Players
  BY <1>1 DEF Players, Stopped
<1>4. /\ Stopped(m).playing = 0 /\ Stopped(m).phase = m.phase
      /\ Stopped(m).current = m.current /\ Stopped(m).source = m.source
      /\ Stopped(m).next = m.next /\ Stopped(m).total = m.total
      /\ Stopped(m).loopFrame = m.loopFrame /\ Stopped(m).loop = m.loop
  BY <1>1 DEF Players, Stopped
<1> QED BY <1>1, <1>2, <1>3, <1>4 DEF HasOpen

\* One source frame on: the next one is read, or held when it was the last.
LEMMA AdvanceMoves ==
  ASSUME NEW p, NEW f, NEW k \in Nat, PlayerAt(p, f, k), p.phase >= OutRate
  PROVE  /\ Advance(p).phase = p.phase - OutRate
         /\ \/ PlayerAt(Advance(p), f, k + 1)
            \/ StoppedBehind(Advance(p), f) /\ k + 1 = f.total
<1> DEFINE m == [p EXCEPT !.phase = p.phase - OutRate, !.current = p.next]
           r == ReadFrame(m)
           next == FrameOf(f, k + 1)
<1>1. /\ p \in Players /\ f \in Tracks /\ p.playing = 1
      /\ p.total = f.total /\ p.loopFrame = f.loopFrame /\ p.loop = TrackLoops(f)
      /\ p.next = next
  BY DEF PlayerAt, HasOpen
<1>2. /\ f.total \in Nat \ {0} /\ f.loopFrame \in Nat /\ TrackLoops(f) \in 0 .. 1
      /\ TrackLoops(f) = 1 => f.loopFrame < f.total
  BY <1>1, FileTyped
<1>3. OutRate \in Nat \ {0}
  BY PlayerAssumption
<1>4. next \in 0 .. f.total - 1
  BY <1>1, FrameFollows
<1>5. /\ m \in Players /\ HasOpen(m, f) /\ m.phase = p.phase - OutRate /\ m.current = next
      /\ m.source = p.source /\ m.final = p.final /\ m.playing = 1
  <2>1. p.phase - OutRate \in Nat /\ next \in Nat /\ p.next = next
    BY <1>1, <1>2, <1>3, <1>4 DEF Players
  <2> HIDE DEF next
  <2>2. m \in Players
    BY <1>1, <2>1 DEF Players
  <2>3. /\ m.phase = p.phase - OutRate /\ m.current = next /\ m.source = p.source
        /\ m.final = p.final /\ m.playing = p.playing /\ m.total = p.total
        /\ m.loopFrame = p.loopFrame /\ m.loop = p.loop
    BY <1>1, <2>1 DEF Players
  <2> QED BY <1>1, <2>2, <2>3 DEF HasOpen
<1>6. Advance(p) = IF r.got = 1 THEN [r.p EXCEPT !.next = r.sample]
                   ELSE IF p.final = 1 THEN [m EXCEPT !.playing = 0]
                   ELSE [m EXCEPT !.final = 1, !.next = m.current]
  BY DEF Advance
<1> HIDE DEF next, m
<1>7. CASE TrackLoops(f) = 1
  <2> DEFINE at == IF p.source < f.total THEN p.source ELSE f.loopFrame
  <2>1. p.final = 0 /\ p.source = next + 1
    BY <1>7 DEF PlayerAt, next
  <2>2. at = FrameOf(f, k + 1 + 1) /\ at \in Nat
    BY <1>1, <1>2, <1>4, <1>7, <2>1, FrameFollows DEF next
  <2>3. r = [got |-> 1, sample |-> at, p |-> [m EXCEPT !.source = at + 1]]
    BY <1>5, <1>7, ReadIs
  <2> HIDE DEF r, at
  <2>4. Advance(p) = ReadOn(m, at)
    BY <1>6, <2>3 DEF ReadOn
  <2>5. /\ Advance(p).phase = p.phase - OutRate /\ HasOpen(Advance(p), f)
        /\ Advance(p).playing = 1 /\ Advance(p).current = next /\ Advance(p).next = at
        /\ Advance(p).final = 0 /\ Advance(p).source = at + 1
    <3> DEFINE q == ReadOn(m, at)
    <3>1. /\ HasOpen(q, f) /\ q.source = at + 1 /\ q.next = at /\ q.phase = m.phase
          /\ q.current = m.current /\ q.final = m.final /\ q.playing = m.playing
      BY <1>5, <2>2, ReadOnIs
    <3> HIDE DEF q
    <3>2. Advance(p) = q
      BY <2>4 DEF q
    <3> QED BY <1>5, <2>1, <3>1, <3>2
  <2> QED BY <1>7, <2>2, <2>5 DEF PlayerAt, next
<1>8. CASE TrackLoops(f) = 0
  <2>1. /\ k < f.total
        /\ p.source = IF k + 2 <= f.total THEN k + 2 ELSE f.total
        /\ p.final = IF k + 1 >= f.total THEN 1 ELSE 0
    BY <1>8 DEF PlayerAt
  <2>2. CASE k + 2 < f.total
    <3>1. m.source = k + 2 /\ m.source < f.total /\ m.source \in Nat
      BY <1>2, <1>5, <2>1, <2>2
    <3>2. r = [got |-> 1, sample |-> m.source, p |-> [m EXCEPT !.source = m.source + 1]]
      BY <1>5, <3>1, ReadIs
    <3> HIDE DEF r
    <3>3. Advance(p) = ReadOn(m, m.source)
      BY <1>6, <3>2 DEF ReadOn
    <3>4. /\ Advance(p).phase = p.phase - OutRate /\ HasOpen(Advance(p), f)
          /\ Advance(p).playing = 1 /\ Advance(p).current = next /\ Advance(p).next = k + 2
          /\ Advance(p).final = 0 /\ Advance(p).source = k + 3
      <4> DEFINE q == ReadOn(m, m.source)
      <4>1. /\ HasOpen(q, f) /\ q.source = m.source + 1 /\ q.next = m.source /\ q.phase = m.phase
            /\ q.current = m.current /\ q.final = m.final /\ q.playing = m.playing
        BY <1>5, <3>1, ReadOnIs
      <4> HIDE DEF q
      <4>2. Advance(p) = q
        BY <3>3 DEF q
      <4> QED BY <1>2, <1>5, <2>1, <2>2, <3>1, <4>1, <4>2
    <3>5. FrameOf(f, k + 1 + 1) = k + 2
      BY <1>2, <2>2 DEF FrameOf
    <3> QED BY <1>2, <1>8, <2>2, <3>4, <3>5 DEF PlayerAt, next
  <2>3. CASE k + 2 >= f.total
    <3>1. m.source = f.total
      BY <1>2, <1>5, <2>1, <2>3
    <3>2. r = [got |-> 0, sample |-> -1, p |-> m]
      BY <1>2, <1>5, <1>8, <3>1, ReadIs
    <3> HIDE DEF r
    <3>5. Advance(p) = IF p.final = 1 THEN Stopped(m) ELSE HeldOn(m)
      BY <1>6, <3>2 DEF Stopped, HeldOn
    <3>3. CASE k + 1 >= f.total
      <4>1. Advance(p) = Stopped(m)
        BY <2>1, <3>3, <3>5
      <4>2. m.next = next
        BY <1>1 DEF m, Players
      <4>3. /\ Advance(p).phase = p.phase - OutRate /\ HasOpen(Advance(p), f)
            /\ Advance(p).playing = 0 /\ Advance(p).current = next /\ Advance(p).next = next
            /\ Advance(p).source = f.total
        BY <1>5, <3>1, <4>1, <4>2, StoppedIs
      <4> QED BY <1>2, <1>4, <1>8, <2>1, <3>3, <4>3 DEF StoppedBehind
    <3>4. CASE k + 1 < f.total
      <4>1. Advance(p) = HeldOn(m)
        BY <1>2, <2>1, <3>4, <3>5
      <4>2. /\ Advance(p).phase = p.phase - OutRate /\ HasOpen(Advance(p), f)
            /\ Advance(p).playing = 1 /\ Advance(p).current = next /\ Advance(p).next = next
            /\ Advance(p).source = f.total /\ Advance(p).final = 1
        BY <1>4, <1>5, <3>1, <4>1, HeldOnIs
      <4>3. k + 1 = f.total - 1
        BY <1>2, <2>3, <3>4
      <4>4. next = k + 1 /\ FrameOf(f, k + 1 + 1) = k + 1
        BY <1>2, <1>8, <4>3 DEF FrameOf, next
      <4>5. next = FrameOf(f, k + 1)
        BY DEF next
      <4> QED BY <1>2, <1>8, <4>2, <4>3, <4>4, <4>5 DEF PlayerAt
    <3> QED BY <1>2, <3>3, <3>4
  <2> QED BY <1>2, <2>2, <2>3
<1> QED BY <1>2, <1>7, <1>8

LEMMA OpenTrackIs ==
  ASSUME NEW f \in Tracks
  PROVE  PlayerAt(OpenTrack(f), f, 0) /\ OpenTrack(f).phase = 0
<1> DEFINE c == [source |-> 0, total |-> f.total, loopFrame |-> f.loopFrame,
                 loop |-> TrackLoops(f), phase |-> 0, current |-> Unread, next |-> Unread,
                 final |-> 0, playing |-> 1]
           d == [c EXCEPT !.source = 0 + 1]
           r == ReadFrame(d)
           s == IF f.total = 1 THEN 0 ELSE 1
           o == OpenTrack(f)
<1>1. /\ f.total \in Nat \ {0} /\ f.loopFrame \in Nat /\ TrackLoops(f) \in 0 .. 1
      /\ TrackLoops(f) = 1 => f.loopFrame < f.total
  BY FileTyped
<1>2. /\ HasOpen(c, f) /\ c \in Players /\ c.source = 0
      /\ c.phase = 0 /\ c.final = 0 /\ c.playing = 1
  BY <1>1 DEF HasOpen, Players, Unread
<1>3. o = IF ReadFrame(ReadFrame(c).p).got = 1
          THEN [ReadFrame(ReadFrame(c).p).p EXCEPT
                  !.current = ReadFrame(c).sample, !.next = ReadFrame(ReadFrame(c).p).sample]
          ELSE [ReadFrame(c).p EXCEPT
                  !.current = ReadFrame(c).sample, !.next = ReadFrame(c).sample, !.final = 1]
  BY DEF OpenTrack
<1> HIDE DEF c
<1>9. ReadFrame(c) = [got |-> 1, sample |-> 0, p |-> d]
  BY <1>1, <1>2, ReadIs
<1>10. ReadFrame(c).p = d /\ ReadFrame(c).sample = 0
  BY <1>9
<1>4. /\ d \in Players /\ d.source = 1 /\ d.phase = 0 /\ d.final = 0 /\ d.playing = 1
      /\ d.total = c.total /\ d.loopFrame = c.loopFrame /\ d.loop = c.loop
  BY <1>2 DEF Players
<1> HIDE DEF d
<1>5. HasOpen(d, f)
  BY <1>2, <1>4 DEF HasOpen
<1>6. FrameOf(f, 0) = 0 /\ FrameOf(f, 1) = IF f.total # 1 THEN 1
                                           ELSE IF TrackLoops(f) = 1 THEN f.loopFrame ELSE 0
  <2>1. FrameOf(f, 0) = 0
    BY <1>1 DEF FrameOf
  <2>2. CASE TrackLoops(f) = 1
    <3>1. FrameOf(f, 0 + 1) = IF FrameOf(f, 0) + 1 >= f.total THEN f.loopFrame ELSE FrameOf(f, 0) + 1
      BY <2>2, FrameFollows
    <3> QED BY <1>1, <2>1, <2>2, <3>1
  <2>3. CASE TrackLoops(f) = 0
    BY <1>1, <2>1, <2>3 DEF FrameOf
  <2> QED BY <1>1, <2>1, <2>2, <2>3
<1>7. CASE TrackLoops(f) = 1 \/ f.total # 1
  <2> DEFINE g == [d EXCEPT !.source = s + 1]
             h == [g EXCEPT !.current = 0]
  <2>1. r = [got |-> 1, sample |-> s, p |-> g]
    <3>1. (IF d.source < f.total THEN d.source ELSE f.loopFrame) = s
      BY <1>1, <1>4, <1>7
    <3> HIDE DEF s
    <3> QED BY <1>1, <1>4, <1>5, <1>7, <3>1, ReadIs
  <2>2. o = [h EXCEPT !.next = s]
    <3>1. r.got = 1 /\ r.sample = s /\ r.p = g
      BY <2>1
    <3>2. o = [r.p EXCEPT !.current = 0, !.next = r.sample]
      <4>1. ReadFrame(ReadFrame(c).p) = r
        BY <1>10
      <4> HIDE DEF o, r, g, s
      <4> QED BY <1>3, <1>10, <3>1, <4>1
    <3> HIDE DEF o, r, g, s
    <3> QED BY <3>1, <3>2
  <2> HIDE DEF r, o
  <2>3. /\ g \in Players /\ g.source = s + 1 /\ g.phase = 0 /\ g.final = 0 /\ g.playing = 1
        /\ g.total = d.total /\ g.loopFrame = d.loopFrame /\ g.loop = d.loop
    BY <1>4 DEF Players
  <2> HIDE DEF g
  <2>4. /\ h \in Players /\ h.source = s + 1 /\ h.phase = 0 /\ h.final = 0 /\ h.playing = 1
        /\ h.total = g.total /\ h.loopFrame = g.loopFrame /\ h.loop = g.loop /\ h.current = 0
    BY <2>3 DEF Players
  <2> HIDE DEF h
  <2>5. /\ o \in Players /\ o.source = s + 1 /\ o.phase = 0 /\ o.final = 0 /\ o.playing = 1
        /\ o.total = h.total /\ o.loopFrame = h.loopFrame /\ o.loop = h.loop
        /\ o.current = 0 /\ o.next = s
    BY <2>2, <2>4 DEF Players
  <2>6. HasOpen(o, f)
    BY <1>5, <2>3, <2>4, <2>5 DEF HasOpen
  <2>7. s = FrameOf(f, 1)
    BY <1>1, <1>6, <1>7
  <2> QED BY <1>1, <1>6, <1>7, <2>5, <2>6, <2>7 DEF PlayerAt, o
<1>8. CASE TrackLoops(f) = 0 /\ f.total = 1
  <2> DEFINE g == [d EXCEPT !.current = 0]
             h == [g EXCEPT !.next = 0]
  <2>1. r = [got |-> 0, sample |-> -1, p |-> d]
    BY <1>1, <1>4, <1>5, <1>8, ReadIs
  <2>2. o = [h EXCEPT !.final = 1]
    <3>1. r.got = 0
      BY <2>1
    <3>2. o = [d EXCEPT !.current = 0, !.next = 0, !.final = 1]
      <4>1. ReadFrame(ReadFrame(c).p) = r
        BY <1>10
      <4> HIDE DEF o, r, s
      <4> QED BY <1>3, <1>10, <3>1, <4>1
    <3> HIDE DEF o, r, s
    <3> QED BY <3>2
  <2> HIDE DEF r, o
  <2>3. /\ g \in Players /\ g.source = 1 /\ g.phase = 0 /\ g.current = 0 /\ g.playing = 1
        /\ g.total = d.total /\ g.loopFrame = d.loopFrame /\ g.loop = d.loop
    BY <1>4 DEF Players
  <2> HIDE DEF g
  <2>4. /\ h \in Players /\ h.source = 1 /\ h.phase = 0 /\ h.current = 0 /\ h.playing = 1
        /\ h.total = g.total /\ h.loopFrame = g.loopFrame /\ h.loop = g.loop /\ h.next = 0
    BY <2>3 DEF Players
  <2> HIDE DEF h
  <2>5. /\ o \in Players /\ o.source = 1 /\ o.phase = 0 /\ o.final = 1 /\ o.playing = 1
        /\ o.total = h.total /\ o.loopFrame = h.loopFrame /\ o.loop = h.loop
        /\ o.current = 0 /\ o.next = 0
    BY <2>2, <2>4 DEF Players
  <2>6. HasOpen(o, f)
    BY <1>5, <2>3, <2>4, <2>5 DEF HasOpen
  <2> QED BY <1>6, <1>8, <2>5, <2>6 DEF PlayerAt, o
<1> QED BY <1>1, <1>7, <1>8

\* A turn of the loop, from a phase that may be due.
LEMMA SteppedIs ==
  ASSUME NEW p, NEW f, NEW n \in Nat, Due(p, f, n), p.phase \in 0 .. OutRate + InRate
  PROVE  /\ Due(Stepped(p), f, n)
         /\ Stepped(p).playing = 1 => Stepped(p).phase =
              IF p.phase >= OutRate THEN p.phase - OutRate ELSE p.phase
         /\ Stepped(p).phase \in 0 .. OutRate + InRate
         /\ p.playing = 0 => Stepped(p).playing = 0
<1>1. OutRate \in Nat \ {0} /\ InRate \in Nat
  BY PlayerAssumption
<1>2. CASE StoppedBehind(p, f) /\ n >= f.total * OutRate
  <2>1. Stepped(p) = p /\ p.playing = 0
    BY <1>2 DEF Stepped, StoppedBehind
  <2> QED BY <1>2, <2>1 DEF Due
<1>3. ASSUME NEW k \in Nat, PlayerAt(p, f, k), n = k * OutRate + p.phase
      PROVE  /\ Due(Stepped(p), f, n)
             /\ Stepped(p).playing = 1 => Stepped(p).phase =
                  IF p.phase >= OutRate THEN p.phase - OutRate ELSE p.phase
             /\ Stepped(p).phase \in 0 .. OutRate + InRate
             /\ p.playing = 0 => Stepped(p).playing = 0
  <2>1. p.playing = 1
    BY <1>3 DEF PlayerAt
  <2>2. CASE p.phase < OutRate
    <3>1. Stepped(p) = p
      BY <1>1, <2>2 DEF Stepped
    <3> QED BY <1>1, <1>3, <2>1, <2>2, <3>1 DEF Due
  <2>3. CASE p.phase >= OutRate
    <3>1. Stepped(p) = Advance(p)
      BY <2>1, <2>3 DEF Stepped
    <3> DEFINE q == Stepped(p)
               j == k + 1
    <3>2. /\ q.phase = p.phase - OutRate /\ q.phase \in 0 .. OutRate + InRate
          /\ PlayerAt(q, f, j) \/ (StoppedBehind(q, f) /\ j = f.total)
      <4>1. p.phase - OutRate \in 0 .. OutRate + InRate
        BY <1>1, <2>3
      <4> QED BY <1>3, <2>3, <3>1, <4>1, AdvanceMoves
    <3>3. j \in Nat /\ n = j * OutRate + q.phase
      <4>1. (k + 1) * OutRate = k * OutRate + OutRate /\ k * OutRate \in Int
        BY <1>1
      <4> QED BY <1>1, <1>3, <3>2, <4>1
    <3> HIDE DEF q, j
    <3>4. j = f.total => n >= f.total * OutRate
      <4>1. j * OutRate \in Int
        BY <1>1, <3>3
      <4> QED BY <1>1, <3>2, <3>3, <4>1
    <3>5. Due(q, f, n)
      BY <1>1, <3>2, <3>3, <3>4 DEF Due
    <3> QED BY <2>1, <2>3, <3>2, <3>5 DEF q
  <2> QED BY <1>1, <2>2, <2>3
<1> QED BY <1>2, <1>3 DEF Due

LEMMA MixKeeps ==
  ASSUME MsuInv, Dkc2Msu1Mix
  PROVE  MsuInv'
<1> DEFINE p == [player EXCEPT !.phase = player.phase + InRate]
           q == Stepped(p)
           n == heard * InRate + InRate
<1>1. OutRate \in Nat \ {0} /\ InRate \in Nat \ {0} /\ InRate < 2 * OutRate
  BY PlayerAssumption
<1>2. /\ player' = Stepped(q) /\ heard' = heard + 1 /\ file' = file /\ player.playing = 1
  BY DEF Dkc2Msu1Mix, MixFrame
<1>3. heard' * InRate = n /\ n \in Nat /\ heard' \in Nat
  <2>1. heard \in Nat
    BY DEF MsuInv
  <2>2. (heard + 1) * InRate = heard * InRate + InRate /\ heard * InRate \in Nat
    BY <1>1, <2>1
  <2> QED BY <1>1, <1>2, <2>1, <2>2
<1>4. PICK k \in Nat : PlayerAt(player, file, k) /\ heard * InRate = k * OutRate + player.phase
  <2>1. ~ StoppedBehind(player, file)
    BY <1>2 DEF StoppedBehind
  <2> QED BY <2>1 DEF MsuInv, Due
<1>5. player \in Players /\ player.phase \in 0 .. OutRate - 1
  BY <1>1, <1>2, <1>4 DEF MsuInv, PlayerAt, HasOpen
<1>6. /\ p \in Players /\ p.phase = player.phase + InRate /\ p.source = player.source
      /\ p.total = player.total /\ p.loopFrame = player.loopFrame /\ p.loop = player.loop
      /\ p.current = player.current /\ p.next = player.next
      /\ p.final = player.final /\ p.playing = player.playing
  <2>1. player.phase + InRate \in Nat
    BY <1>1, <1>5
  <2> QED BY <1>5, <2>1 DEF Players
<1> HIDE DEF p
<1>7. PlayerAt(p, file, k)
  BY <1>4, <1>6 DEF PlayerAt, HasOpen
<1>8. n = k * OutRate + p.phase
  <2>1. k * OutRate \in Int
    BY <1>1
  <2> QED BY <1>1, <1>4, <1>5, <1>6, <2>1
<1> HIDE DEF n
<1>9. Due(p, file, n) /\ p.phase \in 0 .. OutRate + InRate
  BY <1>1, <1>5, <1>6, <1>7, <1>8 DEF Due
<1>10. /\ Due(q, file, n) /\ q.phase \in 0 .. OutRate + InRate
       /\ q.playing = 1 => q.phase = IF p.phase >= OutRate THEN p.phase - OutRate ELSE p.phase
  BY <1>3, <1>9, SteppedIs
<1> HIDE DEF q
<1>11. /\ Due(player', file, n) /\ player'.phase \in 0 .. OutRate + InRate
       /\ player'.playing = 1 => player'.phase = IF q.phase >= OutRate THEN q.phase - OutRate ELSE q.phase
       /\ q.playing = 0 => player'.playing = 0
  BY <1>2, <1>3, <1>10, SteppedIs
<1>12. q.playing \in 0 .. 1
  BY <1>10 DEF Due, PlayerAt, StoppedBehind
<1>13. player'.playing = 1 => player'.phase < OutRate
  BY <1>1, <1>5, <1>6, <1>10, <1>11, <1>12
<1>14. Due(player, file, heard * InRate)'
  BY <1>2, <1>3, <1>11 DEF Due, PlayerAt, StoppedBehind, HasOpen, FrameOf, TrackLoops
<1> QED BY <1>3, <1>11, <1>13, <1>14 DEF MsuInv

LEMMA SelectKeeps ==
  ASSUME NEW f \in Tracks
  PROVE  Due(OpenTrack(f), f, 0 * InRate)
<1>1. OutRate \in Nat \ {0} /\ InRate \in Nat \ {0}
  BY PlayerAssumption
<1>2. 0 * InRate = 0 * OutRate + OpenTrack(f).phase
  BY <1>1, OpenTrackIs
<1> QED BY <1>2, OpenTrackIs DEF Due

LEMMA MsuInvariance == MsuSpec => []MsuInv
<1>1. OutRate \in Nat \ {0} /\ InRate \in Nat \ {0}
  BY PlayerAssumption
<1>2. MsuInit => MsuInv
  BY <1>1, SelectKeeps, OpenTrackIs DEF MsuInit, MsuInv
<1>3. MsuInv /\ [MsuNext]_msuVars => MsuInv'
  <2>1. ASSUME MsuInv, UNCHANGED msuVars PROVE MsuInv'
    BY <2>1 DEF msuVars, MsuInv, Due, PlayerAt, StoppedBehind, HasOpen
  <2>2. ASSUME NEW f \in Tracks, Dkc2Msu1Select(f) PROVE MsuInv'
    BY <1>1, <2>2, SelectKeeps, OpenTrackIs DEF Dkc2Msu1Select, MsuInv
  <2> QED BY <2>1, <2>2, MixKeeps DEF MsuNext
<1> QED BY <1>2, <1>3, PTL DEF MsuSpec

\* The types of the player, for any file.
THEOREM MsuTypeCorrect == MsuSpec => []MsuTypeOK
<1>1. MsuInv => MsuTypeOK
  <2> SUFFICES ASSUME MsuInv PROVE MsuTypeOK
    OBVIOUS
  <2>1. player.phase \in 0 .. OutRate + InRate
    BY DEF MsuInv
  <2>2. ASSUME NEW k \in Nat, PlayerAt(player, file, k)
        PROVE  /\ player.source \in 0 .. player.total
               /\ player.current \in 0 .. player.total - 1 /\ player.next \in 0 .. player.total - 1
               /\ player.final \in 0 .. 1 /\ player.playing \in 0 .. 1
    <3>1. player \in Players /\ file \in Tracks /\ player.total = file.total
      BY <2>2 DEF PlayerAt, HasOpen
    <3>2. FrameOf(file, k) \in 0 .. file.total - 1 /\ FrameOf(file, k + 1) \in 0 .. file.total - 1
      BY <3>1, FrameFollows
    <3>3. file.total \in Nat \ {0} /\ TrackLoops(file) \in 0 .. 1
      BY <3>1, FileTyped
    <3> QED BY <2>2, <3>1, <3>2, <3>3 DEF PlayerAt, Players
  <2>3. ASSUME StoppedBehind(player, file)
        PROVE  /\ player.source \in 0 .. player.total
               /\ player.current \in 0 .. player.total - 1 /\ player.next \in 0 .. player.total - 1
               /\ player.final \in 0 .. 1 /\ player.playing \in 0 .. 1
    BY <2>3, FileTyped DEF StoppedBehind, HasOpen, Players
  <2> QED BY <2>1, <2>2, <2>3 DEF MsuInv, Due, MsuTypeOK
<1> QED BY <1>1, MsuInvariance, PTL

\* For any file, any pair of rates under two to one and any length of play,
\* the player is at exactly the source frame the output frames call for.
THEOREM PlayerKeepsTime == MsuSpec => []PlaysAsWritten
<1>1. MsuInv => PlaysAsWritten
  <2> SUFFICES ASSUME MsuInv PROVE PlaysAsWritten
    OBVIOUS
  <2> DEFINE n == heard * InRate
  <2>1. OutRate \in Nat \ {0} /\ InRate \in Nat \ {0} /\ n \in Nat
    BY PlayerAssumption DEF MsuInv
  <2>2. Due(player, file, n)
    BY DEF MsuInv
  <2>3. \A k : ShouldHear(k) = FrameOf(file, k)
    BY DEF ShouldHear, FrameOf
  <2> HIDE DEF n
  <2>4. ASSUME NEW k \in Nat, PlayerAt(player, file, k), n = k * OutRate + player.phase
        PROVE  /\ player.playing = 1 /\ player.phase = n % OutRate
               /\ player.current = ShouldHear(n \div OutRate)
               /\ player.next = ShouldHear((n \div OutRate) + 1)
               /\ TrackLoops(file) = 1 \/ n \div OutRate < file.total
    <3>1. player.playing = 1 /\ file \in Tracks
      BY <2>4 DEF PlayerAt, HasOpen
    <3>2. player.phase \in 0 .. OutRate - 1
      BY <2>1, <3>1 DEF MsuInv
    <3> DEFINE r == player.phase
    <3>3. n \div OutRate = k /\ n % OutRate = r
      <4>1. Splits(n, OutRate, k, r)
        BY <2>4, <3>2 DEF Splits
      <4> HIDE DEF r
      <4> QED BY <2>1, <4>1, Residue
    <3>4. TrackLoops(file) \in 0 .. 1
      BY <3>1, FileTyped
    <3> QED BY <2>3, <2>4, <3>1, <3>3, <3>4 DEF PlayerAt
  <2>5. ASSUME StoppedBehind(player, file), n >= file.total * OutRate
        PROVE  player.playing = 0 /\ TrackLoops(file) = 0 /\ n \div OutRate >= file.total
    <3>1. player.playing = 0 /\ TrackLoops(file) = 0 /\ file \in Tracks
      BY <2>5 DEF StoppedBehind, HasOpen
    <3>2. file.total \in Nat
      BY <3>1, FileTyped
    <3> DEFINE x == n \div OutRate
               y == n % OutRate
    <3>3. x \in Nat /\ y \in 0 .. OutRate - 1 /\ x * OutRate + y = n
      BY <2>1, DivMod
    <3> HIDE DEF x, y
    <3>4. ASSUME x + 1 <= file.total PROVE FALSE
      <4>1. (x + 1) * OutRate <= file.total * OutRate
        BY <2>1, <3>2, <3>3, <3>4, TimesMonotone
      <4>2. (x + 1) * OutRate = x * OutRate + OutRate /\ x * OutRate \in Int /\ file.total * OutRate \in Int
        BY <2>1, <3>2, <3>3
      <4> QED BY <2>1, <2>5, <3>3, <4>1, <4>2
    <3>5. x >= file.total
      BY <3>2, <3>3, <3>4
    <3> QED BY <3>1, <3>5 DEF x
  <2> QED BY <2>2, <2>4, <2>5 DEF Due, PlaysAsWritten, n
<1> QED BY <1>1, MsuInvariance, PTL

-----------------------------------------------------------------------------
(* The clock.  What each of its parts writes, field by field.              *)

Settings == {"nmiOn", "irq", "joyOn", "htime", "vtime", "pad", "strobe", "divides", "left", "right",
             "wrmpya", "wrdiv", "hdmaOn", "channel"}
Polled == {"joyLeft", "joy"}
Computed == {"mathLeft", "product", "quotient"}
Channelled == {"hdma", "regs", "barrier"}
Raised == {"nmiFlag", "nmiPending", "shift"}
Fields == Settings \cup Polled \cup Computed \cup Channelled \cup Raised \cup {"h", "v", "timeup"}

IsConsole(s) == s = [f \in Fields |-> s[f]]
Untouched(r, s, changed) == \A f \in Fields \ changed : r[f] = s[f]

Product(s) == IF s.divides = 0 THEN s.left * s.right
              ELSE IF s.right = 0 THEN s.left ELSE s.left % s.right
Quotient(s) == IF s.divides = 0 THEN s.quotient
               ELSE IF s.right = 0 THEN MaxWord ELSE s.left \div s.right
Transferred(s) == run_hdma_channel(HdmaMemory, [s.channel EXCEPT !.on = s.hdmaOn], s.hdma, s.regs)

\* The controller poll runs out once and copies the pad.
LEMMA JoyFields ==
  ASSUME NEW s, IsConsole(s), NEW n \in Nat, s.joyLeft \in Nat
  PROVE  /\ IsConsole(advance_autojoy(s, n)) /\ Untouched(advance_autojoy(s, n), s, Polled)
         /\ advance_autojoy(s, n).joyLeft = IF n >= s.joyLeft THEN 0 ELSE s.joyLeft - n
         /\ advance_autojoy(s, n).joy = IF s.joyLeft > 0 /\ n >= s.joyLeft THEN s.pad ELSE s.joy
<1> DEFINE r == advance_autojoy(s, n)
<1>1. CASE s.joyLeft = 0
  BY <1>1 DEF advance_autojoy, Untouched
<1>2. CASE s.joyLeft > 0 /\ n >= s.joyLeft
  <2>1. r = [s EXCEPT !.joyLeft = 0, !.joy = s.pad]
    BY <1>2 DEF advance_autojoy
  <2> QED BY <1>2, <2>1 DEF IsConsole, Untouched, Fields, Settings, Polled, Computed, Channelled, Raised
<1>3. CASE s.joyLeft > 0 /\ n < s.joyLeft
  <2>1. r = [s EXCEPT !.joyLeft = s.joyLeft - n]
    BY <1>3 DEF advance_autojoy
  <2> QED BY <1>3, <2>1 DEF IsConsole, Untouched, Fields, Settings, Polled, Computed, Channelled, Raised
<1> QED BY <1>1, <1>2, <1>3

\* The arithmetic unit runs out once and delivers its result.
LEMMA MathFields ==
  ASSUME NEW s, IsConsole(s), NEW n \in Nat, s.mathLeft \in Nat
  PROVE  /\ IsConsole(advance_cpu_math(s, n)) /\ Untouched(advance_cpu_math(s, n), s, Computed)
         /\ advance_cpu_math(s, n).mathLeft = IF n >= s.mathLeft THEN 0 ELSE s.mathLeft - n
         /\ advance_cpu_math(s, n).product = IF s.mathLeft > 0 /\ n >= s.mathLeft THEN Product(s) ELSE s.product
         /\ advance_cpu_math(s, n).quotient = IF s.mathLeft > 0 /\ n >= s.mathLeft THEN Quotient(s) ELSE s.quotient
<1> DEFINE r == advance_cpu_math(s, n)
           t == [s EXCEPT !.mathLeft = 0]
<1>0. IsConsole(t) /\ Untouched(t, s, {"mathLeft"}) /\ t.mathLeft = 0
  BY DEF IsConsole, Untouched, Fields, Settings, Polled, Computed, Channelled, Raised
<1>1. CASE s.mathLeft = 0
  BY <1>1 DEF advance_cpu_math, Untouched
<1>2. CASE s.mathLeft > 0 /\ n >= s.mathLeft
  <2>1. r = finish_cpu_math(t)
    BY <1>2 DEF advance_cpu_math
  <2> HIDE DEF t
  <2>2. /\ IsConsole(finish_cpu_math(t)) /\ Untouched(finish_cpu_math(t), t, {"product", "quotient"})
        /\ finish_cpu_math(t).product = Product(t) /\ finish_cpu_math(t).quotient = Quotient(t)
    <3>1. CASE t.divides = 0
      BY <1>0, <3>1 DEF finish_cpu_math, Product, Quotient, IsConsole, Untouched, Fields, Settings, Polled, Computed, Channelled, Raised
    <3>2. CASE t.divides # 0 /\ t.right = 0
      BY <1>0, <3>2 DEF finish_cpu_math, Product, Quotient, IsConsole, Untouched, Fields, Settings, Polled, Computed, Channelled, Raised
    <3>3. CASE t.divides # 0 /\ t.right # 0
      BY <1>0, <3>3 DEF finish_cpu_math, Product, Quotient, IsConsole, Untouched, Fields, Settings, Polled, Computed, Channelled, Raised
    <3> QED BY <3>1, <3>2, <3>3
  <2>3. Product(t) = Product(s) /\ Quotient(t) = Quotient(s)
    <3>1. t.divides = s.divides /\ t.left = s.left /\ t.right = s.right /\ t.quotient = s.quotient
      BY <1>0 DEF Untouched, Fields, Settings, Polled, Computed, Channelled, Raised
    <3> QED BY <3>1 DEF Product, Quotient
  <2>4. r.mathLeft = 0 /\ Untouched(r, s, Computed)
    BY <1>0, <2>1, <2>2 DEF Untouched, Fields, Computed
  <2> QED BY <1>2, <2>1, <2>2, <2>3, <2>4
<1>3. CASE s.mathLeft > 0 /\ n < s.mathLeft
  <2>1. r = [s EXCEPT !.mathLeft = s.mathLeft - n]
    BY <1>3 DEF advance_cpu_math
  <2> QED BY <1>3, <2>1 DEF IsConsole, Untouched, Fields, Settings, Polled, Computed, Channelled, Raised
<1> QED BY <1>1, <1>2, <1>3

\* A scanline's HDMA writes its channel, the registers and the barrier.
LEMMA HdmaFields ==
  ASSUME NEW s, IsConsole(s)
  PROVE  /\ IsConsole(run_hdma_scanline(s)) /\ Untouched(run_hdma_scanline(s), s, Channelled)
         /\ run_hdma_scanline(s).hdma = Transferred(s).s
         /\ run_hdma_scanline(s).regs = Transferred(s).regs
         /\ run_hdma_scanline(s).barrier = Max({s.barrier, Transferred(s).blocked})
BY DEF run_hdma_scanline, Transferred, IsConsole, Untouched, Fields, Settings, Polled, Computed, Channelled, Raised

FrameStarted(s) == initialize_hdma([s.channel EXCEPT !.on = s.hdmaOn], s.hdma)

\* A frame's start writes the HDMA state alone.
LEMMA FrameFields ==
  ASSUME NEW s, IsConsole(s)
  PROVE  /\ IsConsole(StartFrame(s)) /\ Untouched(StartFrame(s), s, {"hdma"})
         /\ StartFrame(s).hdma = FrameStarted(s)
BY DEF StartFrame, FrameStarted, IsConsole, Untouched, Fields, Settings, Polled, Computed, Channelled, Raised

\* VBlank raises the NMI, latches the pads and starts the poll.
LEMMA BlankFields ==
  ASSUME NEW s, IsConsole(s)
  PROVE  /\ IsConsole(StartVBlank(s)) /\ Untouched(StartVBlank(s), s, Raised \cup {"joyLeft"})
         /\ StartVBlank(s).nmiFlag = 1
         /\ StartVBlank(s).nmiPending = IF s.nmiOn = 1 THEN 1 ELSE s.nmiPending
         /\ StartVBlank(s).shift = IF s.joyOn = 1 THEN s.pad ELSE s.shift
         /\ StartVBlank(s).joyLeft = IF s.joyOn = 1 THEN JoyCycles ELSE s.joyLeft
BY DEF StartVBlank, IsConsole, Untouched, Fields, Settings, Polled, Computed, Channelled, Raised

\* A match raises the timer's flag alone.
LEMMA TimeupFields ==
  ASSUME NEW s, IsConsole(s)
  PROVE  /\ IsConsole([s EXCEPT !.timeup = 1]) /\ Untouched([s EXCEPT !.timeup = 1], s, {"timeup"})
         /\ [s EXCEPT !.timeup = 1].timeup = 1
BY DEF IsConsole, Untouched, Fields, Settings, Polled, Computed, Channelled, Raised

\* Moving the beam writes its place alone.
LEMMA PlaceFields ==
  ASSUME NEW s, IsConsole(s), NEW x, NEW y
  PROVE  /\ IsConsole([s EXCEPT !.h = x]) /\ Untouched([s EXCEPT !.h = x], s, {"h"})
         /\ [s EXCEPT !.h = x].h = x
         /\ IsConsole([s EXCEPT !.h = x, !.v = y]) /\ Untouched([s EXCEPT !.h = x, !.v = y], s, {"h", "v"})
         /\ [s EXCEPT !.h = x, !.v = y].h = x /\ [s EXCEPT !.h = x, !.v = y].v = y
BY DEF IsConsole, Untouched, Fields, Settings, Polled, Computed, Channelled, Raised

-----------------------------------------------------------------------------
(* A turn of the loop: a stretch within a line, or to the end of one.      *)

OnBeam(s) ==
  /\ IsConsole(s) /\ s.h \in 0 .. LineCycles - 1 /\ s.v \in 0 .. Lines - 1
  /\ s.joyLeft \in Nat /\ s.mathLeft \in Nat /\ s.htime \in Nat

\* Where HBlank falls.
Blanks(s, n) == s.v < VBlankStart /\ s.h < HBlankStart /\ s.h + n >= HBlankStart

\* A turn's effect before it may end the line.
Passed(s, n) ==
  LET timed == IF PassesHTime(s, s.h + n) THEN [s EXCEPT !.timeup = 1] ELSE s
  IN advance_cpu_math(advance_autojoy([AtHBlank(timed, s.h + n) EXCEPT !.h = s.h + n], n), n)

\* r is s after n cycles that do not end the line.
PassesTo(r, s, n) ==
  /\ IsConsole(r) /\ Untouched(r, s, {"h", "timeup"} \cup Channelled \cup Polled \cup Computed)
  /\ r.h = s.h + n
  /\ r.timeup = IF PassesHTime(s, s.h + n) THEN 1 ELSE s.timeup
  /\ r.hdma = IF Blanks(s, n) THEN Transferred(s).s ELSE s.hdma
  /\ r.regs = IF Blanks(s, n) THEN Transferred(s).regs ELSE s.regs
  /\ r.barrier = IF Blanks(s, n) THEN Max({s.barrier, Transferred(s).blocked}) ELSE s.barrier
  /\ r.joyLeft = IF n >= s.joyLeft THEN 0 ELSE s.joyLeft - n
  /\ r.joy = IF s.joyLeft > 0 /\ n >= s.joyLeft THEN s.pad ELSE s.joy
  /\ r.mathLeft = IF n >= s.mathLeft THEN 0 ELSE s.mathLeft - n
  /\ r.product = IF s.mathLeft > 0 /\ n >= s.mathLeft THEN Product(s) ELSE s.product
  /\ r.quotient = IF s.mathLeft > 0 /\ n >= s.mathLeft THEN Quotient(s) ELSE s.quotient

\* A stretch within a line passes what lies on it.
LEMMA PassedFields ==
  ASSUME NEW s, OnBeam(s), NEW n \in Nat
  PROVE  PassesTo(Passed(s, n), s, n)
<1> DEFINE timed == IF PassesHTime(s, s.h + n) THEN [s EXCEPT !.timeup = 1] ELSE s
           hb == AtHBlank(timed, s.h + n)
           placed == [hb EXCEPT !.h = s.h + n]
           polled == advance_autojoy(placed, n)
           r == advance_cpu_math(polled, n)
<1>0. IsConsole(s) /\ s.joyLeft \in Nat /\ s.mathLeft \in Nat /\ Passed(s, n) = r
  BY DEF OnBeam, Passed
<1>1. /\ IsConsole(timed) /\ Untouched(timed, s, {"timeup"})
      /\ timed.timeup = IF PassesHTime(s, s.h + n) THEN 1 ELSE s.timeup
  BY <1>0, TimeupFields DEF Untouched
<1> HIDE DEF timed
<1>2. /\ IsConsole(hb) /\ Untouched(hb, timed, Channelled)
      /\ hb.hdma = IF Blanks(s, n) THEN Transferred(s).s ELSE s.hdma
      /\ hb.regs = IF Blanks(s, n) THEN Transferred(s).regs ELSE s.regs
      /\ hb.barrier = IF Blanks(s, n) THEN Max({s.barrier, Transferred(s).blocked}) ELSE s.barrier
  <2>1. /\ timed.v = s.v /\ timed.h = s.h /\ timed.channel = s.channel /\ timed.hdmaOn = s.hdmaOn
        /\ timed.hdma = s.hdma /\ timed.regs = s.regs /\ timed.barrier = s.barrier
    BY <1>1 DEF Untouched, Fields, Settings, Polled, Computed, Channelled, Raised
  <2>2. Transferred(timed) = Transferred(s)
    BY <2>1 DEF Transferred
  <2>3. hb = IF Blanks(s, n) THEN run_hdma_scanline(timed) ELSE timed
    BY <2>1 DEF AtHBlank, Blanks
  <2> HIDE DEF hb
  <2>4. CASE Blanks(s, n)
    BY <1>1, <2>1, <2>2, <2>3, <2>4, HdmaFields
  <2>5. CASE ~Blanks(s, n)
    BY <1>1, <2>1, <2>3, <2>5 DEF Untouched
  <2> QED BY <2>4, <2>5
<1> HIDE DEF hb
<1>3. IsConsole(placed) /\ Untouched(placed, hb, {"h"}) /\ placed.h = s.h + n
  <2>1. IsConsole(hb)
    BY <1>2
  <2> QED BY ONLY <2>1, PlaceFields
<1> HIDE DEF placed
<1>4. /\ placed.joyLeft = s.joyLeft /\ placed.joy = s.joy /\ placed.pad = s.pad
      /\ placed.mathLeft = s.mathLeft /\ placed.product = s.product /\ placed.quotient = s.quotient
      /\ placed.divides = s.divides /\ placed.left = s.left /\ placed.right = s.right
  BY <1>1, <1>2, <1>3 DEF Untouched, Fields, Settings, Polled, Computed, Channelled, Raised
<1>5. /\ IsConsole(polled) /\ Untouched(polled, placed, Polled)
      /\ polled.joyLeft = IF n >= s.joyLeft THEN 0 ELSE s.joyLeft - n
      /\ polled.joy = IF s.joyLeft > 0 /\ n >= s.joyLeft THEN s.pad ELSE s.joy
  BY <1>0, <1>3, <1>4, JoyFields
<1> HIDE DEF polled
<1>6. /\ polled.mathLeft = s.mathLeft /\ polled.product = s.product /\ polled.quotient = s.quotient
      /\ polled.divides = s.divides /\ polled.left = s.left /\ polled.right = s.right
  BY <1>4, <1>5 DEF Untouched, Fields, Settings, Polled, Computed, Channelled, Raised
<1>7. Product(polled) = Product(s) /\ Quotient(polled) = Quotient(s)
  BY <1>6 DEF Product, Quotient
<1>8. /\ IsConsole(r) /\ Untouched(r, polled, Computed)
      /\ r.mathLeft = IF n >= s.mathLeft THEN 0 ELSE s.mathLeft - n
      /\ r.product = IF s.mathLeft > 0 /\ n >= s.mathLeft THEN Product(s) ELSE s.product
      /\ r.quotient = IF s.mathLeft > 0 /\ n >= s.mathLeft THEN Quotient(s) ELSE s.quotient
  BY <1>0, <1>5, <1>6, <1>7, MathFields
<1> HIDE DEF r
<1>9. Untouched(r, s, {"h", "timeup"} \cup Channelled \cup Polled \cup Computed)
  BY <1>1, <1>2, <1>3, <1>5, <1>8 DEF Untouched
<1>10. r.h = s.h + n /\ r.timeup = timed.timeup /\ r.hdma = hb.hdma /\ r.regs = hb.regs /\ r.barrier = hb.barrier
       /\ r.joyLeft = polled.joyLeft /\ r.joy = polled.joy
  BY <1>2, <1>3, <1>5, <1>8 DEF Untouched, Fields, Settings, Polled, Computed, Channelled, Raised
<1> QED BY <1>0, <1>1, <1>2, <1>5, <1>8, <1>9, <1>10 DEF PassesTo

\* What begins at the start of line y.
StartsLine(s, y) == begin_scanline([s EXCEPT !.h = 0, !.v = y])

LineMatches(s, y) ==
  \/ s.irq = 1 /\ s.htime = 0
  \/ s.irq = 2 /\ y = s.vtime
  \/ s.irq = 3 /\ s.htime = 0 /\ y = s.vtime

\* r is s where line y begins.
BeginsAs(r, s, y) ==
  /\ IsConsole(r) /\ Untouched(r, s, {"h", "v", "timeup", "hdma", "joyLeft"} \cup Raised)
  /\ r.h = 0 /\ r.v = y
  /\ r.timeup = IF LineMatches(s, y) THEN 1 ELSE s.timeup
  /\ r.hdma = IF y = 0 THEN FrameStarted(s) ELSE s.hdma
  /\ r.nmiFlag = IF y = VBlankStart THEN 1 ELSE s.nmiFlag
  /\ r.nmiPending = IF y = VBlankStart /\ s.nmiOn = 1 THEN 1 ELSE s.nmiPending
  /\ r.shift = IF y = VBlankStart /\ s.joyOn = 1 THEN s.pad ELSE s.shift
  /\ r.joyLeft = IF y = VBlankStart /\ s.joyOn = 1 THEN JoyCycles ELSE s.joyLeft

\* A line begins as its number says.
LEMMA LineFields ==
  ASSUME NEW s, IsConsole(s), NEW y
  PROVE  BeginsAs(StartsLine(s, y), s, y)
<1> DEFINE placed == [s EXCEPT !.h = 0, !.v = y]
           begun == IF placed.v = 0 THEN StartFrame(placed)
                    ELSE IF placed.v = VBlankStart THEN StartVBlank(placed) ELSE placed
           r == check_irq_at_scanline_start(begun)
<1>0. StartsLine(s, y) = r /\ VBlankStart # 0
  BY TimingAssumption DEF StartsLine, begin_scanline
<1>1. IsConsole(placed) /\ Untouched(placed, s, {"h", "v"}) /\ placed.h = 0 /\ placed.v = y
  BY DEF IsConsole, Untouched, Fields, Settings, Polled, Computed, Channelled, Raised
<1> HIDE DEF placed
<1>2. /\ placed.channel = s.channel /\ placed.hdmaOn = s.hdmaOn /\ placed.hdma = s.hdma
      /\ placed.nmiOn = s.nmiOn /\ placed.joyOn = s.joyOn /\ placed.pad = s.pad
      /\ placed.nmiFlag = s.nmiFlag /\ placed.nmiPending = s.nmiPending /\ placed.shift = s.shift
      /\ placed.joyLeft = s.joyLeft
  BY <1>1 DEF Untouched, Fields, Settings, Polled, Computed, Channelled, Raised
<1>3. FrameStarted(placed) = FrameStarted(s)
  BY <1>2 DEF FrameStarted
<1>4. /\ IsConsole(begun) /\ Untouched(begun, placed, {"hdma", "joyLeft"} \cup Raised)
      /\ begun.hdma = IF y = 0 THEN FrameStarted(s) ELSE s.hdma
      /\ begun.nmiFlag = IF y = VBlankStart THEN 1 ELSE s.nmiFlag
      /\ begun.nmiPending = IF y = VBlankStart /\ s.nmiOn = 1 THEN 1 ELSE s.nmiPending
      /\ begun.shift = IF y = VBlankStart /\ s.joyOn = 1 THEN s.pad ELSE s.shift
      /\ begun.joyLeft = IF y = VBlankStart /\ s.joyOn = 1 THEN JoyCycles ELSE s.joyLeft
  <2>1. CASE y = 0
    <3>1. begun = StartFrame(placed) /\ y # VBlankStart
      BY <1>0, <1>1, <2>1
    <3> QED BY <1>1, <1>2, <1>3, <2>1, <3>1, FrameFields
              DEF Untouched, Fields, Settings, Polled, Computed, Channelled, Raised
  <2>2. CASE y = VBlankStart
    <3>1. begun = StartVBlank(placed) /\ y # 0
      BY <1>0, <1>1, <2>2
    <3> HIDE DEF begun
    <3>2. IsConsole(begun) /\ Untouched(begun, placed, Raised \cup {"joyLeft"})
      BY <1>1, <3>1, BlankFields
    <3>3. begun.hdma = placed.hdma
      BY <3>2 DEF Untouched, Fields, Channelled, Raised
    <3>4. Untouched(begun, placed, {"hdma", "joyLeft"} \cup Raised)
      BY <3>2 DEF Untouched
    <3> QED BY <1>1, <1>2, <2>2, <3>1, <3>2, <3>3, <3>4, BlankFields
  <2>3. CASE y # 0 /\ y # VBlankStart
    BY <1>1, <1>2, <2>3 DEF Untouched
  <2> QED BY <2>1, <2>2, <2>3
<1> HIDE DEF begun
<1>5. /\ begun.irq = s.irq /\ begun.htime = s.htime /\ begun.vtime = s.vtime /\ begun.v = y
      /\ begun.h = 0 /\ begun.timeup = s.timeup
  BY <1>1, <1>4 DEF Untouched, Fields, Settings, Polled, Computed, Channelled, Raised
<1>6. r = IF LineMatches(s, y) THEN [begun EXCEPT !.timeup = 1] ELSE begun
  BY <1>5 DEF check_irq_at_scanline_start, LineMatches
<1>7. /\ IsConsole(r) /\ Untouched(r, begun, {"timeup"})
      /\ r.timeup = IF LineMatches(s, y) THEN 1 ELSE s.timeup
  BY <1>4, <1>5, <1>6, TimeupFields DEF Untouched
<1> HIDE DEF r
<1>8. Untouched(r, s, {"h", "v", "timeup", "hdma", "joyLeft"} \cup Raised)
  BY <1>1, <1>4, <1>7 DEF Untouched
<1>9. /\ r.h = 0 /\ r.v = y /\ r.hdma = begun.hdma /\ r.nmiFlag = begun.nmiFlag
      /\ r.nmiPending = begun.nmiPending /\ r.shift = begun.shift /\ r.joyLeft = begun.joyLeft
  BY <1>5, <1>7 DEF Untouched, Fields, Settings, Polled, Computed, Channelled, Raised
<1> QED BY <1>0, <1>4, <1>7, <1>8, <1>9 DEF BeginsAs

\* A turn passes a stretch, or ends the line and begins the next.
LEMMA SegmentIs ==
  ASSUME NEW s, OnBeam(s), NEW c \in Nat
  PROVE  /\ s.h + c < LineCycles => Segment(s, c) = [s |-> Passed(s, c), left |-> 0]
         /\ s.h + c >= LineCycles =>
              Segment(s, c) = [s |-> StartsLine(Passed(s, LineCycles - s.h), (s.v + 1) % Lines),
                               left |-> c - (LineCycles - s.h)]
<1>1. s.h \in 0 .. LineCycles - 1 /\ s.v \in 0 .. Lines - 1 /\ LineCycles \in Nat
  BY TimingAssumption DEF OnBeam
<1>2. Min({c, LineCycles - s.h}) = IF c < LineCycles - s.h THEN c ELSE LineCycles - s.h
  BY <1>1 DEF Min
<1> DEFINE step == Min({c, LineCycles - s.h})
<1>5. Segment(s, c) = [s |-> IF s.h + step = LineCycles THEN NextLine(Passed(s, step)) ELSE Passed(s, step),
                       left |-> c - step]
  BY Zenon DEF Segment, Passed
<1>3. CASE s.h + c < LineCycles
  <2>1. Min({c, LineCycles - s.h}) = c
    BY <1>1, <1>2, <1>3
  <2>2. s.h + c # LineCycles /\ c - c = 0
    BY <1>1, <1>3
  <2> QED BY <1>1, <1>3, <1>5, <2>1, <2>2
<1>4. CASE s.h + c >= LineCycles
  <2> DEFINE d == LineCycles - s.h
             a == Passed(s, d)
  <2>1. Min({c, d}) = d /\ s.h + d = LineCycles /\ d \in Nat
    BY <1>1, <1>2, <1>4
  <2>2. Segment(s, c) = [s |-> NextLine(a), left |-> c - d]
    BY <1>5, <2>1
  <2>3. a.v = s.v
    <3>1. Untouched(a, s, {"h", "timeup"} \cup Channelled \cup Polled \cup Computed)
      BY <2>1, PassedFields DEF PassesTo
    <3> HIDE DEF a
    <3> QED BY <3>1 DEF Untouched, Fields, Settings, Polled, Computed, Channelled, Raised
  <2>4. NextLine(a) = StartsLine(a, (s.v + 1) % Lines)
    BY <2>3 DEF NextLine, StartsLine
  <2> QED BY <1>1, <1>4, <2>2, <2>4
<1> QED BY <1>1, <1>3, <1>4

-----------------------------------------------------------------------------
(* A cycle of the beam is a turn of one cycle.                             *)

\* A register file is its fields.
LEMMA SameFields ==
  ASSUME NEW r, NEW t, IsConsole(r), IsConsole(t), Untouched(r, t, {})
  PROVE  r = t
<1>1. \A f \in Fields : r[f] = t[f]
  BY DEF Untouched
<1> QED BY <1>1 DEF IsConsole

\* Equal field by field.
LEMMA FieldByField ==
  ASSUME NEW r, NEW t, IsConsole(r), IsConsole(t),
         \A f \in Settings : r[f] = t[f],
         r.joyLeft = t.joyLeft, r.joy = t.joy,
         r.mathLeft = t.mathLeft, r.product = t.product, r.quotient = t.quotient,
         r.hdma = t.hdma, r.regs = t.regs, r.barrier = t.barrier,
         r.nmiFlag = t.nmiFlag, r.nmiPending = t.nmiPending, r.shift = t.shift,
         r.h = t.h, r.v = t.v, r.timeup = t.timeup
  PROVE  r = t
<1>1. \A f \in Fields : r[f] = t[f]
  BY DEF Fields, Polled, Computed, Channelled, Raised
<1> QED BY <1>1, SameFields DEF Untouched

\* The timer's column is a number, zero only for HTIME zero.
LEMMA TimerIsNat == ASSUME NEW s, OnBeam(s) PROVE irq_h_time(s) \in Nat /\ (irq_h_time(s) = 0 <=> s.htime = 0)
<1>1. s.htime \in Nat /\ DotCycles \in Nat \ {0}
  BY TimingAssumption DEF OnBeam
<1> QED BY <1>1 DEF irq_h_time

\* A single cycle, told by the beam, is a turn of one cycle.
LEMMA CycleIsTurn ==
  ASSUME NEW s, OnBeam(s)
  PROVE  Cycle(s) = Segment(s, 1).s
<1> DEFINE b == NextPlace(s)
           polled == advance_autojoy(s, 1)
           counted == advance_cpu_math(polled, 1)
           moved == [counted EXCEPT !.h = b.h, !.v = b.v]
           lined == IF b = [h |-> 0, v |-> 0] THEN StartFrame(moved)
                    ELSE IF b.h = HBlankStart /\ b.v < VBlankStart THEN run_hdma_scanline(moved)
                    ELSE moved
           blank == IF VBlankAt(b) THEN StartVBlank(lined) ELSE lined
           r == [blank EXCEPT !.timeup = IF Matches(s, b) THEN 1 ELSE @]
           p == Passed(s, 1)
           t == IF s.h + 1 < LineCycles THEN p ELSE StartsLine(p, (s.v + 1) % Lines)
           below == s.h + 1 < LineCycles
<1>a. /\ LineCycles \in Nat /\ Lines \in Nat /\ HBlankStart \in 1 .. LineCycles - 1
      /\ VBlankStart \in 1 .. Lines - 1 /\ s.h \in 0 .. LineCycles - 1 /\ s.v \in 0 .. Lines - 1
      /\ IsConsole(s) /\ s.joyLeft \in Nat /\ s.mathLeft \in Nat
  BY TimingAssumption DEF OnBeam
<1>b. Cycle(s) = r
  BY Zenon DEF Cycle
<1>c. Segment(s, 1).s = t
  <2>1. CASE below
    BY <1>a, <2>1, SegmentIs
  <2>2. CASE ~below
    <3>1. s.h + 1 = LineCycles /\ LineCycles - s.h = 1
      BY <1>a, <2>2
    <3>2. s.h + 1 >= LineCycles /\ 1 \in Nat
      BY <1>a, <2>2
    <3>3. Segment(s, 1) = [s |-> StartsLine(Passed(s, LineCycles - s.h), (s.v + 1) % Lines),
                           left |-> 1 - (LineCycles - s.h)]
      BY <3>2, SegmentIs
    <3>4. Segment(s, 1).s = StartsLine(Passed(s, 1), (s.v + 1) % Lines)
      BY <3>1, <3>3
    <3> QED BY <2>2, <3>4
  <2> QED BY <2>1, <2>2
<1>d. /\ b.h = (IF below THEN s.h + 1 ELSE 0) /\ b.v = (IF below THEN s.v ELSE (s.v + 1) % Lines)
      /\ b = [h |-> b.h, v |-> b.v]
  BY DEF NextPlace
<1> HIDE DEF b
<1>1. /\ IsConsole(polled) /\ Untouched(polled, s, Polled)
      /\ polled.joyLeft = IF 1 >= s.joyLeft THEN 0 ELSE s.joyLeft - 1
      /\ polled.joy = IF s.joyLeft > 0 /\ 1 >= s.joyLeft THEN s.pad ELSE s.joy
  BY <1>a, JoyFields
<1> HIDE DEF polled
<1>2. /\ polled.mathLeft = s.mathLeft /\ polled.product = s.product /\ polled.quotient = s.quotient
      /\ polled.divides = s.divides /\ polled.left = s.left /\ polled.right = s.right
  BY <1>1 DEF Untouched, Fields, Settings, Polled, Computed, Channelled, Raised
<1>3. Product(polled) = Product(s) /\ Quotient(polled) = Quotient(s)
  BY <1>2 DEF Product, Quotient
<1>4. /\ IsConsole(counted) /\ Untouched(counted, polled, Computed)
      /\ counted.mathLeft = IF 1 >= s.mathLeft THEN 0 ELSE s.mathLeft - 1
      /\ counted.product = IF s.mathLeft > 0 /\ 1 >= s.mathLeft THEN Product(s) ELSE s.product
      /\ counted.quotient = IF s.mathLeft > 0 /\ 1 >= s.mathLeft THEN Quotient(s) ELSE s.quotient
  BY <1>a, <1>1, <1>2, <1>3, MathFields
<1> HIDE DEF counted
<1>5. IsConsole(moved) /\ Untouched(moved, counted, {"h", "v"}) /\ moved.h = b.h /\ moved.v = b.v
  BY <1>4 DEF IsConsole, Untouched, Fields, Settings, Polled, Computed, Channelled, Raised
<1> HIDE DEF moved
<1>6. /\ Untouched(moved, s, {"h", "v"} \cup Polled \cup Computed)
      /\ moved.joyLeft = polled.joyLeft /\ moved.joy = polled.joy
      /\ moved.mathLeft = counted.mathLeft /\ moved.product = counted.product
      /\ moved.quotient = counted.quotient
  BY <1>1, <1>4, <1>5 DEF Untouched, Fields, Settings, Polled, Computed, Channelled, Raised
<1>7. /\ moved.channel = s.channel /\ moved.hdmaOn = s.hdmaOn /\ moved.hdma = s.hdma
      /\ moved.regs = s.regs /\ moved.barrier = s.barrier /\ moved.timeup = s.timeup
      /\ moved.nmiOn = s.nmiOn /\ moved.joyOn = s.joyOn /\ moved.pad = s.pad
      /\ moved.nmiFlag = s.nmiFlag /\ moved.nmiPending = s.nmiPending /\ moved.shift = s.shift
      /\ \A f \in Settings : moved[f] = s[f]
  BY <1>6 DEF Untouched, Fields, Settings, Polled, Computed, Channelled, Raised
<1>8. FrameStarted(moved) = FrameStarted(s) /\ Transferred(moved) = Transferred(s)
  BY <1>7 DEF FrameStarted, Transferred
<1> DEFINE Hblank == below /\ Blanks(s, 1)
           Frame == ~below /\ (s.v + 1) % Lines = 0
           Vblank == ~below /\ (s.v + 1) % Lines = VBlankStart
<1>9. /\ lined = IF Frame THEN StartFrame(moved) ELSE IF Hblank THEN run_hdma_scanline(moved) ELSE moved
      /\ VBlankAt(b) <=> Vblank
      /\ ~(Frame /\ Hblank) /\ ~(Frame /\ Vblank) /\ ~(Hblank /\ Vblank)
  <2>1. b = [h |-> 0, v |-> 0] <=> Frame
    BY <1>a, <1>d
  <2>2. b.h = HBlankStart /\ b.v < VBlankStart <=> Hblank
    BY <1>a, <1>d DEF Blanks
  <2>3. VBlankAt(b) <=> Vblank
    BY <1>a, <1>d DEF VBlankAt
  <2>4. VBlankStart # 0
    BY <1>a
  <2> QED BY <2>1, <2>2, <2>3, <2>4
<1> HIDE DEF lined
<1>10. /\ IsConsole(lined) /\ Untouched(lined, moved, Channelled)
       /\ lined.hdma = IF Frame THEN FrameStarted(s) ELSE IF Hblank THEN Transferred(s).s ELSE s.hdma
       /\ lined.regs = IF Hblank THEN Transferred(s).regs ELSE s.regs
       /\ lined.barrier = IF Hblank THEN Max({s.barrier, Transferred(s).blocked}) ELSE s.barrier
  <2>1. CASE Frame
    <3>1. lined = StartFrame(moved) /\ ~Hblank
      BY <1>9, <2>1
    <3>2. IsConsole(lined) /\ Untouched(lined, moved, {"hdma"}) /\ lined.hdma = FrameStarted(s)
      BY <1>5, <1>8, <3>1, FrameFields
    <3>3. lined.regs = moved.regs /\ lined.barrier = moved.barrier /\ Untouched(lined, moved, Channelled)
      BY <3>2 DEF Untouched, Fields, Channelled
    <3> QED BY <1>7, <2>1, <3>1, <3>2, <3>3
  <2>2. CASE Hblank
    BY <1>5, <1>7, <1>8, <1>9, <2>2, HdmaFields
  <2>3. CASE ~Frame /\ ~Hblank
    BY <1>5, <1>7, <1>9, <2>3 DEF Untouched
  <2> QED BY <2>1, <2>2, <2>3
<1>11. /\ lined.nmiOn = s.nmiOn /\ lined.joyOn = s.joyOn /\ lined.pad = s.pad
       /\ lined.nmiFlag = s.nmiFlag /\ lined.nmiPending = s.nmiPending /\ lined.shift = s.shift
       /\ lined.joyLeft = polled.joyLeft /\ lined.joy = polled.joy /\ lined.timeup = s.timeup
       /\ lined.mathLeft = counted.mathLeft /\ lined.product = counted.product
       /\ lined.quotient = counted.quotient /\ lined.h = b.h /\ lined.v = b.v
       /\ \A f \in Settings : lined[f] = s[f]
  BY <1>5, <1>6, <1>7, <1>10 DEF Untouched, Fields, Settings, Polled, Computed, Channelled, Raised
<1>12. /\ IsConsole(blank) /\ Untouched(blank, lined, Raised \cup {"joyLeft"})
       /\ blank.nmiFlag = IF Vblank THEN 1 ELSE s.nmiFlag
       /\ blank.nmiPending = IF Vblank /\ s.nmiOn = 1 THEN 1 ELSE s.nmiPending
       /\ blank.shift = IF Vblank /\ s.joyOn = 1 THEN s.pad ELSE s.shift
       /\ blank.joyLeft = IF Vblank /\ s.joyOn = 1 THEN JoyCycles ELSE polled.joyLeft
  <2>1. CASE Vblank
    <3>1. /\ IsConsole(blank) /\ Untouched(blank, lined, Raised \cup {"joyLeft"})
          /\ blank.nmiFlag = 1
          /\ blank.nmiPending = (IF lined.nmiOn = 1 THEN 1 ELSE lined.nmiPending)
          /\ blank.shift = (IF lined.joyOn = 1 THEN lined.pad ELSE lined.shift)
          /\ blank.joyLeft = (IF lined.joyOn = 1 THEN JoyCycles ELSE lined.joyLeft)
      BY <1>9, <1>10, <2>1, BlankFields
    <3> HIDE DEF blank
    <3> QED BY ONLY <2>1, <1>11, <3>1
  <2>2. CASE ~Vblank
    BY <1>9, <1>10, <1>11, <2>2 DEF Untouched
  <2> QED BY <2>1, <2>2
<1> HIDE DEF blank
<1>13. /\ blank.timeup = s.timeup /\ blank.h = b.h /\ blank.v = b.v /\ blank.joy = polled.joy
       /\ blank.mathLeft = counted.mathLeft /\ blank.product = counted.product
       /\ blank.quotient = counted.quotient /\ blank.hdma = lined.hdma /\ blank.regs = lined.regs
       /\ blank.barrier = lined.barrier /\ \A f \in Settings : blank[f] = s[f]
  BY <1>11, <1>12 DEF Untouched, Fields, Settings, Polled, Computed, Channelled, Raised
<1>14. IsConsole(r) /\ Untouched(r, blank, {"timeup"}) /\ r.timeup = IF Matches(s, b) THEN 1 ELSE s.timeup
  BY <1>12, <1>13 DEF IsConsole, Untouched, Fields, Settings, Polled, Computed, Channelled, Raised
<1> HIDE DEF r
<1>15. /\ r.h = b.h /\ r.v = b.v /\ r.joy = polled.joy /\ r.joyLeft = blank.joyLeft
       /\ r.mathLeft = counted.mathLeft /\ r.product = counted.product
       /\ r.quotient = counted.quotient /\ r.hdma = lined.hdma /\ r.regs = lined.regs
       /\ r.barrier = lined.barrier /\ r.nmiFlag = blank.nmiFlag /\ r.nmiPending = blank.nmiPending
       /\ r.shift = blank.shift /\ \A f \in Settings : r[f] = s[f]
  BY <1>13, <1>14 DEF Untouched, Fields, Settings, Polled, Computed, Channelled, Raised
<1>16. PassesTo(p, s, 1) /\ p.joyLeft = polled.joyLeft /\ p.joy = polled.joy
       /\ p.mathLeft = counted.mathLeft /\ p.product = counted.product /\ p.quotient = counted.quotient
  <2>1. PassesTo(p, s, 1)
    BY <1>a, PassedFields
  <2> HIDE DEF p
  <2> QED BY <1>1, <1>4, <2>1 DEF PassesTo
<1> USE DEF PassesTo
<1> HIDE DEF p
<1>17. /\ p.v = s.v /\ p.nmiFlag = s.nmiFlag /\ p.nmiPending = s.nmiPending /\ p.shift = s.shift
       /\ \A f \in Settings : p[f] = s[f]
  BY <1>16 DEF Untouched, Fields, Settings, Polled, Computed, Channelled, Raised
<1>18. irq_h_time(s) \in Nat /\ (irq_h_time(s) = 0 <=> s.htime = 0) /\ irq_h_time(s) = s.htime * DotCycles
  BY TimerIsNat DEF irq_h_time
<1>19. CASE below
  <2>1. Matches(s, b) <=> PassesHTime(s, s.h + 1)
    <3>1. b.h = s.h + 1 /\ b.v = s.v /\ b.h # 0 /\ b.h < LineCycles
      BY <1>a, <1>d, <1>19
    <3> QED BY <1>a, <1>18, <3>1 DEF Matches, PassesHTime
  <2>2. r = p
    BY <1>9, <1>10, <1>12, <1>14, <1>15, <1>16, <1>17, <1>19, <1>d, <2>1, FieldByField
  <2> QED BY <1>b, <1>c, <1>19, <2>2
<1>20. CASE ~below
  <2>0. s.h + 1 = LineCycles /\ b.h = 0 /\ b.v = (s.v + 1) % Lines
    BY <1>a, <1>d, <1>20
  <2>1. ~PassesHTime(s, s.h + 1) /\ ~Blanks(s, 1)
    BY <1>a, <1>18, <2>0 DEF PassesHTime, Blanks
  <2>2. LineMatches(p, b.v) <=> Matches(s, b)
    <3>1. p.irq = s.irq /\ p.htime = s.htime /\ p.vtime = s.vtime
      BY <1>17 DEF Settings
    <3> QED BY <1>18, <2>0, <3>1 DEF LineMatches, Matches
  <2>3. FrameStarted(p) = FrameStarted(s) /\ p.nmiOn = s.nmiOn /\ p.joyOn = s.joyOn /\ p.pad = s.pad
    <3>1. p.channel = s.channel /\ p.hdmaOn = s.hdmaOn /\ p.hdma = s.hdma
          /\ p.nmiOn = s.nmiOn /\ p.joyOn = s.joyOn /\ p.pad = s.pad
      BY <1>16, <1>17, <2>1 DEF Settings
    <3> QED BY <3>1 DEF FrameStarted
  <2> DEFINE e == StartsLine(p, b.v)
  <2>4. BeginsAs(e, p, b.v)
    BY <1>16, LineFields
  <2> USE DEF BeginsAs
  <2> HIDE DEF e
  <2>5. /\ e.joy = p.joy /\ e.mathLeft = p.mathLeft /\ e.product = p.product /\ e.quotient = p.quotient
        /\ e.regs = p.regs /\ e.barrier = p.barrier /\ \A f \in Settings : e[f] = p[f]
    BY <2>4 DEF Untouched, Fields, Settings, Polled, Computed, Channelled, Raised
  <2>6. r = e
    <3>1. r.hdma = e.hdma /\ r.regs = e.regs /\ r.barrier = e.barrier
      BY <1>10, <1>15, <1>16, <1>20, <2>0, <2>1, <2>3, <2>4, <2>5
    <3>2. r.nmiFlag = e.nmiFlag /\ r.nmiPending = e.nmiPending /\ r.shift = e.shift /\ r.joyLeft = e.joyLeft
      BY <1>12, <1>15, <1>16, <1>17, <1>20, <2>0, <2>3, <2>4
    <3>3. r.h = e.h /\ r.v = e.v /\ r.timeup = e.timeup /\ \A f \in Settings : r[f] = e[f]
      BY <1>14, <1>15, <1>16, <1>17, <2>0, <2>1, <2>2, <2>4, <2>5
    <3>4. r.joy = e.joy /\ r.mathLeft = e.mathLeft /\ r.product = e.product /\ r.quotient = e.quotient
      BY <1>15, <1>16, <2>5
    <3> QED BY <1>14, <2>4, <3>1, <3>2, <3>3, <3>4, FieldByField
  <2> QED BY <1>b, <1>c, <1>20, <2>0, <2>6 DEF e
<1> QED BY <1>19, <1>20

-----------------------------------------------------------------------------
(* Two stretches within a line add up.                                     *)

\* Within a line, cycles add up.
LEMMA PassedAdds ==
  ASSUME NEW s, OnBeam(s), NEW n \in Nat, s.h + n < LineCycles
  PROVE  OnBeam(Passed(s, n)) /\ Passed(Passed(s, n), 1) = Passed(s, n + 1)
<1> DEFINE a == Passed(s, n)
           r == Passed(a, 1)
           m == n + 1
           t == Passed(s, m)
<1>0. /\ LineCycles \in Nat /\ HBlankStart \in 1 .. LineCycles - 1
      /\ s.h \in 0 .. LineCycles - 1 /\ s.v \in 0 .. Lines - 1
      /\ IsConsole(s) /\ s.joyLeft \in Nat /\ s.mathLeft \in Nat /\ s.htime \in Nat
  BY TimingAssumption DEF OnBeam
<1>1. PassesTo(a, s, n)
  BY PassedFields
<1> USE DEF PassesTo
<1> HIDE DEF a
<1>2. /\ a.v = s.v /\ a.nmiFlag = s.nmiFlag /\ a.nmiPending = s.nmiPending /\ a.shift = s.shift
      /\ \A f \in Settings : a[f] = s[f]
  BY <1>1 DEF Untouched, Fields, Settings, Polled, Computed, Channelled, Raised
<1>3. /\ a.irq = s.irq /\ a.htime = s.htime /\ a.vtime = s.vtime /\ a.pad = s.pad
      /\ a.channel = s.channel /\ a.hdmaOn = s.hdmaOn
      /\ a.divides = s.divides /\ a.left = s.left /\ a.right = s.right
  BY <1>2 DEF Settings
<1>4. OnBeam(a)
  BY <1>0, <1>1, <1>2, <1>3 DEF OnBeam
<1>5. PassesTo(r, a, 1)
  BY <1>4, PassedFields
<1> USE DEF PassesTo
<1>6a. m \in Nat /\ t = Passed(s, m)
  BY DEF m
<1> HIDE DEF m
<1>6. PassesTo(t, s, m)
  BY <1>6a, PassedFields
<1> USE DEF PassesTo
<1>6b. m = n + 1
  BY DEF m
<1> HIDE DEF r, t
<1>7. /\ r.v = a.v /\ r.nmiFlag = a.nmiFlag /\ r.nmiPending = a.nmiPending /\ r.shift = a.shift
      /\ \A f \in Settings : r[f] = a[f]
  BY <1>5 DEF Untouched, Fields, Settings, Polled, Computed, Channelled, Raised
<1>8. /\ t.v = s.v /\ t.nmiFlag = s.nmiFlag /\ t.nmiPending = s.nmiPending /\ t.shift = s.shift
      /\ \A f \in Settings : t[f] = s[f]
  BY <1>6 DEF Untouched, Fields, Settings, Polled, Computed, Channelled, Raised
<1>9. r.timeup = t.timeup
  <2>1. irq_h_time(s) \in Nat /\ irq_h_time(a) = irq_h_time(s)
    BY <1>3, TimerIsNat DEF irq_h_time
  <2>2. PassesHTime(s, s.h + m) <=> PassesHTime(s, s.h + n) \/ PassesHTime(a, a.h + 1)
    BY <1>0, <1>1, <1>2, <1>3, <1>6b, <2>1 DEF PassesHTime
  <2> QED BY <1>1, <1>5, <1>6, <2>2
<1>10. r.hdma = t.hdma /\ r.regs = t.regs /\ r.barrier = t.barrier
  <2>1. CASE Blanks(s, n)
    <3>1. Blanks(s, m) /\ ~Blanks(a, 1)
      BY <1>0, <1>1, <1>2, <1>6b, <2>1 DEF Blanks
    <3> QED BY <1>1, <1>5, <1>6, <2>1, <3>1
  <2>2. CASE ~Blanks(s, n)
    <3>1. Blanks(s, m) <=> Blanks(a, 1)
      BY <1>0, <1>1, <1>2, <1>6b, <2>2 DEF Blanks
    <3>2. Transferred(a) = Transferred(s)
      BY <1>1, <1>3, <2>2 DEF Transferred
    <3> QED BY <1>1, <1>5, <1>6, <2>2, <3>1, <3>2
  <2> QED BY <2>1, <2>2
<1>11. r.joyLeft = t.joyLeft /\ r.joy = t.joy /\ r.mathLeft = t.mathLeft
  BY <1>0, <1>1, <1>3, <1>5, <1>6, <1>6b
<1>12. r.product = t.product /\ r.quotient = t.quotient
  <2>1. CASE s.mathLeft > 0 /\ n >= s.mathLeft
    <3>1. a.mathLeft = 0 /\ m >= s.mathLeft
      BY <1>0, <1>1, <1>6b, <2>1
    <3> QED BY <1>1, <1>5, <1>6, <2>1, <3>1
  <2>2. CASE ~(s.mathLeft > 0 /\ n >= s.mathLeft)
    <3>1. (a.mathLeft > 0 /\ 1 >= a.mathLeft) <=> (s.mathLeft > 0 /\ m >= s.mathLeft)
      BY <1>0, <1>1, <1>6b, <2>2
    <3>2. Product(a) = Product(s) /\ Quotient(a) = Quotient(s)
      BY <1>1, <1>3, <2>2 DEF Product, Quotient
    <3> QED BY <1>1, <1>5, <1>6, <2>2, <3>1, <3>2
  <2> QED BY <2>1, <2>2
<1>13. r = t
  <2>1. r.h = t.h
    BY <1>0, <1>1, <1>5, <1>6, <1>6b
  <2> QED BY <1>2, <1>5, <1>6, <1>7, <1>8, <1>9, <1>10, <1>11, <1>12, <2>1, FieldByField
<1> QED BY <1>4, <1>13 DEF a, r, t, m

\* The start of a line is a place of the beam.
LEMMA LineIsOnBeam ==
  ASSUME NEW s, OnBeam(s), NEW n \in Nat
  PROVE  OnBeam(StartsLine(Passed(s, n), (s.v + 1) % Lines))
<1> DEFINE p == Passed(s, n)
           y == (s.v + 1) % Lines
           e == StartsLine(p, y)
<1>0. /\ LineCycles \in Nat /\ LineCycles > 0 /\ JoyCycles \in Nat /\ Lines \in Nat \ {0}
      /\ s.v \in 0 .. Lines - 1 /\ s.joyLeft \in Nat /\ s.mathLeft \in Nat /\ s.htime \in Nat
  BY TimingAssumption DEF OnBeam
<1>1. y \in 0 .. Lines - 1
  BY <1>0
<1>2. PassesTo(p, s, n)
  BY PassedFields
<1> USE DEF PassesTo
<1> HIDE DEF p, y
<1>3. BeginsAs(e, p, y)
  BY <1>2, LineFields
<1> USE DEF BeginsAs
<1> HIDE DEF e
<1>4. e.mathLeft = p.mathLeft /\ e.htime = p.htime /\ p.htime = s.htime
  BY <1>2, <1>3 DEF Untouched, Fields, Settings, Polled, Computed, Channelled, Raised
<1>5. OnBeam(e)
  BY <1>0, <1>1, <1>2, <1>3, <1>4 DEF OnBeam
<1> QED BY <1>5 DEF e, p, y

-----------------------------------------------------------------------------
(* The loop, turn after turn.  Induction is the least number principle.    *)

\* A set of numbers has a least one.
LEMMA Least ==
  ASSUME NEW T \in SUBSET Nat, T # {}
  PROVE  \E m \in T : \A k \in T : m <= k
<1> DEFINE R == OpToRel(<, Nat)
<1>1. IsWellFoundedOn(R, Nat)
  BY NatLessThanWellFounded
<1>2. \A x, y \in Nat : x < y => <<x, y>> \in R
  BY DEF OpToRel
<1> HIDE DEF R
<1>3. PICK x \in T : \A y \in T : ~ (<<y, x>> \in R)
  BY <1>1, WFMin
<1>4. ASSUME NEW y \in T PROVE x <= y
  <2>1. x \in Nat /\ y \in Nat
    OBVIOUS
  <2>2. ~ (y < x)
    BY <1>2, <1>3, <2>1
  <2> QED BY <2>1, <2>2
<1> QED BY <1>4

\* Induction, for a set of naturals.
LEMMA Induction ==
  ASSUME NEW T, 0 \in T, \A n \in Nat : n \in T => n + 1 \in T
  PROVE  Nat \subseteq T
<1> DEFINE Bad == Nat \ T
<1> SUFFICES ASSUME Bad # {} PROVE FALSE
  OBVIOUS
<1>1. PICK n \in Bad : \A k \in Bad : n <= k
  BY Least
<1>2. n \in Nat /\ n # 0 /\ n - 1 \in Nat /\ n - 1 \notin Bad
  BY <1>1
<1>3. n - 1 \in T /\ (n - 1) + 1 = n
  BY <1>2
<1> QED BY <1>1, <1>2, <1>3

-----------------------------------------------------------------------------
(* The loop.                                                               *)

\* The first n turns.
FirstTurns(a, g, n) == g = [i \in 0 .. n |-> IF i = 0 THEN a ELSE GoOn(g[i - 1])]

\* Two runs of the loop agree as far as both go.
LEMMA OneWay ==
  ASSUME NEW a, NEW g, NEW h, NEW n \in Nat, NEW m \in Nat, n <= m, FirstTurns(a, g, n), FirstTurns(a, h, m)
  PROVE  g[n] = h[n]
<1> DEFINE T == {i \in Nat : i <= n => g[i] = h[i]}
<1>1. 0 \in T
  BY DEF FirstTurns
<1>2. ASSUME NEW i \in Nat, i \in T PROVE i + 1 \in T
  <2>1. CASE i + 1 <= n
    <3>1. i + 1 \in 0 .. n /\ i + 1 \in 0 .. m /\ i + 1 # 0 /\ (i + 1) - 1 = i /\ g[i] = h[i]
      BY <1>2, <2>1
    <3>2. g[i + 1] = GoOn(g[i]) /\ h[i + 1] = GoOn(h[i])
      BY <3>1 DEF FirstTurns
    <3> QED BY <3>1, <3>2
  <2> QED BY <2>1
<1>3. Nat \subseteq T
  <2> HIDE DEF T
  <2> QED BY <1>1, <1>2, Induction
<1> QED BY <1>3

\* There is a run of any length.
LEMMA AWay ==
  ASSUME NEW a, NEW n \in Nat
  PROVE  \E g : FirstTurns(a, g, n)
<1> DEFINE T == {k \in Nat : \E g : FirstTurns(a, g, k)}
<1>1. 0 \in T
  <2>1. FirstTurns(a, [i \in 0 .. 0 |-> a], 0)
    BY DEF FirstTurns
  <2> QED BY <2>1
<1>2. ASSUME NEW k \in Nat, k \in T PROVE k + 1 \in T
  <2>1. PICK g : FirstTurns(a, g, k)
    BY <1>2
  <2> DEFINE h == [i \in 0 .. k + 1 |-> IF i = 0 THEN a ELSE GoOn(g[i - 1])]
  <2>2. \A i \in 0 .. k : h[i] = g[i]
    BY <2>1 DEF FirstTurns
  <2>3. ASSUME NEW i \in 0 .. k + 1 PROVE h[i] = IF i = 0 THEN a ELSE GoOn(h[i - 1])
    <3>1. i = 0 \/ i - 1 \in 0 .. k
      OBVIOUS
    <3>2. h[i] = IF i = 0 THEN a ELSE GoOn(g[i - 1])
      OBVIOUS
    <3> HIDE DEF h
    <3> QED BY <2>2, <3>1, <3>2
  <2>4. h = [i \in 0 .. k + 1 |-> h[i]]
    OBVIOUS
  <2> HIDE DEF h
  <2>5. FirstTurns(a, h, k + 1)
    BY <2>3, <2>4 DEF FirstTurns
  <2> QED BY <2>5
<1>3. Nat \subseteq T
  <2> HIDE DEF T
  <2> QED BY <1>1, <1>2, Induction
<1> QED BY <1>3

\* The recursive definition of Turns defines a function.
LEMMA TurnsAre ==
  ASSUME NEW s, NEW c
  PROVE  Turns(s, c) = [i \in Nat |-> IF i = 0 THEN [s |-> s, left |-> c] ELSE GoOn(Turns(s, c)[i - 1])]
<1> DEFINE a == [s |-> s, left |-> c]
           G(n) == CHOOSE g : FirstTurns(a, g, n)
           f == [i \in Nat |-> G(i)[i]]
<1>1. \A n \in Nat : FirstTurns(a, G(n), n)
  BY AWay
<1> HIDE DEF G
<1>2. ASSUME NEW i \in Nat, i # 0 PROVE f[i] = GoOn(f[i - 1])
  <2>1. i - 1 \in Nat /\ i - 1 <= i /\ i - 1 \in 0 .. i - 1 /\ i \in 0 .. i
    BY <1>2
  <2>2. G(i - 1)[i - 1] = G(i)[i - 1]
    BY <1>1, <2>1, OneWay
  <2>3. G(i)[i] = GoOn(G(i)[i - 1])
    BY <1>1, <1>2, <2>1 DEF FirstTurns
  <2> QED BY <2>1, <2>2, <2>3
<1>3. f[0] = a
  BY <1>1 DEF FirstTurns
<1>4. f = [i \in Nat |-> IF i = 0 THEN a ELSE GoOn(f[i - 1])]
  BY <1>2, <1>3
<1> HIDE DEF f
<1> QED BY <1>4 DEF Turns

\* No turn has been made yet.
LEMMA TurnStarts ==
  ASSUME NEW s, NEW c
  PROVE  Turns(s, c)[0] = [s |-> s, left |-> c]
BY TurnsAre

\* Every turn goes on from the last.
LEMMA TurnGoesOn ==
  ASSUME NEW s, NEW c, NEW n \in Nat
  PROVE  Turns(s, c)[n + 1] = GoOn(Turns(s, c)[n])
<1>1. n + 1 \in Nat /\ n + 1 # 0 /\ (n + 1) - 1 = n
  OBVIOUS
<1> QED BY <1>1, TurnsAre

Over(at) == at.left = 0 \/ at.s.barrier = 1

\* After the first turn the loop is that of what it left.
LEMMA TurnsShift ==
  ASSUME NEW s, NEW c, NEW t, NEW d, GoOn([s |-> s, left |-> c]) = [s |-> t, left |-> d], NEW i \in Nat
  PROVE  Turns(s, c)[i + 1] = Turns(t, d)[i]
<1> DEFINE T == {k \in Nat : Turns(s, c)[k + 1] = Turns(t, d)[k]}
<1>1. 0 \in T
  <2>1. Turns(s, c)[0 + 1] = GoOn(Turns(s, c)[0])
    BY TurnGoesOn
  <2>2. Turns(s, c)[0] = [s |-> s, left |-> c] /\ Turns(t, d)[0] = [s |-> t, left |-> d]
    BY TurnStarts
  <2>3. Turns(s, c)[0 + 1] = Turns(t, d)[0]
    BY <2>1, <2>2
  <2> QED BY <2>3
<1>2. ASSUME NEW k \in Nat, k \in T PROVE k + 1 \in T
  <2>1. Turns(s, c)[(k + 1) + 1] = GoOn(Turns(s, c)[k + 1]) /\ Turns(t, d)[k + 1] = GoOn(Turns(t, d)[k])
    BY TurnGoesOn
  <2>2. Turns(s, c)[k + 1] = Turns(t, d)[k]
    BY <1>2
  <2> QED BY <2>1, <2>2
<1>3. Nat \subseteq T
  <2> HIDE DEF T
  <2> QED BY <1>1, <1>2, Induction
<1> QED BY <1>3

\* A loop that is over stays as it is.
LEMMA OverStays ==
  ASSUME NEW s, NEW c, NEW i \in Nat, NEW j \in Nat, i <= j, Over(Turns(s, c)[i])
  PROVE  Turns(s, c)[j] = Turns(s, c)[i]
<1>0. \A n \in Nat : Turns(s, c)[n + 1] = GoOn(Turns(s, c)[n])
  BY TurnGoesOn
<1> DEFINE T == {k \in Nat : Turns(s, c)[i + k] = Turns(s, c)[i]}
<1>1. 0 \in T
  <2>1. i + 0 = i
    OBVIOUS
  <2> QED BY <2>1
<1>2. ASSUME NEW k \in Nat, k \in T PROVE k + 1 \in T
  <2> DEFINE m == i + k
  <2>0. m \in Nat /\ i + (k + 1) = m + 1
    OBVIOUS
  <2>2. Turns(s, c)[m] = Turns(s, c)[i]
    BY <1>2
  <2> HIDE DEF m
  <2>1. Turns(s, c)[m + 1] = GoOn(Turns(s, c)[m])
    BY Zenon, <1>0, <2>0
  <2>3. Turns(s, c)[i + (k + 1)] = Turns(s, c)[i]
    BY <2>0, <2>1, <2>2 DEF GoOn, Over
  <2> QED BY <2>3
<1>3. Nat \subseteq T
  <2> HIDE DEF T
  <2> QED BY <1>1, <1>2, Induction
<1>4. j - i \in T /\ i + (j - i) = j
  BY <1>3
<1>5. Turns(s, c)[i + (j - i)] = Turns(s, c)[i]
  BY <1>4
<1> QED BY <1>4, <1>5

-----------------------------------------------------------------------------
(* The turns counted are enough, so a payment is its first turn and the rest.*)

\* Turns that reach as many lines as the cycles do end the loop.
LEMMA TurnsSuffice ==
  ASSUME NEW i \in Nat
  PROVE  \A s : OnBeam(s) => \A c \in Nat : c + s.h <= i * LineCycles => Over(Turns(s, c)[i])
<1> DEFINE T == {k \in Nat : \A s : OnBeam(s) => \A c \in Nat : c + s.h <= k * LineCycles => Over(Turns(s, c)[k])}
<1>0. LineCycles \in Nat \ {0}
  BY TimingAssumption
<1>1. 0 \in T
  <2> SUFFICES ASSUME NEW s, OnBeam(s), NEW c \in Nat, c + s.h <= 0 * LineCycles PROVE Over(Turns(s, c)[0])
    OBVIOUS
  <2>1. s.h \in Nat /\ 0 * LineCycles = 0
    BY <1>0 DEF OnBeam
  <2>2. c = 0
    BY <2>1
  <2>3. Turns(s, c)[0] = [s |-> s, left |-> c]
    BY TurnStarts
  <2> QED BY <2>2, <2>3 DEF Over
<1>2. ASSUME NEW k \in Nat, k \in T PROVE k + 1 \in T
  <2> SUFFICES ASSUME NEW s, OnBeam(s), NEW c \in Nat, c + s.h <= (k + 1) * LineCycles
               PROVE  Over(Turns(s, c)[k + 1])
    OBVIOUS
  <2>1. s.h \in 0 .. LineCycles - 1 /\ (k + 1) * LineCycles = k * LineCycles + LineCycles
        /\ k * LineCycles \in Nat
    BY <1>0 DEF OnBeam
  <2>2. Turns(s, c)[0] = [s |-> s, left |-> c]
    BY TurnStarts
  <2>3. CASE c = 0 \/ s.barrier = 1
    <3>1. Over(Turns(s, c)[0]) /\ 0 <= k + 1 /\ k + 1 \in Nat
      BY <2>2, <2>3 DEF Over
    <3>2. Turns(s, c)[k + 1] = Turns(s, c)[0]
      BY <3>1, OverStays
    <3> QED BY <3>1, <3>2
  <2>4. CASE ~(c = 0 \/ s.barrier = 1) /\ s.h + c < LineCycles
    <3>1. GoOn([s |-> s, left |-> c]) = [s |-> Passed(s, c), left |-> 0]
      BY <2>4, SegmentIs DEF GoOn
    <3>2. Turns(s, c)[0 + 1] = [s |-> Passed(s, c), left |-> 0]
      BY <2>2, <3>1, TurnGoesOn
    <3>3. Over(Turns(s, c)[1]) /\ 1 <= k + 1 /\ k + 1 \in Nat
      BY <3>2 DEF Over
    <3>4. Turns(s, c)[k + 1] = Turns(s, c)[1]
      BY <3>3, OverStays
    <3> QED BY <3>3, <3>4
  <2>5. CASE ~(c = 0 \/ s.barrier = 1) /\ s.h + c >= LineCycles
    <3> DEFINE t == StartsLine(Passed(s, LineCycles - s.h), (s.v + 1) % Lines)
               d == c - (LineCycles - s.h)
    <3>1. GoOn([s |-> s, left |-> c]) = [s |-> t, left |-> d]
      BY <2>5, SegmentIs DEF GoOn
    <3>2. Turns(s, c)[k + 1] = Turns(t, d)[k]
      BY <3>1, TurnsShift
    <3>3. OnBeam(t) /\ t.h = 0
      <4>1. LineCycles - s.h \in Nat
        BY <1>0, <2>1
      <4>2. IsConsole(Passed(s, LineCycles - s.h))
        BY <4>1, PassedFields DEF PassesTo
      <4> QED BY <4>1, <4>2, LineIsOnBeam, LineFields DEF BeginsAs
    <3>4. d \in Nat /\ d + 0 <= k * LineCycles
      BY <1>0, <2>1, <2>5
    <3> HIDE DEF t, d
    <3>5. \A u : OnBeam(u) => \A e \in Nat : e + u.h <= k * LineCycles => Over(Turns(u, e)[k])
      BY <1>2
    <3>6. Over(Turns(t, d)[k])
      BY <3>3, <3>4, <3>5
    <3> QED BY <3>2, <3>6
  <2> QED BY <1>0, <2>1, <2>3, <2>4, <2>5
<1>3. Nat \subseteq T
  <2> HIDE DEF T
  <2> QED BY <1>1, <1>2, Induction
<1>4. i \in T
  BY <1>3
<1> QED BY <1>4

\* A line for each one paid, and two more, hold every cycle.
LEMMA LinesAreEnough ==
  ASSUME NEW c \in Nat
  PROVE  /\ c \div LineCycles \in Nat
         /\ ((c \div LineCycles) + 1) * LineCycles > c
         /\ ((c \div LineCycles) + 2) * LineCycles = ((c \div LineCycles) + 1) * LineCycles + LineCycles
<1>1. LineCycles \in Nat \ {0}
  BY TimingAssumption
<1> DEFINE q == c \div LineCycles
<1>2. q \in Nat
  BY <1>1
<1>3. c = LineCycles * q + (c % LineCycles) /\ c % LineCycles \in 0 .. LineCycles - 1
  BY <1>1
<1> HIDE DEF q
<1>4. (q + 1) * LineCycles = LineCycles * q + LineCycles /\ (q + 2) * LineCycles = (q + 1) * LineCycles + LineCycles
  BY <1>1, <1>2
<1>5. LineCycles * q \in Int
  BY <1>1, <1>2
<1>6. (q + 1) * LineCycles > c
  BY <1>1, <1>3, <1>4, <1>5
<1> QED BY <1>2, <1>4, <1>6 DEF q

\* The loop in one: it is over, or it goes on from where a turn left it.
LEMMA AdvanceIs ==
  ASSUME NEW s, OnBeam(s), NEW c \in Nat
  PROVE  /\ c = 0 \/ s.barrier = 1 => dkc2_snes_io_advance_master_cycles(s, c) = s
         /\ c # 0 /\ s.barrier # 1 /\ s.h + c < LineCycles =>
              dkc2_snes_io_advance_master_cycles(s, c) = Passed(s, c)
         /\ c # 0 /\ s.barrier # 1 /\ s.h + c >= LineCycles =>
              dkc2_snes_io_advance_master_cycles(s, c) =
                dkc2_snes_io_advance_master_cycles(
                  StartsLine(Passed(s, LineCycles - s.h), (s.v + 1) % Lines), c - (LineCycles - s.h))
<1> DEFINE q == c \div LineCycles
<1>0. LineCycles \in Nat \ {0} /\ s.h \in 0 .. LineCycles - 1
  BY TimingAssumption DEF OnBeam
<1>1. q \in Nat /\ (q + 1) * LineCycles > c
  BY LinesAreEnough
<1>2. dkc2_snes_io_advance_master_cycles(s, c) = Turns(s, c)[q + 2].s
  BY DEF dkc2_snes_io_advance_master_cycles
<1>3. Turns(s, c)[0] = [s |-> s, left |-> c]
  BY TurnStarts
<1> HIDE DEF q
<1>4. CASE c = 0 \/ s.barrier = 1
  <2>1. Over(Turns(s, c)[0]) /\ 0 <= q + 2 /\ q + 2 \in Nat
    BY <1>1, <1>3, <1>4 DEF Over
  <2>2. Turns(s, c)[q + 2] = Turns(s, c)[0]
    BY <2>1, OverStays
  <2> QED BY <1>2, <1>3, <1>4, <2>2
<1>5. CASE c # 0 /\ s.barrier # 1 /\ s.h + c < LineCycles
  <2>1. GoOn([s |-> s, left |-> c]) = [s |-> Passed(s, c), left |-> 0]
    BY <1>5, SegmentIs DEF GoOn
  <2>2. Turns(s, c)[0 + 1] = [s |-> Passed(s, c), left |-> 0]
    BY <1>3, <2>1, TurnGoesOn
  <2>3. Over(Turns(s, c)[1]) /\ 1 <= q + 2 /\ q + 2 \in Nat
    BY <1>1, <2>2 DEF Over
  <2>4. Turns(s, c)[q + 2] = Turns(s, c)[1]
    BY <2>3, OverStays
  <2>5. Turns(s, c)[q + 2].s = Passed(s, c)
    BY <2>2, <2>4
  <2> QED BY <1>0, <1>2, <1>5, <2>5
<1>6. CASE c # 0 /\ s.barrier # 1 /\ s.h + c >= LineCycles
  <2> DEFINE t == StartsLine(Passed(s, LineCycles - s.h), (s.v + 1) % Lines)
             d == c - (LineCycles - s.h)
             r == d \div LineCycles
  <2>1. GoOn([s |-> s, left |-> c]) = [s |-> t, left |-> d]
    BY <1>6, SegmentIs DEF GoOn
  <2>2. Turns(s, c)[(q + 1) + 1] = Turns(t, d)[q + 1]
    BY <1>1, <2>1, TurnsShift
  <2>3. OnBeam(t) /\ t.h = 0
    <3>1. LineCycles - s.h \in Nat
      BY <1>0
    <3>2. IsConsole(Passed(s, LineCycles - s.h))
      BY <3>1, PassedFields DEF PassesTo
    <3> QED BY <3>1, <3>2, LineIsOnBeam, LineFields DEF BeginsAs
  <2>4. d \in Nat
    BY <1>0, <1>6
  <2>5. dkc2_snes_io_advance_master_cycles(t, d) = Turns(t, d)[r + 2].s
    BY DEF dkc2_snes_io_advance_master_cycles
  <2>6. r \in Nat /\ (r + 1) * LineCycles > d
        /\ (r + 2) * LineCycles = (r + 1) * LineCycles + LineCycles
    BY <2>4, LinesAreEnough
  <2>a. d <= c
    BY <1>0, <1>6
  <2> HIDE DEF t, d, r
  <2>7. (q + 1) * LineCycles \in Nat /\ (r + 1) * LineCycles \in Nat
    BY <1>0, <1>1, <2>6
  <2>8. Over(Turns(t, d)[q + 1])
    <3>1. d + t.h <= (q + 1) * LineCycles /\ q + 1 \in Nat
      BY <1>1, <2>3, <2>4, <2>7, <2>a
    <3> QED BY <2>3, <2>4, <3>1, TurnsSuffice
  <2>9. Over(Turns(t, d)[r + 2])
    <3>1. d + t.h <= (r + 2) * LineCycles /\ r + 2 \in Nat
      BY <1>0, <2>3, <2>4, <2>6, <2>7
    <3> QED BY <2>3, <2>4, <3>1, TurnsSuffice
  <2>10. Turns(t, d)[q + 1] = Turns(t, d)[r + 2]
    <3>1. q + 1 \in Nat /\ r + 2 \in Nat
      BY <1>1, <2>6
    <3>2. CASE q + 1 <= r + 2
      BY <2>8, <3>1, <3>2, OverStays
    <3>3. CASE r + 2 <= q + 1
      BY <2>9, <3>1, <3>3, OverStays
    <3> QED BY <3>1, <3>2, <3>3
  <2>11. Turns(s, c)[q + 2] = Turns(t, d)[r + 2]
    <3>1. (q + 1) + 1 = q + 2
      BY <1>1
    <3> QED BY <2>2, <2>10, <3>1
  <2>12. dkc2_snes_io_advance_master_cycles(s, c) = dkc2_snes_io_advance_master_cycles(t, d)
    BY <1>2, <2>5, <2>11
  <2> QED BY <1>0, <1>6, <2>12 DEF t, d
<1> QED BY <1>0, <1>4, <1>5, <1>6

-----------------------------------------------------------------------------
(* One cycle more is one more cycle of the beam.                           *)

\* One cycle more is a cycle of the beam.
LEMMA OneCycleMore ==
  ASSUME NEW c \in Nat
  PROVE  \A s : OnBeam(s) /\ dkc2_snes_io_advance_master_cycles(s, c).barrier # 1 =>
           LET r == dkc2_snes_io_advance_master_cycles(s, c) IN
           OnBeam(r) /\ dkc2_snes_io_advance_master_cycles(s, c + 1) = Cycle(r)
<1> DEFINE A(s, n) == dkc2_snes_io_advance_master_cycles(s, n)
           Goes(n) == \A s : OnBeam(s) /\ A(s, n).barrier # 1 => OnBeam(A(s, n)) /\ A(s, n + 1) = Cycle(A(s, n))
           Bad == {n \in Nat : ~Goes(n)}
<1> SUFFICES ASSUME Bad # {} PROVE FALSE
  OBVIOUS
<1>1. PICK n \in Bad : \A k \in Bad : n <= k
  BY Least
<1>2. n \in Nat /\ \A k \in Nat : k < n => Goes(k)
  BY <1>1
<1> SUFFICES ASSUME NEW s, OnBeam(s), A(s, n).barrier # 1
             PROVE  OnBeam(A(s, n)) /\ A(s, n + 1) = Cycle(A(s, n))
  BY <1>1
<1>3. /\ LineCycles \in Nat \ {0} /\ s.h \in 0 .. LineCycles - 1 /\ s.v \in 0 .. Lines - 1
  BY TimingAssumption DEF OnBeam
<1> DEFINE rest == LineCycles - s.h
           t == StartsLine(Passed(s, rest), (s.v + 1) % Lines)
<1>4. n + 1 \in Nat /\ n + 1 # 0 /\ rest \in Nat /\ rest # 0
  BY <1>2, <1>3
<1>5. s.barrier # 1
  BY <1>2, AdvanceIs
<1>6. /\ n = 0 => A(s, n) = s
      /\ n # 0 /\ s.h + n < LineCycles => A(s, n) = Passed(s, n)
      /\ n # 0 /\ s.h + n >= LineCycles => A(s, n) = A(t, n - rest)
  BY <1>2, <1>5, AdvanceIs
<1>7. /\ s.h + (n + 1) < LineCycles => A(s, n + 1) = Passed(s, n + 1)
      /\ s.h + (n + 1) >= LineCycles => A(s, n + 1) = A(t, (n + 1) - rest)
  <2> DEFINE m == n + 1
  <2>1. m \in Nat /\ m # 0
    BY <1>4
  <2> HIDE DEF m
  <2>2. /\ s.h + m < LineCycles => A(s, m) = Passed(s, m)
        /\ s.h + m >= LineCycles => A(s, m) = A(t, m - rest)
    BY <1>5, <2>1, AdvanceIs
  <2> QED BY <2>2 DEF m
<1>8. OnBeam(t)
  BY <1>4, LineIsOnBeam
<1>9. A(t, 0) = t
  BY <1>8, AdvanceIs
<1> HIDE DEF A
<1>10. CASE n = 0
  <2>1. A(s, n) = s
    BY <1>6, <1>10
  <2>2. Cycle(s) = Segment(s, 1).s
    BY CycleIsTurn
  <2>3. CASE s.h + 1 < LineCycles
    <3>1. Segment(s, 1) = [s |-> Passed(s, 1), left |-> 0]
      BY <2>3, SegmentIs
    <3> QED BY <1>7, <1>10, <2>1, <2>2, <2>3, <3>1
  <2>4. CASE s.h + 1 >= LineCycles
    <3>1. Segment(s, 1) = [s |-> t, left |-> 1 - rest]
      BY <2>4, SegmentIs
    <3>2. (n + 1) - rest = 0
      BY <1>3, <1>10, <2>4
    <3>3. A(s, n + 1) = t
      BY <1>3, <1>7, <1>9, <1>10, <2>4, <3>2
    <3> QED BY <2>1, <2>2, <3>1, <3>3
  <2> QED BY <1>3, <2>3, <2>4
<1>11. CASE n # 0 /\ s.h + n < LineCycles
  <2> DEFINE p == Passed(s, n)
  <2>1. A(s, n) = p /\ OnBeam(p) /\ Passed(p, 1) = Passed(s, n + 1)
    BY <1>2, <1>6, <1>11, PassedAdds
  <2>2. Cycle(p) = Segment(p, 1).s
    BY <2>1, CycleIsTurn
  <2>3. p.h = s.h + n /\ p.v = s.v
    <3>1. p.h = s.h + n /\ Untouched(p, s, {"h", "timeup"} \cup Channelled \cup Polled \cup Computed)
      BY <1>2, PassedFields DEF PassesTo
    <3> HIDE DEF p
    <3> QED BY <3>1 DEF Untouched, Fields, Channelled, Polled, Computed
  <2> HIDE DEF p
  <2>4. CASE s.h + (n + 1) < LineCycles
    <3>1. p.h + 1 < LineCycles
      BY <1>2, <1>3, <2>3, <2>4
    <3>2. Segment(p, 1) = [s |-> Passed(p, 1), left |-> 0]
      BY <2>1, <3>1, SegmentIs
    <3> QED BY <1>7, <2>1, <2>2, <2>4, <3>2
  <2>5. CASE s.h + (n + 1) >= LineCycles
    <3>1. p.h + 1 >= LineCycles /\ LineCycles - p.h = 1 /\ rest = n + 1 /\ (n + 1) - rest = 0
      BY <1>2, <1>3, <1>11, <2>3, <2>5
    <3>2. Segment(p, 1).s = StartsLine(Passed(p, LineCycles - p.h), (p.v + 1) % Lines)
      BY <2>1, <3>1, SegmentIs
    <3>3. Segment(p, 1).s = StartsLine(Passed(s, n + 1), (s.v + 1) % Lines)
      BY <2>1, <2>3, <3>1, <3>2
    <3>4. Segment(p, 1).s = t
      BY <3>1, <3>3
    <3>5. A(s, n + 1) = t
      BY <1>7, <1>9, <2>5, <3>1
    <3> QED BY <2>1, <2>2, <3>4, <3>5
  <2> QED BY <1>2, <1>3, <2>4, <2>5
<1>12. CASE n # 0 /\ s.h + n >= LineCycles
  <2> DEFINE d == n - rest
  <2>1. d \in Nat /\ d < n /\ (n + 1) - rest = d + 1 /\ s.h + (n + 1) >= LineCycles
    BY <1>2, <1>3, <1>12
  <2>2. A(s, n) = A(t, d) /\ A(s, n + 1) = A(t, d + 1)
    BY <1>6, <1>7, <1>12, <2>1
  <2>3. Goes(d)
    BY <1>2, <2>1
  <2> QED BY <1>8, <2>2, <2>3
<1> QED BY <1>2, <1>3, <1>10, <1>11, <1>12

\* The first half of ClockKept, for every payment.
LEMMA BeamIsMet == ASSUME OnBeam(io) PROVE AdvanceMeetsBeam(Payments)
<1> SUFFICES ASSUME io.barrier = 0, NEW n \in Payments,
                    dkc2_snes_io_advance_master_cycles(io, n).barrier = 0
             PROVE  dkc2_snes_io_advance_master_cycles(io, n + 1)
                      = Cycle(dkc2_snes_io_advance_master_cycles(io, n))
  BY DEF AdvanceMeetsBeam
<1>1. n \in Nat
  BY TimingAssumption
<1> QED BY <1>1, OneCycleMore

-----------------------------------------------------------------------------
(* What any number of cycles keeps, and how the arithmetic ages.           *)

Flags == {"timeup", "nmiFlag", "nmiPending", "strobe", "hdmaOn", "barrier"}

Steady(s) ==
  /\ OnBeam(s)
  /\ s.joyLeft \in 0 .. JoyCycles /\ s.mathLeft \in 0 .. DivCycles
  /\ \A f \in Flags : s[f] \in 0 .. 1
  /\ s.shift \in 0 .. PadRange - 1 /\ s.pad \in PadValues
  /\ s.irq \in 0 .. 3 /\ s.vtime \in Nat

\* The arithmetic unit after n cycles.
Counted(s, r, n) ==
  /\ r.mathLeft = (IF n >= s.mathLeft THEN 0 ELSE s.mathLeft - n)
  /\ r.product = (IF s.mathLeft > 0 /\ n >= s.mathLeft THEN Product(s) ELSE s.product)
  /\ r.quotient = (IF s.mathLeft > 0 /\ n >= s.mathLeft THEN Quotient(s) ELSE s.quotient)

SameSettings(r, s) == \A f \in Settings : r[f] = s[f]

\* Two payments count down as their sum.
LEMMA CountedAdds ==
  ASSUME NEW s, NEW a, NEW r, NEW m \in Nat, NEW n \in Nat, s.mathLeft \in Nat,
         Counted(s, a, m), Counted(a, r, n), SameSettings(a, s)
  PROVE  Counted(s, r, m + n)
<1>1. a.divides = s.divides /\ a.left = s.left /\ a.right = s.right
  BY DEF SameSettings, Settings
<1>2. CASE s.mathLeft > 0 /\ m >= s.mathLeft
  <2>1. a.mathLeft = 0 /\ m + n >= s.mathLeft
    BY <1>2 DEF Counted
  <2> QED BY <1>2, <2>1 DEF Counted
<1>3. CASE ~(s.mathLeft > 0 /\ m >= s.mathLeft)
  <2>1. /\ (a.mathLeft > 0 /\ n >= a.mathLeft) <=> (s.mathLeft > 0 /\ m + n >= s.mathLeft)
        /\ (IF n >= a.mathLeft THEN 0 ELSE a.mathLeft - n) = (IF m + n >= s.mathLeft THEN 0 ELSE s.mathLeft - (m + n))
    BY <1>3 DEF Counted
  <2>2. a.product = s.product /\ a.quotient = s.quotient
    BY <1>3 DEF Counted
  <2>3. Product(a) = Product(s) /\ Quotient(a) = Quotient(s)
    BY <1>1, <2>2 DEF Product, Quotient
  <2> QED BY <2>1, <2>2, <2>3 DEF Counted
<1> QED BY <1>2, <1>3

\* A transfer says whether it met an unsupported register.
LEMMA BlockedIs ==
  ASSUME NEW s
  PROVE  Transferred(s).blocked \in 0 .. 1
BY DEF Transferred, run_hdma_channel, transfer_hdma_line

\* The larger of two flags is a flag.
LEMMA MaxOfFlags ==
  ASSUME NEW x \in 0 .. 1, NEW y \in 0 .. 1
  PROVE  Max({x, y}) \in 0 .. 1
<1>1. Max({x, y}) = IF x >= y THEN x ELSE y
  BY DEF Max
<1> QED BY <1>1

\* A stretch keeps the registers in range.
LEMMA PassedSteady ==
  ASSUME NEW s, Steady(s), NEW n \in Nat
  PROVE  /\ s.h + n < LineCycles => Steady(Passed(s, n))
         /\ SameSettings(Passed(s, n), s) /\ Counted(s, Passed(s, n), n)
<1> DEFINE r == Passed(s, n)
<1>0. /\ OnBeam(s) /\ s.joyLeft \in 0 .. JoyCycles /\ s.mathLeft \in 0 .. DivCycles
      /\ JoyCycles \in Nat /\ DivCycles \in Nat
      /\ s.h \in 0 .. LineCycles - 1 /\ s.v \in 0 .. Lines - 1 /\ s.htime \in Nat
      /\ LineCycles \in Nat
  BY TimingAssumption DEF Steady, OnBeam
<1>1. PassesTo(r, s, n)
  BY <1>0, PassedFields
<1> USE DEF PassesTo
<1> HIDE DEF r
<1>2. SameSettings(r, s) /\ Counted(s, r, n)
  BY <1>1 DEF SameSettings, Counted, Untouched, Fields, Settings, Polled, Computed, Channelled
<1>3. /\ r.v = s.v /\ r.nmiFlag = s.nmiFlag /\ r.nmiPending = s.nmiPending /\ r.shift = s.shift
      /\ r.pad = s.pad /\ r.irq = s.irq /\ r.vtime = s.vtime /\ r.htime = s.htime /\ r.strobe = s.strobe
      /\ r.hdmaOn = s.hdmaOn
  BY <1>1 DEF Untouched, Fields, Settings, Polled, Computed, Channelled, Raised
<1>4. r.barrier \in 0 .. 1 /\ r.timeup \in 0 .. 1
  <2>1. s.barrier \in 0 .. 1 /\ s.timeup \in 0 .. 1
    BY DEF Steady, Flags
  <2>2. Max({s.barrier, Transferred(s).blocked}) \in 0 .. 1
    BY <2>1, BlockedIs, MaxOfFlags
  <2> QED BY <1>1, <2>1, <2>2
<1>5. r.joyLeft \in 0 .. JoyCycles /\ r.mathLeft \in 0 .. DivCycles
  BY <1>0, <1>1
<1>6. \A f \in Flags : r[f] \in 0 .. 1
  BY <1>3, <1>4 DEF Steady, Flags
<1>7. s.h + n < LineCycles => OnBeam(r)
  BY <1>0, <1>1, <1>3, <1>5 DEF OnBeam
<1>8. r.shift \in 0 .. PadRange - 1 /\ r.pad \in PadValues /\ r.irq \in 0 .. 3 /\ r.vtime \in Nat
  BY <1>3 DEF Steady
<1>9. s.h + n < LineCycles => Steady(r)
  BY <1>5, <1>6, <1>7, <1>8 DEF Steady
<1> QED BY <1>2, <1>9 DEF r

\* The line after s.
NextStart(s) == StartsLine(Passed(s, LineCycles - s.h), (s.v + 1) % Lines)

\* A line's end keeps the registers in range, and raises what begins there.
LEMMA NextSteady ==
  ASSUME NEW s, Steady(s)
  PROVE  LET t == NextStart(s)
             y == (s.v + 1) % Lines
             p == Passed(s, LineCycles - s.h) IN
         /\ Steady(t) /\ SameSettings(t, s) /\ Counted(s, t, LineCycles - s.h)
         /\ t.h = 0 /\ t.v = y
         /\ t.nmiPending = (IF y = VBlankStart /\ s.nmiOn = 1 THEN 1 ELSE s.nmiPending)
         /\ t.timeup = (IF LineMatches(s, y) \/ PassesHTime(s, LineCycles) THEN 1 ELSE s.timeup)
<1> DEFINE n == LineCycles - s.h
           p == Passed(s, n)
           y == (s.v + 1) % Lines
           t == StartsLine(p, y)
<1>0. /\ OnBeam(s) /\ s.joyLeft \in 0 .. JoyCycles /\ s.mathLeft \in 0 .. DivCycles
      /\ JoyCycles \in Nat /\ DivCycles \in Nat
      /\ s.h \in 0 .. LineCycles - 1 /\ s.v \in 0 .. Lines - 1 /\ s.htime \in Nat
      /\ LineCycles \in Nat /\ PadValues \subseteq 0 .. PadRange - 1
  BY TimingAssumption DEF Steady, OnBeam
<1>1. n \in Nat /\ s.h + n = LineCycles
  BY <1>0
<1>2. OnBeam(t)
  BY <1>0, <1>1, LineIsOnBeam
<1>3. SameSettings(p, s) /\ Counted(s, p, n)
  BY <1>1, PassedSteady
<1>4. PassesTo(p, s, n)
  BY <1>0, <1>1, PassedFields
<1> USE DEF PassesTo
<1>5. s.barrier \in 0 .. 1 /\ s.timeup \in 0 .. 1 /\ s.nmiFlag \in 0 .. 1 /\ s.nmiPending \in 0 .. 1
      /\ s.strobe \in 0 .. 1 /\ s.hdmaOn \in 0 .. 1
  BY DEF Steady, Flags
<1>6. p.barrier \in 0 .. 1 /\ p.timeup \in 0 .. 1
  <2>1. Max({s.barrier, Transferred(s).blocked}) \in 0 .. 1
    BY <1>5, BlockedIs, MaxOfFlags
  <2> QED BY <1>4, <1>5, <2>1
<1> HIDE DEF p, y, n
<1>7. /\ p.v = s.v /\ p.nmiFlag = s.nmiFlag /\ p.nmiPending = s.nmiPending /\ p.shift = s.shift
      /\ p.pad = s.pad /\ p.irq = s.irq /\ p.vtime = s.vtime /\ p.htime = s.htime /\ p.strobe = s.strobe
      /\ p.hdmaOn = s.hdmaOn /\ p.nmiOn = s.nmiOn
  BY <1>4 DEF Untouched, Fields, Settings, Polled, Computed, Channelled, Raised
<1>8. BeginsAs(t, p, y)
  BY <1>4, LineFields
<1> USE DEF BeginsAs
<1> HIDE DEF t
<1>9. /\ t.mathLeft = p.mathLeft /\ t.product = p.product /\ t.quotient = p.quotient
      /\ t.barrier = p.barrier /\ t.pad = p.pad /\ t.irq = p.irq /\ t.vtime = p.vtime
      /\ t.strobe = p.strobe /\ t.hdmaOn = p.hdmaOn
      /\ \A f \in Settings : t[f] = p[f]
  BY <1>8 DEF Untouched, Fields, Settings, Polled, Computed, Channelled, Raised
<1>10. SameSettings(t, s) /\ Counted(s, t, n)
  BY <1>3, <1>9 DEF SameSettings, Counted
<1>11. LineMatches(p, y) <=> LineMatches(s, y)
  BY <1>7 DEF LineMatches
<1>12. t.timeup = (IF LineMatches(s, y) \/ PassesHTime(s, LineCycles) THEN 1 ELSE s.timeup)
  BY <1>1, <1>4, <1>8, <1>11
<1>13. t.nmiPending = (IF y = VBlankStart /\ s.nmiOn = 1 THEN 1 ELSE s.nmiPending)
  BY <1>7, <1>8
<1>14. t.joyLeft \in 0 .. JoyCycles /\ t.mathLeft \in 0 .. DivCycles
  BY <1>0, <1>1, <1>4, <1>8, <1>9
<1>15. \A f \in Flags : t[f] \in 0 .. 1
  BY <1>5, <1>6, <1>7, <1>8, <1>9 DEF Flags
<1>16. t.shift \in 0 .. PadRange - 1 /\ t.pad \in PadValues /\ t.irq \in 0 .. 3 /\ t.vtime \in Nat
  BY <1>0, <1>7, <1>8, <1>9 DEF Steady
<1>17. Steady(t)
  BY <1>2, <1>14, <1>15, <1>16 DEF Steady
<1> QED BY <1>8, <1>10, <1>12, <1>13, <1>17 DEF NextStart, t, p, n, y

\* Any number of cycles keeps the console's types and the program's settings,
\* and runs the arithmetic.
LEMMA AdvanceSteady ==
  ASSUME NEW c \in Nat
  PROVE  \A s : Steady(s) =>
           LET r == dkc2_snes_io_advance_master_cycles(s, c) IN
           Steady(r) /\ SameSettings(r, s) /\ (r.barrier # 1 => Counted(s, r, c))
<1> DEFINE A(s, n) == dkc2_snes_io_advance_master_cycles(s, n)
           Goes(n) == \A s : Steady(s) => Steady(A(s, n)) /\ SameSettings(A(s, n), s)
                                          /\ (A(s, n).barrier # 1 => Counted(s, A(s, n), n))
           Bad == {n \in Nat : ~Goes(n)}
<1> SUFFICES ASSUME Bad # {} PROVE FALSE
  OBVIOUS
<1>1. PICK n \in Bad : \A k \in Bad : n <= k
  BY Least
<1>2. n \in Nat /\ \A k \in Nat : k < n => Goes(k)
  BY <1>1
<1> SUFFICES ASSUME NEW s, Steady(s)
             PROVE  Steady(A(s, n)) /\ SameSettings(A(s, n), s) /\ (A(s, n).barrier # 1 => Counted(s, A(s, n), n))
  BY <1>1
<1>3. /\ LineCycles \in Nat \ {0} /\ s.h \in 0 .. LineCycles - 1 /\ OnBeam(s)
      /\ s.mathLeft \in Nat
  BY TimingAssumption DEF Steady, OnBeam
<1>4. CASE n = 0 \/ s.barrier = 1
  <2>1. A(s, n) = s
    BY <1>2, <1>3, <1>4, AdvanceIs
  <2>2. SameSettings(s, s) /\ Counted(s, s, 0)
    BY <1>3 DEF SameSettings, Counted
  <2> QED BY <1>4, <2>1, <2>2
<1>5. CASE n # 0 /\ s.barrier # 1 /\ s.h + n < LineCycles
  <2>1. A(s, n) = Passed(s, n)
    BY <1>2, <1>3, <1>5, AdvanceIs
  <2> QED BY <1>2, <1>5, <2>1, PassedSteady
<1>6. CASE n # 0 /\ s.barrier # 1 /\ s.h + n >= LineCycles
  <2> DEFINE t == NextStart(s)
             m == LineCycles - s.h
             d == n - m
  <2>1. A(s, n) = A(t, d)
    BY <1>2, <1>3, <1>6, AdvanceIs DEF NextStart
  <2>2. d \in Nat /\ d < n /\ m \in Nat /\ m + d = n
    BY <1>2, <1>3, <1>6
  <2>3. Steady(t) /\ SameSettings(t, s) /\ Counted(s, t, m)
    BY NextSteady
  <2>4. Goes(d)
    BY <1>2, <2>2
  <2> HIDE DEF t, m, d
  <2>5. Steady(A(t, d)) /\ SameSettings(A(t, d), t) /\ (A(t, d).barrier # 1 => Counted(t, A(t, d), d))
    BY <2>3, <2>4
  <2>6. SameSettings(A(t, d), s)
    BY <2>3, <2>5 DEF SameSettings
  <2>7. A(t, d).barrier # 1 => Counted(s, A(t, d), m + d)
    BY <1>3, <2>2, <2>3, <2>5, CountedAdds
  <2> QED BY <2>1, <2>2, <2>5, <2>6, <2>7
<1> QED BY <1>2, <1>3, <1>4, <1>5, <1>6

-----------------------------------------------------------------------------
(* What is known of the clock at every instruction.                        *)

\* Lines until y begins, at least one.
Until(s, y) == IF s.v < y THEN y - s.v ELSE Lines - s.v + y

\* Lines until a timer's place is passed, counted from the beam's own column.
UntilTimer(s) ==
  CASE s.irq = 1 -> 1
    [] s.irq = 2 -> Until(s, s.vtime)
    [] s.irq = 3 -> IF irq_h_time(s) <= s.h THEN Until(s, s.vtime)
                    ELSE IF s.v = s.vtime THEN 1 ELSE Until(s, s.vtime) + 1
    [] OTHER -> 0

\* The timer's place, as TimerComes has it.
Reachable(s) ==
  /\ s.irq \in {1, 3} => irq_h_time(s) < LineCycles
  /\ s.irq \in {2, 3} => s.vtime < Lines
  /\ s.irq # 0

\* A CPU c that has waited w lines still has what is to come within the frame.
WaitOf(s, c, w) ==
  /\ w \in Nat /\ c.waiting \in 0 .. 1
  /\ c.waiting = 0 => w = 0
  /\ s.nmiOn = 1 => /\ w <= Lines
                    /\ s.barrier = 0 /\ s.nmiPending = 0 => w + Until(s, VBlankStart) <= Lines
  /\ c.masked = 0 /\ Reachable(s) =>
       /\ w <= Lines
       /\ s.barrier = 0 /\ s.timeup = 0 => w + UntilTimer(s) <= Lines

\* The registers hold what was asked: the time left, then the result.
SumOf(s, asked) ==
  /\ asked = [op |-> asked.op, left |-> asked.left, right |-> asked.right, age |-> asked.age,
              product |-> asked.product, quotient |-> asked.quotient]
  /\ asked.op \in {"none", "wrmpyb", "wrdivb"} /\ asked.age \in 0 .. DivCycles
  /\ LET time == IF asked.op = "wrmpyb" THEN MulCycles ELSE DivCycles IN
     s.barrier = 0 /\ asked.op # "none" =>
       /\ s.divides = (IF asked.op = "wrmpyb" THEN 0 ELSE 1)
       /\ s.left = asked.left /\ s.right = asked.right
       /\ s.mathLeft = (IF asked.age >= time THEN 0 ELSE time - asked.age)
       /\ asked.age < time => s.product = asked.product /\ s.quotient = asked.quotient
       /\ asked.age >= time =>
            /\ s.product = (IF asked.op = "wrmpyb" THEN asked.left * asked.right
                            ELSE IF asked.right = 0 THEN asked.left ELSE asked.left % asked.right)
            /\ s.quotient = (IF asked.op = "wrmpyb" THEN asked.quotient
                             ELSE IF asked.right = 0 THEN MaxWord ELSE asked.left \div asked.right)

WaitInv == WaitOf(io, cpu, waited)
SumInv == SumOf(io, sum)
ClockInv == Steady(io) /\ stage \in {"running", "ended"} /\ WaitInv /\ SumInv

\* The invariant gives the results on time.
LEMMA ResultsFollow == ASSUME ClockInv PROVE ResultsOnTime
<1> DEFINE SumTime == IF sum.op = "wrmpyb" THEN MulCycles ELSE DivCycles
<1> SUFFICES ASSUME io.barrier = 0, sum.op # "none" PROVE ResultsOnTime
  BY DEF ResultsOnTime
<1>1. /\ sum.op \in {"wrmpyb", "wrdivb"}
      /\ sum.age < SumTime => io.product = sum.product /\ io.quotient = sum.quotient
      /\ sum.age >= SumTime =>
            /\ io.product = (IF sum.op = "wrmpyb" THEN sum.left * sum.right
                             ELSE IF sum.right = 0 THEN sum.left ELSE sum.left % sum.right)
            /\ io.quotient = (IF sum.op = "wrmpyb" THEN sum.quotient
                              ELSE IF sum.right = 0 THEN MaxWord ELSE sum.left \div sum.right)
  BY DEF ClockInv, SumInv, SumOf
<1>2. sum.age \in Int /\ SumTime \in Int
  BY TimingAssumption DEF ClockInv, SumInv, SumOf
<1> DEFINE done == sum.age >= SumTime
<1>3. CASE ~done
  <2>1. <<io.quotient, io.product>> = <<sum.quotient, sum.product>>
    BY <1>1, <1>2, <1>3
  <2> QED BY <1>3, <2>1 DEF ResultsOnTime
<1>4. CASE done /\ sum.op = "wrmpyb"
  BY <1>1, <1>4 DEF ResultsOnTime
<1>5. CASE done /\ sum.op = "wrdivb" /\ sum.right = 0
  BY <1>1, <1>5 DEF ResultsOnTime
<1>6. CASE done /\ sum.op = "wrdivb" /\ sum.right # 0
  BY <1>1, <1>6 DEF ResultsOnTime
<1> QED BY <1>1, <1>3, <1>4, <1>5, <1>6

\* The invariant gives the properties.
LEMMA ClockFollows == ASSUME ClockInv PROVE IoTypeOK /\ ClockKept
<1>1. IoTypeOK
  <2>1. Max({MulCycles, DivCycles}) = DivCycles
    <3>1. MulCycles \in Int /\ DivCycles \in Int /\ MulCycles <= DivCycles
      BY TimingAssumption
    <3> QED BY <3>1 DEF Max
  <2> QED BY <2>1 DEF ClockInv, Steady, OnBeam, IoTypeOK, Flags
<1>2. AdvanceMeetsBeam(Payments)
  BY BeamIsMet DEF ClockInv, Steady
<1>3. WaitEnds
  BY DEF ClockInv, WaitInv, WaitOf, WaitEnds, TimerComes, Reachable
<1> QED BY <1>1, <1>2, <1>3, ResultsFollow DEF ClockKept, EventsArrive

-----------------------------------------------------------------------------
(* Paying for cycles.                                                      *)

\* Cycles age the arithmetic as they run it.
LEMMA SpendKeeps ==
  ASSUME NEW s, Steady(s), NEW asked, SumOf(s, asked), NEW n \in Nat, Spend(s, n, asked)
  PROVE  /\ io' = dkc2_snes_io_advance_master_cycles(s, n)
         /\ Steady(io)' /\ SameSettings(io', s) /\ SumInv'
<1> DEFINE r == dkc2_snes_io_advance_master_cycles(s, n)
           time == IF asked.op = "wrmpyb" THEN MulCycles ELSE DivCycles
           age == IF asked.age + n < DivCycles THEN asked.age + n ELSE DivCycles
           new == [asked EXCEPT !.age = age]
<1>0. /\ DivCycles \in Nat /\ MulCycles \in 1 .. DivCycles /\ asked.age \in 0 .. DivCycles
      /\ asked.op \in {"none", "wrmpyb", "wrdivb"}
  BY TimingAssumption DEF SumOf
<1>1. io' = r /\ Steady(r) /\ SameSettings(r, s) /\ (r.barrier # 1 => Counted(s, r, n))
  BY AdvanceSteady DEF Spend
<1>2. sum' = new
  <2>1. Min({asked.age + n, DivCycles}) = age
    BY <1>0 DEF Min
  <2>2. sum' = [asked EXCEPT !.age = Min({asked.age + n, DivCycles})]
    BY DEF Spend
  <2> QED BY <2>1, <2>2
<1> HIDE DEF age, r
<1>3. /\ new = [op |-> asked.op, left |-> asked.left, right |-> asked.right, age |-> age,
                product |-> asked.product, quotient |-> asked.quotient]
  BY DEF SumOf
<1>4. age \in 0 .. DivCycles /\ (age >= time <=> asked.age + n >= time) /\ (age < time => age = asked.age + n)
  BY <1>0 DEF age
<1>5. ASSUME r.barrier = 0, asked.op # "none"
      PROVE  /\ r.divides = (IF asked.op = "wrmpyb" THEN 0 ELSE 1)
             /\ r.left = asked.left /\ r.right = asked.right
             /\ r.mathLeft = (IF age >= time THEN 0 ELSE time - age)
             /\ age < time => r.product = asked.product /\ r.quotient = asked.quotient
             /\ age >= time =>
                  /\ r.product = (IF asked.op = "wrmpyb" THEN asked.left * asked.right
                                  ELSE IF asked.right = 0 THEN asked.left ELSE asked.left % asked.right)
                  /\ r.quotient = (IF asked.op = "wrmpyb" THEN asked.quotient
                                   ELSE IF asked.right = 0 THEN MaxWord ELSE asked.left \div asked.right)
  <2>1. s.barrier = 0
    <3>1. s.barrier = 1 => r = s
      BY AdvanceIs DEF Steady, r
    <3>2. s.barrier \in 0 .. 1
      BY DEF Steady, Flags
    <3> QED BY <1>5, <3>1, <3>2
  <2>2. /\ s.divides = (IF asked.op = "wrmpyb" THEN 0 ELSE 1)
        /\ s.left = asked.left /\ s.right = asked.right
        /\ s.mathLeft = (IF asked.age >= time THEN 0 ELSE time - asked.age)
        /\ asked.age < time => s.product = asked.product /\ s.quotient = asked.quotient
        /\ asked.age >= time =>
             /\ s.product = (IF asked.op = "wrmpyb" THEN asked.left * asked.right
                             ELSE IF asked.right = 0 THEN asked.left ELSE asked.left % asked.right)
             /\ s.quotient = (IF asked.op = "wrmpyb" THEN asked.quotient
                              ELSE IF asked.right = 0 THEN MaxWord ELSE asked.left \div asked.right)
    BY <1>5, <2>1 DEF SumOf
  <2>3. r.divides = s.divides /\ r.left = s.left /\ r.right = s.right
    BY <1>1 DEF SameSettings, Settings
  <2>4. Counted(s, r, n)
    BY <1>1, <1>5
  <2>5. CASE asked.age >= time
    <3>1. s.mathLeft = 0 /\ age >= time /\ r.mathLeft = 0 /\ r.product = s.product /\ r.quotient = s.quotient
      BY <1>0, <1>4, <2>2, <2>4, <2>5 DEF Counted
    <3>2. ~(age < time)
      BY <1>0, <1>4, <3>1
    <3> QED BY <2>2, <2>3, <2>5, <3>1, <3>2
  <2>6. CASE asked.age < time
    <3>1. s.mathLeft = time - asked.age /\ s.mathLeft > 0 /\ (n >= s.mathLeft <=> age >= time)
          /\ s.product = asked.product /\ s.quotient = asked.quotient
      BY <1>0, <1>4, <2>2, <2>6
    <3>2. CASE age >= time
      <4>1. r.mathLeft = 0 /\ r.product = Product(s) /\ r.quotient = Quotient(s)
        BY <2>4, <3>1, <3>2 DEF Counted
      <4>2. /\ Product(s) = (IF asked.op = "wrmpyb" THEN asked.left * asked.right
                             ELSE IF asked.right = 0 THEN asked.left ELSE asked.left % asked.right)
            /\ Quotient(s) = (IF asked.op = "wrmpyb" THEN asked.quotient
                              ELSE IF asked.right = 0 THEN MaxWord ELSE asked.left \div asked.right)
        BY <2>2, <3>1 DEF Product, Quotient
      <4>3. ~(age < time)
        BY <1>0, <1>4, <3>2
      <4> QED BY <2>2, <2>3, <3>2, <4>1, <4>2, <4>3
    <3>3. CASE age < time
      <4>1. ~(n >= s.mathLeft) /\ ~(age >= time) /\ age = asked.age + n
        BY <1>0, <1>4, <3>1, <3>3
      <4>2. r.mathLeft = s.mathLeft - n /\ r.product = s.product /\ r.quotient = s.quotient
        BY <2>4, <4>1 DEF Counted
      <4>3. r.mathLeft = time - age
        BY <1>0, <3>1, <4>1, <4>2
      <4> QED BY <2>2, <2>3, <3>1, <3>3, <4>1, <4>2, <4>3
    <3> QED BY <1>0, <1>4, <3>2, <3>3
  <2> QED BY <1>0, <2>5, <2>6
<1>6. SumOf(r, new)
  BY <1>0, <1>3, <1>4, <1>5 DEF SumOf
<1>7. SumInv'
  BY <1>1, <1>2, <1>6 DEF SumInv, SumOf
<1> QED BY <1>1, <1>7 DEF r

-----------------------------------------------------------------------------
(* What an instruction's access writes.                                    *)

(* An instruction's access, and what it does not touch. *)

\* r is s after an instruction's access.
Performs(r, s, op) ==
  /\ IsConsole(r) /\ r.h = s.h /\ r.v = s.v /\ r.joyLeft = s.joyLeft /\ r.pad = s.pad
  /\ r.nmiFlag = (IF op.kind = "rdnmi" THEN 0 ELSE s.nmiFlag)
  /\ r.timeup = (IF op.kind = "timeup" THEN 0 ELSE s.timeup)
  /\ r.nmiPending = (IF op.kind = "nmitimen" /\ op.nmi = 1 /\ s.nmiFlag = 1 THEN 1 ELSE s.nmiPending)
  /\ r.irq = (IF op.kind = "nmitimen" THEN op.irq ELSE s.irq)
  /\ r.htime = (IF op.kind = "timer" THEN op.htime ELSE s.htime)
  /\ r.vtime = (IF op.kind = "timer" THEN op.vtime ELSE s.vtime)
  /\ r.strobe = (IF op.kind = "strobe" THEN op.value ELSE s.strobe)
  /\ r.hdmaOn = (IF op.kind = "hdmaen" THEN op.value ELSE s.hdmaOn)
  /\ r.barrier = (IF op.kind = "unsupported" THEN 1 ELSE s.barrier)
  /\ r.shift = (CASE op.kind = "strobe" /\ (op.value = 1 \/ s.strobe # op.value) -> s.pad
                  [] op.kind = "serial" /\ s.strobe # 1 -> (2 * s.shift + 1) % PadRange
                  [] OTHER -> s.shift)
  /\ r.product = s.product /\ r.quotient = s.quotient
  /\ op.kind \notin {"wrmpyb", "wrdivb"} =>
       r.divides = s.divides /\ r.left = s.left /\ r.right = s.right /\ r.mathLeft = s.mathLeft
  /\ op.kind = "wrmpyb" =>
       r.divides = 0 /\ r.left = s.wrmpya /\ r.right = op.value /\ r.mathLeft = MulCycles
  /\ op.kind = "wrdivb" =>
       r.divides = 1 /\ r.left = s.wrdiv /\ r.right = op.value /\ r.mathLeft = DivCycles

\* An access writes what its register is for.
LEMMA PerformFields ==
  ASSUME NEW s, IsConsole(s), NEW op
  PROVE  Performs(Perform(op, s), s, op)
<1> DEFINE r == Perform(op, s)
<1> USE DEF Performs, IsConsole, Fields, Settings, Polled, Computed, Channelled, Raised
<1>1. CASE op.kind = "nmitimen"
  <2>1. r = WriteNmitimen(s, op.nmi, op.irq, op.joy)
    BY <1>1 DEF Perform
  <2>2. /\ IsConsole(r) /\ Untouched(r, s, {"nmiOn", "irq", "joyOn", "nmiPending"})
        /\ r.irq = op.irq /\ r.nmiPending = (IF op.nmi = 1 /\ s.nmiFlag = 1 THEN 1 ELSE s.nmiPending)
    BY <2>1 DEF Untouched, WriteNmitimen
  <2> HIDE DEF r
  <2> QED BY <1>1, <2>2 DEF Untouched, r
<1>2. CASE op.kind = "timer"
  <2>1. r = WriteTimer(s, op.htime, op.vtime)
    BY <1>2 DEF Perform
  <2>2. /\ IsConsole(r) /\ Untouched(r, s, {"htime", "vtime"})
        /\ r.htime = op.htime /\ r.vtime = op.vtime
    BY <2>1 DEF Untouched, WriteTimer
  <2> HIDE DEF r
  <2> QED BY <1>2, <2>2 DEF Untouched, r
<1>3. CASE op.kind = "rdnmi"
  <2>1. r = ReadRdnmi(s)
    BY <1>3 DEF Perform
  <2> QED BY <1>3, <2>1 DEF ReadRdnmi
<1>4. CASE op.kind = "timeup"
  <2>1. r = ReadTimeup(s)
    BY <1>4 DEF Perform
  <2> QED BY <1>4, <2>1 DEF ReadTimeup
<1>5. CASE op.kind = "wrmpya"
  <2>1. r = [s EXCEPT !.wrmpya = op.value]
    BY <1>5 DEF Perform
  <2> QED BY <1>5, <2>1
<1>6. CASE op.kind = "wrdiv"
  <2>1. r = [s EXCEPT !.wrdiv = op.value]
    BY <1>6 DEF Perform
  <2> QED BY <1>6, <2>1
<1>7. CASE op.kind = "wrmpyb"
  <2>1. r = WriteMultiplier(s, op.value)
    BY <1>7 DEF Perform
  <2>2. /\ IsConsole(r) /\ Untouched(r, s, {"divides", "left", "right", "mathLeft"})
        /\ r.divides = 0 /\ r.left = s.wrmpya /\ r.right = op.value /\ r.mathLeft = MulCycles
    <3>1. r = [s EXCEPT !.divides = 0, !.left = s.wrmpya, !.right = op.value, !.mathLeft = MulCycles]
      BY <2>1 DEF WriteMultiplier
    <3> HIDE DEF r
    <3>2. r.divides = 0 /\ r.left = s.wrmpya /\ r.right = op.value /\ r.mathLeft = MulCycles
      BY <3>1
    <3>3. Untouched(r, s, {"divides", "left", "right", "mathLeft"})
      BY <3>1 DEF Untouched
    <3>4. IsConsole(r)
      BY <3>1
    <3> QED BY <3>2, <3>3, <3>4
  <2> HIDE DEF r
  <2> QED BY <1>7, <2>2 DEF Untouched, r
<1>8. CASE op.kind = "wrdivb"
  <2>1. r = WriteDivisor(s, op.value)
    BY <1>8 DEF Perform
  <2>2. /\ IsConsole(r) /\ Untouched(r, s, {"divides", "left", "right", "mathLeft"})
        /\ r.divides = 1 /\ r.left = s.wrdiv /\ r.right = op.value /\ r.mathLeft = DivCycles
    <3>1. r = [s EXCEPT !.divides = 1, !.left = s.wrdiv, !.right = op.value, !.mathLeft = DivCycles]
      BY <2>1 DEF WriteDivisor
    <3> HIDE DEF r
    <3>2. r.divides = 1 /\ r.left = s.wrdiv /\ r.right = op.value /\ r.mathLeft = DivCycles
      BY <3>1
    <3>3. Untouched(r, s, {"divides", "left", "right", "mathLeft"})
      BY <3>1 DEF Untouched
    <3>4. IsConsole(r)
      BY <3>1
    <3> QED BY <3>2, <3>3, <3>4
  <2> HIDE DEF r
  <2> QED BY <1>8, <2>2 DEF Untouched, r
<1>9. CASE op.kind = "strobe"
  <2>1. r = WriteJoyStrobe(s, op.value)
    BY <1>9 DEF Perform
  <2>2. /\ IsConsole(r) /\ Untouched(r, s, {"shift", "strobe"})
        /\ r.strobe = op.value /\ r.shift = (IF op.value = 1 \/ s.strobe # op.value THEN s.pad ELSE s.shift)
    BY <2>1 DEF Untouched, WriteJoyStrobe
  <2> HIDE DEF r
  <2> QED BY <1>9, <2>2 DEF Untouched, r
<1>10. CASE op.kind = "serial"
  <2>1. r = ReadJoySerial(s)
    BY <1>10 DEF Perform
  <2>2. CASE s.strobe = 1
    BY <1>10, <2>1, <2>2 DEF ReadJoySerial
  <2>3. CASE s.strobe # 1
    BY <1>10, <2>1, <2>3 DEF ReadJoySerial
  <2> QED BY <2>2, <2>3
<1>11. CASE op.kind = "hdmaen"
  <2>1. r = WriteHdmaen(s, op.value)
    BY <1>11 DEF Perform
  <2>2. /\ IsConsole(r) /\ Untouched(r, s, {"hdmaOn", "hdma"})
        /\ r.hdmaOn = op.value
    BY <2>1 DEF Untouched, WriteHdmaen
  <2> HIDE DEF r
  <2> QED BY <1>11, <2>2 DEF Untouched, r
<1>12. CASE op.kind = "unsupported"
  <2>1. r = ReadUnsupported(s)
    BY <1>12 DEF Perform
  <2> QED BY <1>12, <2>1 DEF ReadUnsupported
<1>13. CASE op.kind \notin {"nmitimen", "timer", "rdnmi", "timeup", "wrmpya", "wrdiv", "wrmpyb", "wrdivb",
                            "strobe", "serial", "hdmaen", "unsupported"}
  <2>1. r = s
    BY <1>13 DEF Perform
  <2> QED BY <1>13, <2>1
<1> QED BY <1>1, <1>2, <1>3, <1>4, <1>5, <1>6, <1>7, <1>8, <1>9, <1>10, <1>11, <1>12, <1>13

\* Operands fit their registers.
LEMMA OperandsAre ==
  ASSUME NEW op \in Instructions
  PROVE  /\ op.kind = "nmitimen" => op.irq \in 0 .. 3
         /\ op.kind = "timer" => op.htime \in Nat /\ op.vtime \in Nat
         /\ op.kind \in {"strobe", "hdmaen", "mask"} => op.value \in 0 .. 1
BY DEF Instructions

\* An access keeps the registers in range.
LEMMA PerformSteady ==
  ASSUME NEW s, Steady(s), NEW op \in Instructions
  PROVE  Steady(Perform(op, s))
<1> DEFINE r == Perform(op, s)
<1>1. IsConsole(s) /\ s.shift \in 0 .. PadRange - 1 /\ s.pad \in PadValues
      /\ PadRange \in Nat \ {0} /\ PadValues \subseteq 0 .. PadRange - 1
      /\ s.joyLeft \in 0 .. JoyCycles /\ s.mathLeft \in 0 .. DivCycles
      /\ JoyCycles \in Nat /\ DivCycles \in Nat /\ MulCycles \in 1 .. DivCycles
      /\ s.h \in 0 .. LineCycles - 1 /\ s.v \in 0 .. Lines - 1 /\ s.htime \in Nat /\ s.vtime \in Nat
      /\ s.irq \in 0 .. 3
  BY TimingAssumption DEF Steady, OnBeam
<1>2. /\ s.timeup \in 0 .. 1 /\ s.nmiFlag \in 0 .. 1 /\ s.nmiPending \in 0 .. 1
      /\ s.strobe \in 0 .. 1 /\ s.hdmaOn \in 0 .. 1 /\ s.barrier \in 0 .. 1
  BY DEF Steady, Flags
<1>3. Performs(r, s, op)
  BY <1>1, PerformFields
<1> USE DEF Performs
<1> HIDE DEF r
<1>4. \A f \in Flags : r[f] \in 0 .. 1
  BY <1>2, <1>3, OperandsAre DEF Flags
<1>5. r.shift \in 0 .. PadRange - 1
  <2>1. (2 * s.shift + 1) % PadRange \in 0 .. PadRange - 1
    BY <1>1
  <2> QED BY <1>1, <1>3, <2>1
<1>6. r.mathLeft \in 0 .. DivCycles /\ r.joyLeft \in 0 .. JoyCycles
  BY <1>1, <1>3
<1>7. r.irq \in 0 .. 3 /\ r.htime \in Nat /\ r.vtime \in Nat /\ r.h \in 0 .. LineCycles - 1 /\ r.v \in 0 .. Lines - 1
  BY <1>1, <1>3, OperandsAre
<1>8. OnBeam(r)
  BY <1>1, <1>3, <1>6, <1>7 DEF OnBeam
<1> QED BY <1>1, <1>3, <1>4, <1>5, <1>6, <1>7, <1>8 DEF Steady, r

\* An access that asks for a result is remembered as it was asked.
LEMMA PerformAsks ==
  ASSUME ClockInv, io.barrier = 0, NEW op \in Instructions
  PROVE  SumOf(Perform(op, io), Asked(op))
<1> DEFINE r == Perform(op, io)
           asked == Asked(op)
<1>0. IsConsole(io) /\ DivCycles \in Nat /\ MulCycles \in 1 .. DivCycles
  BY TimingAssumption DEF ClockInv, Steady, OnBeam
<1>1. Performs(r, io, op)
  BY <1>0, PerformFields
<1> USE DEF Performs
<1>2. SumOf(io, sum)
  BY DEF ClockInv, SumInv
<1> HIDE DEF r
<1>3. CASE op.kind \notin {"wrmpyb", "wrdivb"}
  <2>1. asked = sum
    BY <1>3 DEF Asked
  <2>2. SumOf(r, sum)
    BY <1>1, <1>2, <1>3 DEF SumOf
  <2> QED BY <2>1, <2>2 DEF r
<1>4. CASE op.kind = "wrmpyb"
  <2>1. asked = [op |-> "wrmpyb", left |-> io.wrmpya, right |-> op.value, age |-> 0,
                 product |-> io.product, quotient |-> io.quotient]
    BY <1>4 DEF Asked
  <2> HIDE DEF asked
  <2>2. SumOf(r, asked)
    BY <1>0, <1>1, <1>4, <2>1 DEF SumOf
  <2> QED BY <2>2 DEF r, asked
<1>5. CASE op.kind = "wrdivb"
  <2>1. asked = [op |-> "wrdivb", left |-> io.wrdiv, right |-> op.value, age |-> 0,
                 product |-> io.product, quotient |-> io.quotient]
    BY <1>5 DEF Asked
  <2> HIDE DEF asked
  <2>2. SumOf(r, asked)
    BY <1>0, <1>1, <1>5, <2>1 DEF SumOf
  <2> QED BY <2>2 DEF r, asked
<1> QED BY <1>3, <1>4, <1>5

-----------------------------------------------------------------------------
(* What a waited line does to the timers.                                  *)

\* The lines until y begins are one fewer on the next line.
LEMMA UntilFalls ==
  ASSUME NEW s, NEW r, NEW y \in 0 .. Lines - 1, s.v \in 0 .. Lines - 1, r.v = (s.v + 1) % Lines
  PROVE  /\ Until(s, y) \in 1 .. Lines
         /\ s.v # y => Until(s, y) \in 1 .. Lines - 1
         /\ IF r.v = y THEN Until(s, y) = 1 ELSE Until(r, y) = Until(s, y) - 1
<1>1. Lines \in Nat \ {0}
  BY TimingAssumption
<1>2. r.v = IF s.v + 1 = Lines THEN 0 ELSE s.v + 1
  BY <1>1
<1> QED BY <1>1, <1>2 DEF Until

\* A line's cycles from anywhere on a line.
LEMMA LinePasses ==
  ASSUME NEW s, Steady(s), s.barrier = 0,
         NEW r, r = dkc2_snes_io_advance_master_cycles(s, LineCycles), r.barrier = 0
  PROVE  LET y == (s.v + 1) % Lines IN
         /\ r.h = s.h /\ r.v = y
         /\ r.nmiPending = (IF y = VBlankStart /\ s.nmiOn = 1 THEN 1 ELSE s.nmiPending)
         /\ r.timeup = (IF \/ LineMatches(s, y) \/ PassesHTime(s, LineCycles)
                           \/ PassesHTime([s EXCEPT !.h = 0, !.v = y], s.h)
                        THEN 1 ELSE s.timeup)
<1> DEFINE t == NextStart(s)
           y == (s.v + 1) % Lines
           u == [s EXCEPT !.h = 0, !.v = y]
<1>0. LineCycles \in Nat \ {0} /\ s.h \in 0 .. LineCycles - 1 /\ OnBeam(s) /\ IsConsole(s)
  BY TimingAssumption DEF Steady, OnBeam
<1>1. LineCycles - (LineCycles - s.h) = s.h /\ LineCycles # 0 /\ s.h + LineCycles >= LineCycles /\ s.h \in Nat
      /\ LineCycles \in Nat
  BY <1>0
<1>2. r = dkc2_snes_io_advance_master_cycles(t, s.h)
  <2>1. dkc2_snes_io_advance_master_cycles(s, LineCycles)
          = dkc2_snes_io_advance_master_cycles(t, LineCycles - (LineCycles - s.h))
    BY <1>0, <1>1, AdvanceIs DEF NextStart
  <2> QED BY <1>1, <2>1
<1>3. /\ Steady(t) /\ SameSettings(t, s) /\ t.h = 0 /\ t.v = y
      /\ t.nmiPending = (IF y = VBlankStart /\ s.nmiOn = 1 THEN 1 ELSE s.nmiPending)
      /\ t.timeup = (IF LineMatches(s, y) \/ PassesHTime(s, LineCycles) THEN 1 ELSE s.timeup)
  BY NextSteady
<1>4. PassesHTime(u, s.h) <=> PassesHTime(t, s.h)
  <2>1. /\ u.irq = s.irq /\ u.htime = s.htime /\ u.vtime = s.vtime /\ u.h = 0 /\ u.v = y
    BY <1>0 DEF IsConsole, Fields, Settings
  <2>2. t.irq = s.irq /\ t.htime = s.htime /\ t.vtime = s.vtime
    BY <1>3 DEF SameSettings, Settings
  <2> HIDE DEF t, u
  <2> QED BY <1>3, <2>1, <2>2 DEF PassesHTime, irq_h_time
<1> HIDE DEF t, u, y
<1>5. OnBeam(t) /\ t.barrier \in 0 .. 1
  BY <1>3 DEF Steady, Flags
<1>6. CASE s.h = 0
  <2>1. r = t
    BY <1>1, <1>2, <1>5, <1>6, AdvanceIs
  <2>2. ~PassesHTime(t, s.h)
    <3>1. irq_h_time(t) \in Nat
      BY <1>5, TimerIsNat
    <3> QED BY <1>3, <1>6, <3>1 DEF PassesHTime
  <2> QED BY <1>3, <1>4, <1>6, <2>1, <2>2 DEF y, u
<1>7. CASE s.h # 0
  <2>1. t.barrier # 1
    BY <1>1, <1>2, <1>5, AdvanceIs
  <2>2. t.h + s.h = s.h /\ s.h < LineCycles
    BY <1>0, <1>3
  <2>3. r = Passed(t, s.h)
    BY <1>1, <1>2, <1>5, <1>7, <2>1, <2>2, AdvanceIs
  <2> DEFINE p == Passed(t, s.h)
  <2>4. PassesTo(p, t, s.h)
    BY <1>1, <1>5, PassedFields
  <2> USE DEF PassesTo
  <2> HIDE DEF p
  <2>5. p.v = t.v /\ p.nmiPending = t.nmiPending
    BY <2>4 DEF Untouched, Fields, Settings, Polled, Computed, Channelled, Raised
  <2>6. r.h = s.h /\ r.v = (s.v + 1) % Lines
    BY <1>3, <2>2, <2>3, <2>4, <2>5 DEF y, p
  <2>7. r.timeup = (IF PassesHTime(u, s.h) THEN 1 ELSE t.timeup)
    BY <1>4, <2>2, <2>3, <2>4 DEF p
  <2> QED BY <1>3, <2>3, <2>5, <2>6, <2>7 DEF y, u, p
<1> QED BY <1>6, <1>7

\* A timer that can be reached is at most a frame away.
LEMMA UntilTimerBounds ==
  ASSUME NEW s, Steady(s), Reachable(s)
  PROVE  UntilTimer(s) \in 1 .. Lines
<1>1. /\ Lines \in Nat \ {0} /\ s.v \in 0 .. Lines - 1 /\ s.h \in 0 .. LineCycles - 1 /\ s.irq \in 1 .. 3
      /\ s.vtime \in Nat
  BY TimingAssumption DEF Steady, OnBeam, Reachable
<1>2. irq_h_time(s) \in Nat
  BY TimerIsNat DEF Steady
<1>3. CASE s.irq = 1
  BY <1>1, <1>3 DEF UntilTimer
<1>4. CASE s.irq \in {2, 3}
  <2>1. s.vtime \in 0 .. Lines - 1
    BY <1>1, <1>4 DEF Reachable
  <2>2. /\ Until(s, s.vtime) \in 1 .. Lines
        /\ s.v # s.vtime => Until(s, s.vtime) \in 1 .. Lines - 1
    BY <1>1, <2>1 DEF Until
  <2>3. CASE s.irq = 2
    BY <2>2, <2>3 DEF UntilTimer
  <2>4. CASE s.irq = 3 /\ irq_h_time(s) <= s.h
    BY <2>2, <2>4 DEF UntilTimer
  <2>5. CASE s.irq = 3 /\ ~(irq_h_time(s) <= s.h) /\ s.v = s.vtime
    BY <1>1, <2>5 DEF UntilTimer
  <2>6. CASE s.irq = 3 /\ ~(irq_h_time(s) <= s.h) /\ s.v # s.vtime
    <3>1. UntilTimer(s) = Until(s, s.vtime) + 1
      BY <2>6 DEF UntilTimer
    <3> QED BY <1>1, <2>2, <2>6, <3>1
  <2> QED BY <1>4, <2>3, <2>4, <2>5, <2>6
<1> QED BY <1>1, <1>3, <1>4

\* A waited line passes the timer or brings it a line nearer.
LEMMA TimerNears ==
  ASSUME NEW s, Steady(s), s.barrier = 0, Reachable(s),
         NEW r, r = dkc2_snes_io_advance_master_cycles(s, LineCycles), r.barrier = 0, SameSettings(r, s)
         , r.vtime = s.vtime
  PROVE  r.timeup = 1 \/ UntilTimer(r) = UntilTimer(s) - 1
<1> DEFINE y == (s.v + 1) % Lines
           u == [s EXCEPT !.h = 0, !.v = y]
           ht == irq_h_time(s)
<1>0. /\ Lines \in Nat \ {0} /\ s.v \in 0 .. Lines - 1 /\ s.h \in 0 .. LineCycles - 1 /\ s.irq \in 1 .. 3
      /\ s.vtime \in Nat /\ LineCycles \in Nat /\ IsConsole(s)
  BY TimingAssumption DEF Steady, OnBeam, Reachable
<1>1. ht \in Nat /\ (ht = 0 <=> s.htime = 0)
  BY TimerIsNat DEF Steady
<1>2. /\ r.h = s.h /\ r.v = y
      /\ r.timeup = (IF LineMatches(s, y) \/ PassesHTime(s, LineCycles) \/ PassesHTime(u, s.h)
                     THEN 1 ELSE s.timeup)
  BY LinePasses
<1>3. r.irq = s.irq /\ irq_h_time(r) = ht
  BY DEF SameSettings, Settings, irq_h_time
<1>4. u.irq = s.irq /\ u.vtime = s.vtime /\ irq_h_time(u) = ht /\ u.h = 0 /\ u.v = y
  BY <1>0 DEF IsConsole, Fields, Settings, irq_h_time
<1> HIDE DEF ht, u, y
<1>5. CASE s.irq = 1
  <2>1. ht < LineCycles
    BY <1>5 DEF Reachable, ht
  <2>2. ht = 0 => LineMatches(s, y)
    BY <1>1, <1>5 DEF LineMatches
  <2>3. s.h < ht => PassesHTime(s, LineCycles)
    BY <1>0, <1>1, <1>5, <2>1 DEF PassesHTime, ht
  <2>4. ht # 0 /\ ht <= s.h => PassesHTime(u, s.h)
    BY <1>0, <1>1, <1>4, <1>5, <2>1 DEF PassesHTime
  <2> QED BY <1>0, <1>1, <1>2, <2>2, <2>3, <2>4
<1>6. CASE s.irq = 2
  <2>1. s.vtime \in 0 .. Lines - 1
    BY <1>0, <1>6 DEF Reachable
  <2>2. IF y = s.vtime THEN Until(s, s.vtime) = 1 ELSE Until(r, s.vtime) = Until(s, s.vtime) - 1
    <3>1. r.v = (s.v + 1) % Lines
      BY <1>2 DEF y
    <3>2. IF r.v = s.vtime THEN Until(s, s.vtime) = 1 ELSE Until(r, s.vtime) = Until(s, s.vtime) - 1
      BY <1>0, <2>1, <3>1, UntilFalls
    <3> QED BY <1>2, <3>2
  <2>3. y = s.vtime => LineMatches(s, y)
    BY <1>6 DEF LineMatches
  <2>4. UntilTimer(s) = Until(s, s.vtime) /\ UntilTimer(r) = Until(r, s.vtime)
    BY <1>3, <1>6 DEF UntilTimer
  <2> QED BY <1>2, <2>2, <2>3, <2>4
<1>7. CASE s.irq = 3
  <2>1. s.vtime \in 0 .. Lines - 1 /\ ht < LineCycles
    BY <1>0, <1>7 DEF Reachable, ht
  <2>2. /\ Until(s, s.vtime) \in 1 .. Lines
        /\ IF y = s.vtime THEN Until(s, s.vtime) = 1 ELSE Until(r, s.vtime) = Until(s, s.vtime) - 1
    <3>1. r.v = (s.v + 1) % Lines
      BY <1>2 DEF y
    <3>2. /\ Until(s, s.vtime) \in 1 .. Lines
          /\ IF r.v = s.vtime THEN Until(s, s.vtime) = 1 ELSE Until(r, s.vtime) = Until(s, s.vtime) - 1
      BY <1>0, <2>1, <3>1, UntilFalls
    <3> QED BY <1>2, <3>2
  <2>3. CASE ht <= s.h
    <3>1. UntilTimer(s) = Until(s, s.vtime) /\ UntilTimer(r) = Until(r, s.vtime)
      BY <1>2, <1>3, <1>7, <2>3 DEF UntilTimer, ht
    <3>2. y = s.vtime /\ ht = 0 => LineMatches(s, y)
      BY <1>1, <1>7 DEF LineMatches
    <3>3. y = s.vtime /\ ht # 0 => PassesHTime(u, s.h)
      BY <1>0, <1>1, <1>4, <1>7, <2>1, <2>3 DEF PassesHTime
    <3> QED BY <1>2, <2>2, <3>1, <3>2, <3>3
  <2>4. CASE ~(ht <= s.h) /\ s.v = s.vtime
    <3>1. PassesHTime(s, LineCycles)
      BY <1>0, <1>1, <1>7, <2>1, <2>4 DEF PassesHTime, ht
    <3> QED BY <1>2, <3>1
  <2>5. CASE ~(ht <= s.h) /\ s.v # s.vtime
    <3>1. UntilTimer(s) = Until(s, s.vtime) + 1
      BY <1>7, <2>5 DEF UntilTimer, ht
    <3>2. UntilTimer(r) = IF y = s.vtime THEN 1 ELSE Until(r, s.vtime) + 1
      BY <1>2, <1>3, <1>7, <2>5 DEF UntilTimer
    <3>3. CASE y = s.vtime
      BY <1>0, <2>2, <3>1, <3>2, <3>3
    <3>4. CASE y # s.vtime
      <4>1. Until(r, s.vtime) = Until(s, s.vtime) - 1 /\ UntilTimer(r) = Until(r, s.vtime) + 1
        BY <2>2, <3>2, <3>4
      <4>2. Until(s, s.vtime) \in Int
        BY <1>0, <2>2
      <4> QED BY <3>1, <4>1, <4>2
    <3> QED BY <3>3, <3>4
  <2> QED BY <2>3, <2>4, <2>5
<1> QED BY <1>0, <1>5, <1>6, <1>7

-----------------------------------------------------------------------------
(* The steps.                                                              *)

\* The waiting's facts of the next state.
LEMMA NextWait == WaitInv' <=> WaitOf(io', cpu', waited')
BY DEF WaitInv, WaitOf, Reachable, irq_h_time, Until, UntilTimer

\* The arithmetic's facts of the next state.
LEMMA NextSum == SumInv' <=> SumOf(io', sum')
BY DEF SumInv, SumOf

\* Nothing has been waited for yet.
LEMMA FreshWait ==
  ASSUME NEW s, Steady(s), NEW c, c.waiting \in 0 .. 1
  PROVE  WaitOf(s, c, 0)
<1>1. /\ Lines \in Nat \ {0} /\ s.v \in 0 .. Lines - 1 /\ VBlankStart \in 1 .. Lines - 1
  BY TimingAssumption DEF Steady, OnBeam
<1>2. Until(s, VBlankStart) \in 1 .. Lines
  BY <1>1 DEF Until
<1>3. Reachable(s) => UntilTimer(s) \in 1 .. Lines
  BY UntilTimerBounds
<1> QED BY <1>1, <1>2, <1>3 DEF WaitOf

\* A line that raises nothing leaves a line less to wait.
LEMMA WaitOn ==
  ASSUME NEW s, Steady(s), s.barrier = 0, s.nmiPending = 0, NEW c, c.waiting = 1,
         s.timeup = 1 => c.masked # 0,
         NEW w, WaitOf(s, c, w),
         NEW r, r = dkc2_snes_io_advance_master_cycles(s, LineCycles)
  PROVE  WaitOf(r, c, Min({w + 1, Lines + 1}))
<1> DEFINE x == Min({w + 1, Lines + 1})
           y == (s.v + 1) % Lines
<1>0. /\ Lines \in Nat \ {0} /\ s.v \in 0 .. Lines - 1 /\ VBlankStart \in 1 .. Lines - 1 /\ LineCycles \in Nat
      /\ w \in Nat
  BY TimingAssumption DEF Steady, OnBeam, WaitOf
<1>1. x = IF w + 1 < Lines + 1 THEN w + 1 ELSE Lines + 1
  BY <1>0 DEF Min
<1> HIDE DEF x
<1>2. x \in Nat /\ (w <= Lines => x <= w + 1)
  BY <1>0, <1>1
<1>3. Steady(r) /\ SameSettings(r, s)
  BY <1>0, AdvanceSteady
<1>4. r.nmiOn = s.nmiOn /\ r.irq = s.irq /\ r.vtime = s.vtime /\ irq_h_time(r) = irq_h_time(s)
  BY <1>3 DEF SameSettings, Settings, irq_h_time
<1>5. s.timeup \in 0 .. 1 /\ r.barrier \in 0 .. 1
  BY <1>3 DEF Steady, Flags
<1>6. ASSUME r.nmiOn = 1
      PROVE  /\ x <= Lines
             /\ r.barrier = 0 /\ r.nmiPending = 0 => x + Until(r, VBlankStart) <= Lines
  <2>1. w <= Lines /\ w + Until(s, VBlankStart) <= Lines
    BY <1>4, <1>6 DEF WaitOf
  <2>2. Until(s, VBlankStart) \in 1 .. Lines
    BY <1>0 DEF Until
  <2>3. x <= Lines
    BY <1>0, <1>2, <2>1, <2>2
  <2>4. ASSUME r.barrier = 0, r.nmiPending = 0 PROVE x + Until(r, VBlankStart) <= Lines
    <3>1. r.v = y /\ r.nmiPending = (IF y = VBlankStart /\ s.nmiOn = 1 THEN 1 ELSE s.nmiPending)
      BY <2>4, LinePasses
    <3>2. r.v # VBlankStart
      BY <1>4, <1>6, <2>4, <3>1
    <3>3. VBlankStart \in 0 .. Lines - 1
      BY <1>0
    <3>4. Until(r, VBlankStart) = Until(s, VBlankStart) - 1
      BY <1>0, <3>1, <3>2, <3>3, UntilFalls
    <3> QED BY <1>0, <1>2, <2>1, <2>2, <3>4
  <2> QED BY <2>3, <2>4
<1>7. ASSUME c.masked = 0, Reachable(r)
      PROVE  /\ x <= Lines
             /\ r.barrier = 0 /\ r.timeup = 0 => x + UntilTimer(r) <= Lines
  <2>1. Reachable(s)
    BY <1>4, <1>7 DEF Reachable
  <2>2. s.timeup = 0
    BY <1>5, <1>7
  <2>3. w <= Lines /\ w + UntilTimer(s) <= Lines
    BY <1>7, <2>1, <2>2 DEF WaitOf
  <2>4. UntilTimer(s) \in 1 .. Lines
    BY <2>1, UntilTimerBounds
  <2>5. x <= Lines
    BY <1>0, <1>2, <2>3, <2>4
  <2>6. ASSUME r.barrier = 0, r.timeup = 0 PROVE x + UntilTimer(r) <= Lines
    <3>1. UntilTimer(r) = UntilTimer(s) - 1
      BY <1>3, <1>4, <2>1, <2>6, TimerNears
    <3> QED BY <1>0, <1>2, <2>3, <2>4, <3>1
  <2> QED BY <2>5, <2>6
<1> QED BY <1>2, <1>6, <1>7 DEF WaitOf, x

-----------------------------------------------------------------------------
(* The steps. *)

\* Cycles spent while nobody waits keep the invariant.
LEMMA Served ==
  ASSUME ClockInv, NEW s, Steady(s), NEW asked, SumOf(s, asked), NEW n \in Nat, Spend(s, n, asked),
         cpu'.waiting \in 0 .. 1, waited' = 0, stage' = stage
  PROVE  ClockInv'
<1>1. Steady(io') /\ SumInv'
  BY SpendKeeps DEF Steady, OnBeam, IsConsole, Flags
<1>2. WaitInv'
  BY <1>1, FreshWait, NextWait
<1>3. Steady(io)'
  BY <1>1 DEF Steady, OnBeam, IsConsole, Flags
<1> QED BY <1>1, <1>2, <1>3 DEF ClockInv

\* service_timing_interrupt, for an NMI.
LEMMA NmiKeeps == ASSUME ClockInv, NEW n \in Nat, ServiceNmi(n) PROVE ClockInv'
<1> DEFINE s == dkc2_snes_io_take_nmi
<1>0. Steady(io) /\ SumOf(io, sum) /\ io.nmiPending = 1 /\ IsConsole(io)
  BY DEF ClockInv, SumInv, ServiceNmi, Steady, OnBeam
<1>1. IsConsole(s) /\ Untouched(s, io, {"nmiPending"}) /\ s.nmiPending = 0
  BY <1>0 DEF dkc2_snes_io_take_nmi, IsConsole, Untouched, Fields, Settings, Polled, Computed, Channelled, Raised
<1> HIDE DEF s
<1>2. Steady(s)
  <2>1. /\ s.h = io.h /\ s.v = io.v /\ s.joyLeft = io.joyLeft /\ s.mathLeft = io.mathLeft /\ s.htime = io.htime
        /\ s.vtime = io.vtime /\ s.irq = io.irq /\ s.shift = io.shift /\ s.pad = io.pad
        /\ s.timeup = io.timeup /\ s.nmiFlag = io.nmiFlag /\ s.strobe = io.strobe /\ s.hdmaOn = io.hdmaOn
        /\ s.barrier = io.barrier
    BY <1>1 DEF Untouched, Fields, Settings, Polled, Computed, Channelled, Raised
  <2> QED BY <1>0, <1>1, <2>1 DEF Steady, OnBeam, Flags
<1>3. SumOf(s, sum)
  <2>1. /\ s.barrier = io.barrier /\ s.divides = io.divides /\ s.left = io.left /\ s.right = io.right
        /\ s.mathLeft = io.mathLeft /\ s.product = io.product /\ s.quotient = io.quotient
    BY <1>1 DEF Untouched, Fields, Settings, Polled, Computed, Channelled, Raised
  <2> QED BY <1>0, <2>1 DEF SumOf
<1>4. Spend(s, n, sum) /\ cpu'.waiting \in 0 .. 1 /\ waited' = 0 /\ stage' = stage
  BY DEF ServiceNmi, s
<1> QED BY <1>2, <1>3, <1>4, Served

\* service_timing_interrupt, for an IRQ.
LEMMA IrqKeeps == ASSUME ClockInv, NEW n \in Nat, ServiceIrq(n) PROVE ClockInv'
<1>1. Steady(io) /\ SumOf(io, sum)
  BY DEF ClockInv, SumInv
<1>2. Spend(io, n, sum) /\ cpu'.waiting \in 0 .. 1 /\ waited' = 0 /\ stage' = stage
  BY DEF ServiceIrq
<1> QED BY <1>1, <1>2, Served

\* An instruction.
LEMMA StepKeeps == ASSUME ClockInv, NEW n \in Nat, NEW op \in Instructions, Step(op, n) PROVE ClockInv'
<1>1. io.barrier = 0 /\ cpu.waiting = 0
  BY DEF Step, Looping
<1>2. Steady(Perform(op, io))
  BY PerformSteady DEF ClockInv
<1>3. SumOf(Perform(op, io), Asked(op))
  BY <1>1, PerformAsks
<1>4. Spend(Perform(op, io), n, Asked(op)) /\ cpu'.waiting \in 0 .. 1 /\ stage' = stage
  BY DEF Step
<1>5. waited' = 0
  BY <1>1 DEF ClockInv, WaitInv, WaitOf, Step
<1> QED BY <1>2, <1>3, <1>4, <1>5, Served

\* A line passed by a waiting CPU.
LEMMA WaitKeeps == ASSUME ClockInv, WaitLine PROVE ClockInv'
<1>1. Steady(io) /\ SumOf(io, sum) /\ WaitOf(io, cpu, waited) /\ LineCycles \in Nat
  BY TimingAssumption DEF ClockInv, SumInv, WaitInv
<1>2. /\ io.barrier = 0 /\ io.nmiPending = 0 /\ cpu.waiting = 1 /\ (io.timeup = 1 => cpu.masked # 0)
      /\ Spend(io, LineCycles, sum) /\ waited' = Min({waited + 1, Lines + 1}) /\ cpu' = cpu /\ stage' = stage
  BY DEF WaitLine, Looping, NothingToService, EntersIrq
<1>3. io' = dkc2_snes_io_advance_master_cycles(io, LineCycles) /\ Steady(io') /\ SumInv'
  BY <1>1, <1>2, SpendKeeps DEF Steady, OnBeam, IsConsole, Flags
<1>4. Steady(io)'
  BY <1>3 DEF Steady, OnBeam, IsConsole, Flags
<1>5. WaitOf(io', cpu, Min({waited + 1, Lines + 1}))
  BY <1>1, <1>2, <1>3, WaitOn
<1>6. WaitInv'
  BY <1>2, <1>5, NextWait
<1> QED BY <1>2, <1>3, <1>4, <1>6 DEF ClockInv

\* The loop's end, and steps of no one.
LEMMA StillKeeps == ASSUME ClockInv, io' = io, cpu' = cpu, sum' = sum, waited' = waited, stage' \in {"running", "ended"}
                    PROVE  ClockInv'
<1>1. Steady(io)'
  BY DEF ClockInv, Steady, OnBeam, IsConsole, Flags
<1>2. WaitInv'
  BY NextWait DEF ClockInv, WaitInv
<1>3. SumInv'
  BY NextSum DEF ClockInv, SumInv
<1> QED BY <1>1, <1>2, <1>3 DEF ClockInv

\* Other buttons.
LEMMA PadKeeps == ASSUME ClockInv, NEW p \in PadValues, SetController(p) PROVE ClockInv'
<1> DEFINE s == dkc2_snes_io_set_controller(io, p)
<1>0. Steady(io) /\ SumOf(io, sum) /\ WaitOf(io, cpu, waited) /\ IsConsole(io) /\ p \in 0 .. PadRange - 1
  BY TimingAssumption DEF ClockInv, SumInv, WaitInv, Steady, OnBeam
<1>1. IsConsole(s) /\ Untouched(s, io, {"pad", "shift"}) /\ s.pad = p /\ s.shift = (IF io.strobe = 1 THEN p ELSE io.shift)
  BY <1>0 DEF dkc2_snes_io_set_controller, IsConsole, Untouched, Fields, Settings, Polled, Computed, Channelled, Raised
<1> HIDE DEF s
<1>2. /\ s.h = io.h /\ s.v = io.v /\ s.joyLeft = io.joyLeft /\ s.mathLeft = io.mathLeft /\ s.htime = io.htime
      /\ s.vtime = io.vtime /\ s.irq = io.irq
      /\ s.timeup = io.timeup /\ s.nmiFlag = io.nmiFlag /\ s.strobe = io.strobe /\ s.hdmaOn = io.hdmaOn
      /\ s.barrier = io.barrier /\ s.nmiPending = io.nmiPending /\ s.nmiOn = io.nmiOn
      /\ s.divides = io.divides /\ s.left = io.left /\ s.right = io.right
      /\ s.mathLeft = io.mathLeft /\ s.product = io.product /\ s.quotient = io.quotient
  BY <1>1 DEF Untouched, Fields, Settings, Polled, Computed, Channelled, Raised
<1>3. io' = s /\ cpu' = cpu /\ stage' = stage /\ sum' = sum /\ waited' = waited
  BY DEF SetController, s
<1>4. Steady(s)
  BY <1>0, <1>1, <1>2 DEF Steady, OnBeam, Flags
<1>5. SumOf(s, sum)
  BY <1>0, <1>2 DEF SumOf
<1>6. WaitOf(s, cpu, waited)
  <2>1. Until(s, VBlankStart) = Until(io, VBlankStart) /\ (Reachable(s) <=> Reachable(io)) /\ UntilTimer(s) = UntilTimer(io)
    BY <1>2 DEF Until, UntilTimer, Reachable, irq_h_time
  <2> QED BY <1>0, <1>2, <2>1 DEF WaitOf
<1>7. Steady(io)'
  BY <1>3, <1>4 DEF Steady, OnBeam, IsConsole, Flags
<1>8. SumInv'
  BY <1>3, <1>5, NextSum
<1>9. WaitInv'
  BY <1>3, <1>6, NextWait
<1> QED BY <1>3, <1>7, <1>8, <1>9 DEF ClockInv

\* The console as it is reset.
LEMMA ClockStarts == IoInit([htime : 0 .. 511, vtime : 0 .. 511], PadValues) => ClockInv
<1> SUFFICES ASSUME IoInit([htime : 0 .. 511, vtime : 0 .. 511], PadValues) PROVE ClockInv
  OBVIOUS
<1>1. PICK t \in [htime : 0 .. 511, vtime : 0 .. 511], p \in PadValues, c \in HdmaChannels :
        io = [h |-> 0, v |-> 0, nmiOn |-> 0, irq |-> 0, joyOn |-> 0,
              htime |-> t.htime, vtime |-> t.vtime, timeup |-> 0, nmiFlag |-> 0, nmiPending |-> 0,
              pad |-> p, shift |-> 0, strobe |-> 0, joyLeft |-> 0, joy |-> 0,
              divides |-> 0, left |-> 0, right |-> 0, mathLeft |-> 0, wrmpya |-> 0, wrdiv |-> 0,
              product |-> 0, quotient |-> 0, hdmaOn |-> 0, hdma |-> IdleChannel, channel |-> c,
              regs |-> [high |-> 0, low |-> 0, prev |-> 0, layers |-> 0],
              barrier |-> 0]
  BY DEF IoInit
<1>2. /\ cpu = [waiting |-> 0, masked |-> 1] /\ stage = "running" /\ waited = 0
      /\ sum = [op |-> "none", left |-> 0, right |-> 0, age |-> 0, product |-> 0, quotient |-> 0]
  BY DEF IoInit
<1>3. /\ LineCycles \in Nat /\ LineCycles > 0 /\ Lines \in Nat /\ Lines > 0 /\ JoyCycles \in Nat /\ DivCycles \in Nat
      /\ PadRange \in Nat \ {0}
  BY TimingAssumption
<1>4. IsConsole(io)
  BY <1>1 DEF IsConsole, Fields, Settings, Polled, Computed, Channelled, Raised
<1>5. OnBeam(io)
  BY <1>1, <1>3, <1>4 DEF OnBeam
<1>6. Steady(io)
  BY <1>1, <1>3, <1>5 DEF Steady, Flags
<1>7. WaitInv
  BY <1>2, <1>6, FreshWait DEF WaitInv
<1>8. SumInv
  BY <1>2, <1>3 DEF SumInv, SumOf
<1> QED BY <1>2, <1>6, <1>7, <1>8 DEF ClockInv

\* Every step keeps the invariant.
LEMMA ClockStays == ClockInv /\ [IoNext(Instructions, Nat) \/ \E p \in PadValues : SetController(p)]_ioVars => ClockInv'
<1> SUFFICES ASSUME ClockInv, [IoNext(Instructions, Nat) \/ \E p \in PadValues : SetController(p)]_ioVars
             PROVE  ClockInv'
  OBVIOUS
<1>1. ASSUME NEW n \in Nat, ServiceNmi(n) PROVE ClockInv'
  BY <1>1, NmiKeeps
<1>2. ASSUME NEW n \in Nat, ServiceIrq(n) PROVE ClockInv'
  BY <1>2, IrqKeeps
<1>3. ASSUME NEW n \in Nat, NEW op \in Instructions, Step(op, n) PROVE ClockInv'
  BY <1>3, StepKeeps
<1>4. CASE WaitLine
  BY <1>4, WaitKeeps
<1>5. CASE GiveUp
  BY <1>5, StillKeeps DEF GiveUp
<1>6. ASSUME NEW p \in PadValues, SetController(p) PROVE ClockInv'
  BY <1>6, PadKeeps
<1>7. CASE UNCHANGED ioVars
  BY <1>7, StillKeeps DEF ioVars, ClockInv
<1> QED BY <1>1, <1>2, <1>3, <1>4, <1>5, <1>6, <1>7 DEF IoNext

\* The registers and the beam stay in range, whatever the program writes and
\* however much it pays at once (IoTypeOK).
THEOREM IoTypeCorrect == IoSpec => []IoTypeOK
<1>1. IoSpec => []ClockInv
  BY ClockStarts, ClockStays, PTL DEF IoSpec
<1>2. ClockInv => IoTypeOK
  BY ClockFollows
<1> QED BY <1>1, <1>2, PTL

\* For every program, every length of line and frame and every payment, of none
\* to any number of frames at once: dkc2_snes_io_advance_master_cycles does what
\* its cycles do one at a time; results come when they are due; and a CPU that
\* waits has been woken within a frame by every source left on (ClockKept).
THEOREM ClockKeepsTime == IoSpec => []ClockKept
<1>1. IoSpec => []ClockInv
  BY ClockStarts, ClockStays, PTL DEF IoSpec
<1>2. ClockInv => ClockKept
  BY ClockFollows
<1> QED BY <1>1, <1>2, PTL

-----------------------------------------------------------------------------
(* HDMA, foretold.                                                         *)

\* The first n steps of a run: step i of a state x leads to G[x][i].
Steps(G, a, g, n) == g[0] = a /\ \A i \in 0 .. n - 1 : g[i + 1] = G[g[i]][i]

\* Two runs agree as far as both go.
LEMMA RunsAgree ==
  ASSUME NEW G, NEW a, NEW g, NEW h, NEW n \in Nat, NEW m \in Nat, n <= m, Steps(G, a, g, n), Steps(G, a, h, m)
  PROVE  g[n] = h[n]
<1> DEFINE T == {i \in Nat : i <= n => g[i] = h[i]}
<1>1. 0 \in T
  BY DEF Steps
<1>2. ASSUME NEW i \in Nat, i \in T PROVE i + 1 \in T
  <2>1. CASE i + 1 <= n
    <3>1. i \in 0 .. n - 1 /\ i \in 0 .. m - 1 /\ g[i] = h[i]
      BY <1>2, <2>1
    <3>2. g[i + 1] = G[g[i]][i] /\ h[i + 1] = G[h[i]][i]
      BY <3>1 DEF Steps
    <3> QED BY <3>1, <3>2
  <2> QED BY <2>1
<1>3. Nat \subseteq T
  <2> HIDE DEF T
  <2> QED BY <1>1, <1>2, Induction
<1> QED BY <1>3

\* There is a run of any length.
LEMMA RunExists ==
  ASSUME NEW K, NEW G \in [K -> [Nat -> K]], NEW a \in K, NEW n \in Nat
  PROVE  \E g \in [0 .. n -> K] : Steps(G, a, g, n)
<1> DEFINE T == {k \in Nat : \E g \in [0 .. k -> K] : Steps(G, a, g, k)}
<1>1. 0 \in T
  <2> DEFINE g == [i \in 0 .. 0 |-> a]
  <2>1. g \in [0 .. 0 -> K] /\ Steps(G, a, g, 0)
    BY DEF Steps
  <2> QED BY <2>1
<1>2. ASSUME NEW k \in Nat, k \in T PROVE k + 1 \in T
  <2>1. PICK g \in [0 .. k -> K] : Steps(G, a, g, k)
    BY <1>2
  <2> DEFINE next == G[g[k]][k]
             h == [i \in 0 .. k + 1 |-> IF i = k + 1 THEN next ELSE g[i]]
  <2>2. next \in K
    <3>1. g[k] \in K
      OBVIOUS
    <3> QED BY <3>1
  <2> HIDE DEF next
  <2>3a. ASSUME NEW i \in 0 .. k + 1 PROVE (IF i = k + 1 THEN next ELSE g[i]) \in K
    <3>1. i = k + 1 \/ i \in 0 .. k
      OBVIOUS
    <3> QED BY <2>2, <3>1
  <2>3b. h \in [0 .. k + 1 -> K]
    BY <2>3a
  <2>3c. h[k + 1] = next
    OBVIOUS
  <2>3d. ASSUME NEW i \in 0 .. k PROVE h[i] = g[i]
    <3>1. i \in 0 .. k + 1 /\ i # k + 1
      OBVIOUS
    <3> QED BY <3>1
  <2>3. h \in [0 .. k + 1 -> K] /\ h[k + 1] = next /\ \A i \in 0 .. k : h[i] = g[i]
    BY <2>3b, <2>3c, <2>3d
  <2> HIDE DEF h
  <2>4. h[0] = a
    BY <2>1, <2>3 DEF Steps
  <2>5. ASSUME NEW i \in 0 .. (k + 1) - 1 PROVE h[i + 1] = G[h[i]][i]
    <3>1. CASE i = k
      BY <2>3, <3>1 DEF next
    <3>2. CASE i \in 0 .. k - 1
      <4>1. h[i + 1] = g[i + 1] /\ h[i] = g[i]
        BY <2>3, <3>2, SMTT(20)
      <4> QED BY <2>1, <3>2, <4>1 DEF Steps
    <3> QED BY <3>1, <3>2
  <2>6. Steps(G, a, h, k + 1)
    BY <2>4, <2>5 DEF Steps
  <2> QED BY <2>3, <2>6
<1>3. Nat \subseteq T
  <2> HIDE DEF T
  <2> QED BY <1>1, <1>2, Induction
<1> QED BY <1>3

\* A step that is a function on a set of states.
Stepping(G, K) == G \in [K -> [Nat -> K]]

-----------------------------------------------------------------------------
\* Division leaves a remainder below the divisor, and only one fits.
LEMMA Divided ==
  ASSUME NEW a \in Int, NEW n \in Nat \ {0}
  PROVE  a % n \in 0 .. n - 1 /\ a \div n \in Int /\ a = n * (a \div n) + (a % n)
OBVIOUS

\* Two ways to write a number below a product as quotient and remainder are one.
LEMMA Unique ==
  ASSUME NEW n \in Nat \ {0}, NEW q \in Int, NEW r \in 0 .. n - 1
  PROVE  (n * q + r) % n = r /\ (n * q + r) \div n = q
<1> DEFINE a == n * q + r
           p == a \div n
           s == a % n
<1>1. a \in Int /\ p \in Int /\ s \in 0 .. n - 1 /\ a = n * p + s
  BY Divided
<1>2. n * q + r = n * p + s
  BY <1>1
<1> HIDE DEF a, p, s
<1>3. ~ p >= q + 1
  <2> SUFFICES ASSUME p >= q + 1 PROVE FALSE OBVIOUS
  <2>1. n * (p - q) >= n
    BY <1>1
  <2> QED BY <1>1, <1>2, <2>1
<1>4. ~ q >= p + 1
  <2> SUFFICES ASSUME q >= p + 1 PROVE FALSE OBVIOUS
  <2>1. n * (q - p) >= n
    BY <1>1
  <2> QED BY <1>1, <1>2, <2>1
<1>5. p = q /\ s = r
  BY <1>1, <1>2, <1>3, <1>4
<1> QED BY <1>5 DEF p, s, a

\* A number below the modulus is its own remainder.
LEMMA ModSame ==
  ASSUME NEW n \in Nat \ {0}, NEW a \in 0 .. n - 1
  PROVE  a % n = a /\ a \div n = 0
BY Unique, n * 0 + a = a

-----------------------------------------------------------------------------
(* HDMA: one channel's line, read by the console and by the dry run.       *)

ConsoleChannel ==
    [active : 0 .. 1, transfer : 0 .. 1, repeat : 0 .. 1, lines : 0 .. RepeatBit,
     next : 0 .. BankSize - 1, from : 0 .. BankSize - 1, counter : Bytes]
ScanChannel == [table : 0 .. Nowhere, indirect : 0 .. Nowhere, count : Bytes]
Tables == [0 .. BankSize - 1 -> Bytes]

\* A byte is a bit and a count.
LEMMA BitAndCount ==
  ASSUME NEW x \in Bytes
  PROVE  /\ x % RepeatBit \in 0 .. RepeatBit - 1 /\ x \div RepeatBit \in 0 .. 1
         /\ x % RepeatBit = (IF x < RepeatBit THEN x ELSE x - RepeatBit)
         /\ x \div RepeatBit = (IF x < RepeatBit THEN 0 ELSE 1)
<1> DEFINE n == RepeatBit
<1>1. n \in Nat \ {0} /\ x \in 0 .. 2 * n - 1
  BY TableAssumption DEF Bytes
<1> HIDE DEF n
<1>2. CASE x < n
  <2>1. x \in 0 .. n - 1
    BY <1>1, <1>2
  <2>2. x % n = x /\ x \div n = 0
    BY <1>1, <2>1, ModSame
  <2> QED BY <1>2, <2>1, <2>2 DEF n
<1>3. CASE ~ (x < n)
  <2>1. x - n \in 0 .. n - 1 /\ x = n * 1 + (x - n)
    BY <1>1, <1>3
  <2>2. (n * 1 + (x - n)) % n = x - n /\ (n * 1 + (x - n)) \div n = 1
    BY <1>1, <2>1, Unique
  <2>3. x % n = x - n /\ x \div n = 1
    BY <2>1, <2>2
  <2> QED BY <1>3, <2>1, <2>3 DEF n
<1> QED BY <1>2, <1>3

\* An address beyond the bank is wrapped into it.
LEMMA Wrapped ==
  ASSUME NEW a \in Int
  PROVE  Wrap(a) \in 0 .. BankSize - 1 /\ (a \in 0 .. BankSize - 1 => Wrap(a) = a)
<1>1. BankSize \in Nat \ {0}
  BY TableAssumption
<1>2. a % BankSize \in 0 .. BankSize - 1
  BY <1>1, Divided
<1>3. a \in 0 .. BankSize - 1 => a % BankSize = a
  BY <1>1, ModSame
<1> QED BY <1>2, <1>3 DEF Wrap

\* An indirect address is one of the bank.
LEMMA IndirectFits ==
  ASSUME NEW low \in Bytes, NEW high \in Bytes
  PROVE  Indirect(low, high) \in 0 .. BankSize - 1
<1>1. low + 2 * RepeatBit * high \in Int
  <2>1. RepeatBit \in Int /\ low \in Int /\ high \in Int
    BY TableAssumption DEF Bytes
  <2>2. 2 * RepeatBit * high \in Int
    BY <2>1
  <2> QED BY <2>1, <2>2
<1> QED BY <1>1, Wrapped DEF Indirect

\* Where a read of the console leaves its pointer.
Reload(m, config, c) ==
    LET d == m[c.next]
        after == Wrap(c.next + 1)
    IN IF d = 0
       THEN [active |-> 0, transfer |-> c.transfer, repeat |-> c.repeat, lines |-> c.lines,
             next |-> after, from |-> c.from, counter |-> 0]
       ELSE [active |-> c.active, transfer |-> 1, repeat |-> d \div RepeatBit,
             lines |-> IF d % RepeatBit = 0 THEN RepeatBit ELSE d % RepeatBit,
             next |-> IF config.indirect = 1 THEN Wrap(after + 2) ELSE after,
             from |-> IF config.indirect = 1 THEN Indirect(m[after], m[Wrap(after + 1)]) ELSE c.from,
             counter |-> c.counter]

LEMMA ReloadIs ==
  ASSUME NEW m \in Tables, NEW config \in ChannelSetup, NEW c \in ConsoleChannel
  PROVE  /\ reload_hdma_line_descriptor(m, config, c) = Reload(m, config, c)
         /\ Reload(m, config, c) \in ConsoleChannel
<1> DEFINE d == m[c.next]
           after == Wrap(c.next + 1)
           pair == config.indirect = 1
           next == IF pair THEN Wrap(after + 2) ELSE after
           from == IF pair THEN Indirect(m[after], m[Wrap(after + 1)]) ELSE c.from
           lines == IF d % RepeatBit = 0 THEN RepeatBit ELSE d % RepeatBit
           bit == d \div RepeatBit
<1>1. /\ c.active \in 0 .. 1 /\ c.transfer \in 0 .. 1 /\ c.repeat \in 0 .. 1 /\ c.lines \in 0 .. RepeatBit
      /\ c.next \in 0 .. BankSize - 1 /\ c.from \in 0 .. BankSize - 1 /\ c.counter \in Bytes
      /\ c = [active |-> c.active, transfer |-> c.transfer, repeat |-> c.repeat, lines |-> c.lines,
              next |-> c.next, from |-> c.from, counter |-> c.counter]
  BY DEF ConsoleChannel
<1>2. d \in Bytes /\ after \in 0 .. BankSize - 1 /\ c.next + 1 \in Int /\ BankSize \in Nat \ {0}
  <2>1. d \in Bytes
    BY <1>1 DEF Tables
  <2>2. c.next + 1 \in Int
    BY <1>1
  <2> QED BY <2>1, <2>2, Wrapped, TableAssumption
<1>3. lines \in 0 .. RepeatBit /\ bit \in 0 .. 1
  <2>1. d % RepeatBit \in 0 .. RepeatBit - 1 /\ bit \in 0 .. 1
    BY <1>2, BitAndCount
  <2> QED BY <2>1, TableAssumption
<1>4. next \in 0 .. BankSize - 1
  <2>1. after + 2 \in Int
    BY <1>2
  <2> HIDE DEF after
  <2> QED BY <1>2, <2>1, Wrapped
<1>5. from \in 0 .. BankSize - 1
  <2>1. after + 1 \in Int
    BY <1>2
  <2>2. Wrap(after + 1) \in 0 .. BankSize - 1
    BY <2>1, Wrapped
  <2>3. m[after] \in Bytes /\ m[Wrap(after + 1)] \in Bytes
    BY <1>2, <2>2 DEF Tables
  <2> QED BY <1>1, <2>3, IndirectFits
<1>6. 0 \in Bytes
  BY TableAssumption DEF Bytes
<1>7. reload_hdma_line_descriptor(m, config, c) =
        IF d = 0 THEN [c EXCEPT !.active = 0, !.counter = 0, !.next = after]
        ELSE [c EXCEPT !.repeat = bit, !.lines = lines, !.transfer = 1, !.next = next, !.from = from]
  BY DEF reload_hdma_line_descriptor
<1>8. Reload(m, config, c) =
        IF d = 0
        THEN [active |-> 0, transfer |-> c.transfer, repeat |-> c.repeat, lines |-> c.lines,
             next |-> after, from |-> c.from, counter |-> 0]
        ELSE [active |-> c.active, transfer |-> 1, repeat |-> bit, lines |-> lines,
             next |-> next, from |-> from, counter |-> c.counter]
  BY DEF Reload
<1> HIDE DEF d, after, pair, next, from, lines, bit
<1>9. reload_hdma_line_descriptor(m, config, c) = Reload(m, config, c)
  BY <1>1, <1>7, <1>8
<1>10. Reload(m, config, c) \in ConsoleChannel
  BY <1>1, <1>2, <1>3, <1>4, <1>5, <1>6, <1>8 DEF ConsoleChannel
<1> QED BY <1>9, <1>10

\* The channel as its line finds it, whether it has a line, and where its bytes are.
LineOf(m, config, c) == IF c.lines = 0 THEN Reload(m, config, c) ELSE c
Idle(m, config, c) == config.on = 0 \/ c.active = 0 \/ LineOf(m, config, c).active = 0
ReadsFrom(config, l) == IF config.indirect = 1 THEN l.from ELSE l.next

\* What a line makes of the channel and of the registers.
Ran(m, config, c) ==
    LET l == LineOf(m, config, c)
        left == l.lines - 1
        after == IF l.transfer = 1
                 THEN Wrap(ReadsFrom(config, l) + TransferLength(config.target)) ELSE ReadsFrom(config, l)
    IN IF config.on = 0 \/ c.active = 0 THEN c
       ELSE IF l.active = 0 THEN l
       ELSE [active |-> l.active, transfer |-> IF left # 0 THEN l.repeat ELSE 0, repeat |-> l.repeat,
             lines |-> left, next |-> IF config.indirect = 1 THEN l.next ELSE after,
             from |-> IF config.indirect = 1 THEN after ELSE l.from,
             counter |-> l.repeat * RepeatBit + (left % RepeatBit)]
RanRegisters(m, config, c, regs) ==
    LET l == LineOf(m, config, c)
        source == ReadsFrom(config, l)
    IN IF Idle(m, config, c) \/ l.transfer = 0 THEN regs
       ELSE ApplyWrites(regs, config.target, m[source], m[Wrap(source + 1)])

LEMMA SetupIs ==
  ASSUME NEW config \in ChannelSetup
  PROVE  /\ config.table \in 0 .. BankSize - 1 /\ config.indirect \in 0 .. 1
         /\ config.target \in {"scroll", "layers"} /\ config.on \in 0 .. 1 /\ config.reverse = 0
         /\ TransferLength(config.target) \in 1 .. 2
BY DEF ChannelSetup, TransferLength

LEMMA LineIs ==
  ASSUME NEW m \in Tables, NEW config \in ChannelSetup, NEW c \in ConsoleChannel
  PROVE  /\ LineOf(m, config, c) \in ConsoleChannel
         /\ LineOf(m, config, c).active = 1 => LineOf(m, config, c).lines \in 1 .. RepeatBit
<1> DEFINE l == LineOf(m, config, c)
<1>1. l \in ConsoleChannel
  BY ReloadIs DEF LineOf
<1>2. ASSUME l.active = 1 PROVE l.lines # 0
  <2>1. CASE c.lines # 0
    BY <2>1 DEF LineOf
  <2>2. CASE c.lines = 0
    <3>1. l = Reload(m, config, c)
      BY <2>2 DEF LineOf
    <3> DEFINE d == m[c.next]
    <3>2. d # 0
      BY <1>2, <3>1 DEF Reload
    <3>3. l.lines = IF d % RepeatBit = 0 THEN RepeatBit ELSE d % RepeatBit
      BY <3>1, <3>2 DEF Reload
    <3> QED BY <3>3, TableAssumption
  <2> QED BY <2>1, <2>2
<1>3. l.lines \in 0 .. RepeatBit
  BY <1>1 DEF ConsoleChannel
<1> QED BY <1>1, <1>2, <1>3, TableAssumption

LEMMA RunIs ==
  ASSUME NEW m \in Tables, NEW config \in ChannelSetup, NEW c \in ConsoleChannel, NEW regs
  PROVE  /\ run_hdma_channel(m, config, c, regs).s = Ran(m, config, c)
         /\ run_hdma_channel(m, config, c, regs).regs = RanRegisters(m, config, c, regs)
         /\ Ran(m, config, c) \in ConsoleChannel
<1> DEFINE l == LineOf(m, config, c)
           r == run_hdma_channel(m, config, c, regs)
           source == ReadsFrom(config, l)
           length == TransferLength(config.target)
           after == IF l.transfer = 1 THEN Wrap(source + length) ELSE source
           left == l.lines - 1
           counter == l.repeat * RepeatBit + (left % RepeatBit)
           written == ApplyWrites(regs, config.target, m[source], m[Wrap(source + 1)])
           moved == transfer_hdma_line(m, config, l, regs)
           same == [s |-> l, regs |-> regs, blocked |-> 0]
           going == IF l.transfer = 1 THEN moved ELSE same
<1>1. /\ l = (IF c.lines = 0 THEN reload_hdma_line_descriptor(m, config, c) ELSE c)
      /\ l \in ConsoleChannel /\ (l.active = 1 => l.lines \in 1 .. RepeatBit)
  BY ReloadIs, LineIs DEF LineOf
<1>2. config.on \in 0 .. 1 /\ config.reverse = 0 /\ config.indirect \in 0 .. 1 /\ length \in 1 .. 2
  BY SetupIs
<1>3. r = IF config.on = 0 \/ c.active = 0 THEN [same EXCEPT !.s = c]
          ELSE IF l.active = 0 THEN same
          ELSE [going EXCEPT !.s = [going.s EXCEPT !.lines = left,
                                      !.transfer = IF left # 0 THEN l.repeat ELSE going.s.transfer,
                                      !.counter = counter]]
  BY <1>1, <1>2 DEF run_hdma_channel
<1>4. moved = [s |-> IF config.indirect = 1 THEN [l EXCEPT !.from = Wrap(source + length), !.transfer = 0]
                                         ELSE [l EXCEPT !.next = Wrap(source + length), !.transfer = 0],
               regs |-> written, blocked |-> 0]
  BY DEF transfer_hdma_line, ReadsFrom
<1>5. /\ l.active \in 0 .. 1 /\ l.transfer \in 0 .. 1 /\ l.repeat \in 0 .. 1 /\ l.lines \in 0 .. RepeatBit
      /\ l.next \in 0 .. BankSize - 1 /\ l.from \in 0 .. BankSize - 1 /\ l.counter \in Bytes
      /\ l = [active |-> l.active, transfer |-> l.transfer, repeat |-> l.repeat, lines |-> l.lines,
              next |-> l.next, from |-> l.from, counter |-> l.counter]
  BY <1>1 DEF ConsoleChannel
<1>6. source \in 0 .. BankSize - 1 /\ after \in 0 .. BankSize - 1
  <2>1. source \in 0 .. BankSize - 1
    BY <1>5 DEF ReadsFrom
  <2>2. source + length \in Int
    <3> HIDE DEF source, length
    <3> QED BY <1>2, <2>1, TableAssumption
  <2> QED BY <2>1, <2>2, Wrapped
<1>7. l.active = 1 => left \in 0 .. RepeatBit - 1 /\ counter \in Bytes
  <2> SUFFICES ASSUME l.active = 1 PROVE left \in 0 .. RepeatBit - 1 /\ counter \in Bytes
    OBVIOUS
  <2>1. RepeatBit \in Nat \ {0} /\ left \in 0 .. RepeatBit - 1
    BY <1>1, TableAssumption
  <2> HIDE DEF left
  <2>2. left % RepeatBit \in 0 .. RepeatBit - 1
    BY <2>1, ModSame
  <2>3. l.repeat * RepeatBit = IF l.repeat = 0 THEN 0 ELSE RepeatBit
    BY <1>5, <2>1
  <2> QED BY <1>5, <2>1, <2>2, <2>3 DEF Bytes
<1>8. Ran(m, config, c) =
        IF config.on = 0 \/ c.active = 0 THEN c
        ELSE IF l.active = 0 THEN l
        ELSE [active |-> l.active, transfer |-> IF left # 0 THEN l.repeat ELSE 0, repeat |-> l.repeat,
              lines |-> left, next |-> IF config.indirect = 1 THEN l.next ELSE after,
              from |-> IF config.indirect = 1 THEN after ELSE l.from, counter |-> counter]
  BY DEF Ran
<1>9. RanRegisters(m, config, c, regs) =
        IF config.on = 0 \/ c.active = 0 \/ l.active = 0 \/ l.transfer = 0 THEN regs ELSE written
  BY DEF RanRegisters, Idle
<1>10. source = IF config.indirect = 1 THEN l.from ELSE l.next
  BY DEF ReadsFrom
<1> HIDE DEF l, r, source, length, left, counter, written, moved
<1>11. Ran(m, config, c) \in ConsoleChannel
  <2>1. CASE config.on = 0 \/ c.active = 0 \/ l.active = 0
    BY <1>1, <1>8, <2>1
  <2>2. CASE ~ (config.on = 0 \/ c.active = 0 \/ l.active = 0)
    <3>1. left \in 0 .. RepeatBit /\ counter \in Bytes
      BY <1>5, <1>7, <2>2, TableAssumption
    <3> QED BY <1>5, <1>6, <1>8, <2>2, <3>1 DEF ConsoleChannel
  <2> QED BY <2>1, <2>2
<1>12. r.regs = RanRegisters(m, config, c, regs)
  <2>1. CASE config.on = 0 \/ c.active = 0 \/ l.active = 0
    BY <1>3, <1>9, <2>1
  <2>2. CASE ~ (config.on = 0 \/ c.active = 0 \/ l.active = 0)
    <3>1. r.regs = going.regs
      <4>1. "regs" \in DOMAIN going
        BY <1>4
      <4> HIDE DEF going
      <4> QED BY <1>3, <2>2
    <3>2. going.regs = IF l.transfer = 1 THEN written ELSE regs
      BY <1>4
    <3> QED BY <1>5, <1>9, <2>2, <3>1, <3>2
  <2> QED BY <2>1, <2>2
<1>13. r.s = Ran(m, config, c)
  <2>1. CASE config.on = 0 \/ c.active = 0 \/ l.active = 0
    BY <1>3, <1>8, <2>1
  <2>2. CASE ~ (config.on = 0 \/ c.active = 0 \/ l.active = 0)
    <3> DEFINE g == going.s
    <3>1. r.s = [g EXCEPT !.lines = left, !.transfer = IF left # 0 THEN l.repeat ELSE g.transfer,
                          !.counter = counter]
      <4>1. "s" \in DOMAIN going
        BY <1>4
      <4> HIDE DEF going
      <4> QED BY <1>3, <2>2, <4>1
    <3>2. g = [active |-> l.active, transfer |-> 0, repeat |-> l.repeat, lines |-> l.lines,
               next |-> IF config.indirect = 1 THEN l.next ELSE after,
               from |-> IF config.indirect = 1 THEN after ELSE l.from, counter |-> l.counter]
      <4>1. CASE l.transfer = 1 /\ config.indirect = 1
        <5>1. g = [l EXCEPT !.from = after, !.transfer = 0]
          BY <1>4, <4>1
        <5> HIDE DEF g, after
        <5> QED BY <1>5, <4>1, <5>1
      <4>2. CASE l.transfer = 1 /\ config.indirect # 1
        <5>1. g = [l EXCEPT !.next = after, !.transfer = 0]
          BY <1>4, <4>2
        <5> HIDE DEF g, after
        <5> QED BY <1>5, <4>2, <5>1
      <4>3. CASE l.transfer # 1
        <5>1. g = l /\ l.transfer = 0 /\ after = source
          BY <1>5, <4>3
        <5> HIDE DEF g, after
        <5> QED BY <1>5, <1>10, <5>1
      <4> QED BY <4>1, <4>2, <4>3
    <3> HIDE DEF g, after
    <3>3. r.s = [active |-> l.active, transfer |-> IF left # 0 THEN l.repeat ELSE 0, repeat |-> l.repeat,
              lines |-> left, next |-> IF config.indirect = 1 THEN l.next ELSE after,
              from |-> IF config.indirect = 1 THEN after ELSE l.from, counter |-> counter]
      BY <3>1, <3>2
    <3> QED BY <1>8, <2>2, <3>3
  <2> QED BY <2>1, <2>2
<1> QED BY <1>11, <1>12, <1>13 DEF r

\* The pointer of the dry run, and the channel when it has gone on by k.
PointerOf(config, h) == IF config.indirect = 1 THEN h.indirect ELSE h.table
Onwards(config, h, k) ==
    IF config.indirect = 1 THEN [table |-> h.table, indirect |-> h.indirect + k, count |-> h.count]
    ELSE [table |-> h.table + k, indirect |-> h.indirect, count |-> h.count]
Dropped(h) == [table |-> Nowhere, indirect |-> h.indirect, count |-> h.count]

\* A byte, where the line still goes and where it does not.
GoingByte(m, config, h, regs) == StepByte(m, config, [channel |-> h, regs |-> regs, going |-> TRUE])
IdleByte(m, config, h, regs) == StepByte(m, config, [channel |-> h, regs |-> regs, going |-> FALSE])

LEMMA ByteIs ==
  ASSUME NEW m \in Tables, NEW config \in ChannelSetup, NEW h \in ScanChannel, NEW regs
  PROVE  /\ IdleByte(m, config, h, regs) = [channel |-> h, regs |-> regs, going |-> FALSE]
         /\ GoingByte(m, config, h, regs) =
              IF PointerOf(config, h) < BankSize
              THEN [channel |-> Onwards(config, h, 1),
                    regs |-> ApplyWrite(regs, config.target, m[PointerOf(config, h)]), going |-> TRUE]
              ELSE [channel |-> Dropped(h), regs |-> regs, going |-> FALSE]
         /\ PointerOf(config, h) \in 0 .. Nowhere
         /\ Dropped(h) \in ScanChannel
         /\ PointerOf(config, h) < BankSize => Onwards(config, h, 1) \in ScanChannel
<1> DEFINE at == [channel |-> h, regs |-> regs, going |-> TRUE]
           p == PointerOf(config, h)
           w == ApplyWrite(regs, config.target, m[p])
<1>1. /\ h.table \in 0 .. Nowhere /\ h.indirect \in 0 .. Nowhere /\ h.count \in Bytes
      /\ h = [table |-> h.table, indirect |-> h.indirect, count |-> h.count]
      /\ BankSize \in Nat \ {0} /\ Nowhere = BankSize + 1
  BY TableAssumption DEF ScanChannel, Nowhere
<1>2. p \in 0 .. Nowhere
  BY <1>1 DEF PointerOf
<1>3. (p = Nowhere \/ ~ readable(p, 1)) <=> ~ (p < BankSize)
  <2> HIDE DEF p
  <2> QED BY <1>1, <1>2 DEF readable
<1>4. StepByte(m, config, [channel |-> h, regs |-> regs, going |-> FALSE]) =
              [channel |-> h, regs |-> regs, going |-> FALSE]
  BY DEF StepByte
<1>5. StepByte(m, config, at) =
        IF p = Nowhere \/ ~ readable(p, 1) THEN [at EXCEPT !.channel.table = Nowhere, !.going = FALSE]
        ELSE [at EXCEPT !.channel = IF config.indirect = 1 THEN [h EXCEPT !.indirect = p + 1]
                                    ELSE [h EXCEPT !.table = p + 1],
                        !.regs = w]
  BY DEF StepByte, PointerOf
<1>6. p = IF config.indirect = 1 THEN h.indirect ELSE h.table
  BY DEF PointerOf
<1> HIDE DEF w, p
<1>7. CASE p < BankSize
  <2> DEFINE n == IF config.indirect = 1 THEN [h EXCEPT !.indirect = p + 1] ELSE [h EXCEPT !.table = p + 1]
  <2>1. n = Onwards(config, h, 1)
    BY <1>1, <1>6 DEF Onwards
  <2>2. StepByte(m, config, at) = [at EXCEPT !.channel = n, !.regs = w]
    BY <1>3, <1>5, <1>7
  <2> HIDE DEF n
  <2>3. StepByte(m, config, at) = [channel |-> n, regs |-> w, going |-> TRUE]
    BY <2>2
  <2>4. Onwards(config, h, 1) \in ScanChannel
    BY <1>1, <1>2, <1>6, <1>7 DEF Onwards, ScanChannel
  <2>5. Dropped(h) \in ScanChannel
    BY <1>1 DEF Dropped, ScanChannel
  <2> QED BY <1>2, <1>4, <1>7, <2>1, <2>3, <2>4, <2>5 DEF p, w, GoingByte, IdleByte
<1>8. CASE ~ (p < BankSize)
  <2>1. StepByte(m, config, at) = [at EXCEPT !.channel.table = Nowhere, !.going = FALSE]
    BY <1>3, <1>5, <1>8
  <2>2. StepByte(m, config, at) = [channel |-> [h EXCEPT !.table = Nowhere], regs |-> regs, going |-> FALSE]
    BY <2>1
  <2>3. [h EXCEPT !.table = Nowhere] = Dropped(h)
    BY <1>1 DEF Dropped
  <2>5. Dropped(h) \in ScanChannel
    BY <1>1 DEF Dropped, ScanChannel
  <2> QED BY <1>2, <1>4, <1>8, <2>2, <2>3, <2>5 DEF p, GoingByte, IdleByte
<1> QED BY <1>7, <1>8

\* The bytes of a line, one or two.
MovedBytes(m, config, h, regs) ==
    LET first == GoingByte(m, config, h, regs)
    IN IF TransferLength(config.target) = 2 THEN StepByte(m, config, first) ELSE first

LEMMA BytesAre ==
  ASSUME NEW m \in Tables, NEW config \in ChannelSetup, NEW h \in ScanChannel, NEW regs
  PROVE  /\ MovedBytes(m, config, h, regs).channel \in ScanChannel
         /\ MovedBytes(m, config, h, regs).channel.count = h.count
         /\ PointerOf(config, h) \in 0 .. Nowhere
         /\ PointerOf(config, h) + TransferLength(config.target) <= BankSize =>
              /\ MovedBytes(m, config, h, regs).channel = Onwards(config, h, TransferLength(config.target))
              /\ MovedBytes(m, config, h, regs).regs =
                   ApplyWrites(regs, config.target, m[PointerOf(config, h)], m[Wrap(PointerOf(config, h) + 1)])
         /\ PointerOf(config, h) + TransferLength(config.target) > BankSize =>
              MovedBytes(m, config, h, regs).channel.table = Nowhere
<1> DEFINE n == TransferLength(config.target)
           p == PointerOf(config, h)
           t == MovedBytes(m, config, h, regs)
           first == GoingByte(m, config, h, regs)
           one == ApplyWrite(regs, config.target, m[p])
           k == Onwards(config, h, 1)
           q == PointerOf(config, k)
<1>1. n \in 1 .. 2 /\ BankSize \in Nat \ {0}
  BY SetupIs, TableAssumption
<1>2. /\ h.table \in 0 .. Nowhere /\ h.indirect \in 0 .. Nowhere /\ h.count \in Bytes
      /\ Nowhere = BankSize + 1
  BY DEF ScanChannel, Nowhere
<1>3. /\ p \in 0 .. Nowhere
      /\ Dropped(h) \in ScanChannel
      /\ first = IF p < BankSize THEN [channel |-> k, regs |-> one, going |-> TRUE]
                 ELSE [channel |-> Dropped(h), regs |-> regs, going |-> FALSE]
      /\ p < BankSize => k \in ScanChannel
  BY ByteIs
<1>4. t = IF n = 2 THEN StepByte(m, config, first) ELSE first
  BY DEF MovedBytes
<1>5. Dropped(h).table = Nowhere /\ Dropped(h).count = h.count
  BY DEF Dropped
<1>6. k.count = h.count
  BY DEF Onwards
<1>7. q = p + 1
  BY DEF Onwards, PointerOf
<1>8. ApplyWrites(regs, config.target, m[p], m[Wrap(p + 1)]) =
        IF n = 2 THEN ApplyWrite(one, config.target, m[Wrap(p + 1)]) ELSE one
  BY DEF ApplyWrites
<1>9. Onwards(config, k, 1) = Onwards(config, h, 2)
  <2>1. \A x \in 0 .. Nowhere : (x + 1) + 1 = x + 2
    BY <1>1
  <2> QED BY <1>2, <2>1 DEF Onwards
<1> HIDE DEF n, p, t, first, one, k, q
<1>10. CASE ~ (p < BankSize)
  <2>1. first = [channel |-> Dropped(h), regs |-> regs, going |-> FALSE]
    BY <1>3, <1>10
  <2>2. StepByte(m, config, first) = first
    BY <1>3, <2>1, ByteIs DEF IdleByte
  <2>3. t = first /\ p + n > BankSize
    BY <1>1, <1>3, <1>4, <1>10, <2>2
  <2>4. t.channel = Dropped(h)
    BY <2>1, <2>3
  <2>5. ~ (p + n <= BankSize)
    BY <1>1, <1>3, <2>3
  <2> QED BY <1>3, <1>5, <2>4, <2>5 DEF n, p, t
<1>11. CASE p < BankSize /\ n = 1
  <2>1. t = [channel |-> k, regs |-> one, going |-> TRUE] /\ p + n <= BankSize /\ ~ (p + n > BankSize)
    BY <1>1, <1>3, <1>4, <1>11
  <2>2. t.channel = k /\ t.regs = one
    BY <2>1
  <2>3. k = Onwards(config, h, n)
    BY <1>11 DEF k
  <2> QED BY <1>3, <1>6, <1>8, <1>11, <2>1, <2>2, <2>3 DEF n, p, t
<1>12. CASE p < BankSize /\ n = 2
  <2>0. first = [channel |-> k, regs |-> one, going |-> TRUE] /\ k \in ScanChannel
    BY <1>3, <1>12
  <2>1. t = GoingByte(m, config, k, one)
    BY <1>4, <1>12, <2>0 DEF GoingByte
  <2>2. /\ t = IF q < BankSize
               THEN [channel |-> Onwards(config, k, 1), regs |-> ApplyWrite(one, config.target, m[q]), going |-> TRUE]
               ELSE [channel |-> Dropped(k), regs |-> one, going |-> FALSE]
        /\ Dropped(k) \in ScanChannel
        /\ (q < BankSize => Onwards(config, k, 1) \in ScanChannel)
    BY <2>0, <2>1, ByteIs DEF q
  <2>3. Dropped(k).table = Nowhere /\ Dropped(k).count = k.count /\ Onwards(config, k, 1).count = k.count
    BY DEF Dropped, Onwards
  <2>4. CASE q < BankSize
    <3>1. p + n <= BankSize /\ ~ (p + n > BankSize) /\ Wrap(p + 1) = q
      <4>1. p + 1 \in 0 .. BankSize - 1
        BY <1>1, <1>3, <1>7, <2>4
      <4> QED BY <1>1, <1>3, <1>7, <1>12, <4>1, Wrapped
    <3>2. t.channel = Onwards(config, h, n) /\ t.regs = ApplyWrite(one, config.target, m[q])
          /\ t.channel \in ScanChannel /\ t.channel.count = h.count
      BY <1>6, <1>9, <1>12, <2>2, <2>3, <2>4
    <3> QED BY <1>3, <1>8, <1>12, <3>1, <3>2 DEF n, p, t
  <2>5. CASE ~ (q < BankSize)
    <3>1. p + n > BankSize /\ ~ (p + n <= BankSize)
      BY <1>1, <1>3, <1>7, <1>12, <2>5
    <3>2. t.channel = Dropped(k)
      BY <2>2, <2>5
    <3>3. t.channel \in ScanChannel /\ t.channel.count = h.count /\ t.channel.table = Nowhere
      BY <1>6, <2>2, <2>3, <3>2
    <3> QED BY <1>3, <3>1, <3>3 DEF n, p, t
  <2> QED BY <2>4, <2>5
<1> QED BY <1>1, <1>10, <1>11, <1>12

\* A line of the dry run: whether a descriptor is due, the channel after it,
\* the ways to end before a byte is moved, and whether bytes are moved.
Fresh(h) == h.count % RepeatBit = 0
Loaded(m, config, h) ==
    IF ~ Fresh(h) THEN h
    ELSE [table |-> IF config.indirect = 1 THEN h.table + 1 + 2 ELSE h.table + 1,
          count |-> m[h.table],
          indirect |-> IF config.indirect = 1 THEN Indirect(m[h.table + 1], m[h.table + 1 + 1])
                       ELSE h.indirect]
Ends(m, config, h) ==
    h.table = Nowhere \/ (Fresh(h) /\ (h.table = BankSize \/ m[h.table] = 0
                                       \/ (config.indirect = 1 /\ h.table + 1 + 2 > BankSize)))
Goes(h) == Fresh(h) \/ h.count >= RepeatBit
CountDown(x) == (x + 2 * RepeatBit - 1) % (2 * RepeatBit)

LEMMA CountsDown ==
  ASSUME NEW x \in Bytes
  PROVE  /\ CountDown(x) \in Bytes
         /\ x # 0 => CountDown(x) = x - 1
<1> DEFINE w == 2 * RepeatBit
<1>1. w \in Nat \ {0} /\ x \in 0 .. w - 1
  BY TableAssumption DEF Bytes
<1>2. CountDown(x) = (x + w - 1) % w /\ Bytes = 0 .. w - 1
  BY DEF CountDown, Bytes
<1> HIDE DEF w
<1>3. (x + w - 1) % w \in 0 .. w - 1
  <2>1. x + w - 1 \in Int
    BY <1>1
  <2> QED BY <1>1, <2>1, Divided
<1>4. ASSUME x # 0 PROVE (x + w - 1) % w = x - 1
  <2>1. x - 1 \in 0 .. w - 1 /\ x + w - 1 = w * 1 + (x - 1)
    BY <1>1, <1>4
  <2>2. (w * 1 + (x - 1)) % w = x - 1
    <3>1. \A q \in Int, r \in 0 .. w - 1 : (w * q + r) % w = r
      BY ONLY <1>1, Unique
    <3> DEFINE y == x - 1
    <3>2. y \in 0 .. w - 1 /\ 1 \in Int
      BY <2>1
    <3> HIDE DEF y
    <3>3. (w * 1 + y) % w = y
      BY <3>1, <3>2
    <3> QED BY <3>3 DEF y
  <2> QED BY <2>1, <2>2
<1> QED BY <1>2, <1>3, <1>4

\* A descriptor is loaded where it can be read.
LEMMA LoadedIs ==
  ASSUME NEW m \in Tables, NEW config \in ChannelSetup, NEW h \in ScanChannel, ~ Ends(m, config, h)
  PROVE  /\ Loaded(m, config, h) \in ScanChannel
         /\ Loaded(m, config, h).table \in 0 .. BankSize
         /\ Loaded(m, config, h).count = IF Fresh(h) THEN m[h.table] ELSE h.count
         /\ Fresh(h) => h.table \in 0 .. BankSize - 1 /\ m[h.table] \in Bytes /\ m[h.table] # 0
<1>1. /\ h.table \in 0 .. Nowhere /\ h.indirect \in 0 .. Nowhere /\ h.count \in Bytes
      /\ BankSize \in Nat \ {0} /\ Nowhere = BankSize + 1 /\ h.table # Nowhere
  BY TableAssumption DEF ScanChannel, Nowhere, Ends
<1>2. CASE ~ Fresh(h)
  BY <1>1, <1>2 DEF Loaded
<1>3. CASE Fresh(h)
  <2>1. h.table \in 0 .. BankSize - 1 /\ m[h.table] # 0
    BY <1>1, <1>3 DEF Ends
  <2>2. m[h.table] \in Bytes
    BY <2>1 DEF Tables
  <2>3. CASE config.indirect = 1
    <3>1. ~ (h.table + 1 + 2 > BankSize)
      BY <1>3, <2>3 DEF Ends
    <3>2. /\ h.table + 1 \in 0 .. BankSize - 1 /\ h.table + 1 + 1 \in 0 .. BankSize - 1
          /\ h.table + 1 + 2 \in 0 .. BankSize
      BY <1>1, <2>1, <3>1
    <3>3. m[h.table + 1] \in Bytes /\ m[h.table + 1 + 1] \in Bytes
      BY <3>2 DEF Tables
    <3>4. Indirect(m[h.table + 1], m[h.table + 1 + 1]) \in 0 .. Nowhere
      <4>1. Indirect(m[h.table + 1], m[h.table + 1 + 1]) \in 0 .. BankSize - 1
        BY <3>3, IndirectFits
      <4> QED BY <1>1, <4>1
    <3>5. Loaded(m, config, h) = [table |-> h.table + 1 + 2, count |-> m[h.table],
                                  indirect |-> Indirect(m[h.table + 1], m[h.table + 1 + 1])]
      BY <1>3, <2>3 DEF Loaded
    <3>6. h.table + 1 + 2 \in 0 .. Nowhere
      BY <1>1, <3>2
    <3> QED BY <1>3, <2>1, <2>2, <3>2, <3>4, <3>5, <3>6 DEF ScanChannel
  <2>4. CASE config.indirect # 1
    <3>1. Loaded(m, config, h) = [table |-> h.table + 1, count |-> m[h.table], indirect |-> h.indirect]
      BY <1>3, <2>4 DEF Loaded
    <3>2. h.table + 1 \in 0 .. BankSize /\ h.table + 1 \in 0 .. Nowhere
      BY <1>1, <2>1
    <3> QED BY <1>1, <1>3, <2>1, <2>2, <3>1, <3>2 DEF ScanChannel
  <2> QED BY <2>3, <2>4
<1> QED BY <1>2, <1>3

\* A line of the dry run is the end of the channel, or a loaded channel's
\* bytes and one line less to count.
LineStep(m, config, h, regs) == Dkc2HdmaStepChannel(m, config, h, regs)
LineMoves(m, config, h, regs) == MovedBytes(m, config, Loaded(m, config, h), regs)
LeftAt(m, config, h, regs) ==
    IF Goes(h) THEN LineMoves(m, config, h, regs).channel ELSE Loaded(m, config, h)

StepsTo(m, config, h, regs) ==
    /\ LineStep(m, config, h, regs).channel \in ScanChannel
    /\ Ends(m, config, h) =>
         LineStep(m, config, h, regs).channel.table = Nowhere /\ LineStep(m, config, h, regs).regs = regs
    /\ ~ Ends(m, config, h) =>
         /\ LineStep(m, config, h, regs).channel =
              [table |-> LeftAt(m, config, h, regs).table, indirect |-> LeftAt(m, config, h, regs).indirect,
               count |-> CountDown(Loaded(m, config, h).count)]
         /\ LineStep(m, config, h, regs).regs =
              IF Goes(h) THEN LineMoves(m, config, h, regs).regs ELSE regs

LEMMA StepIs ==
  ASSUME NEW m \in Tables, NEW config \in ChannelSetup, NEW h \in ScanChannel, NEW regs
  PROVE  StepsTo(m, config, h, regs)
<1> DEFINE r == Dkc2HdmaStepChannel(m, config, h, regs)
           l == Loaded(m, config, h)
           t == LineMoves(m, config, h, regs)
           done == IF Goes(h) THEN t ELSE [channel |-> l, regs |-> regs]
           ended == [channel |-> [h EXCEPT !.table = Nowhere], regs |-> regs]
<1>1. /\ h.table \in 0 .. Nowhere /\ h.indirect \in 0 .. Nowhere /\ h.count \in Bytes
      /\ h = [table |-> h.table, indirect |-> h.indirect, count |-> h.count]
      /\ BankSize \in Nat \ {0} /\ Nowhere = BankSize + 1 /\ RepeatBit \in Nat \ {0}
  BY TableAssumption DEF ScanChannel, Nowhere
<1>2. /\ h.table # Nowhere => (~ readable(h.table, 1) <=> h.table = BankSize)
      /\ ~ readable(h.table + 1, 2) <=> h.table + 1 + 2 > BankSize
  BY <1>1 DEF readable
<1>3. CASE Ends(m, config, h)
  <2>1. CASE h.table = Nowhere
    <3>1. r = [channel |-> h, regs |-> regs]
      BY <2>1 DEF Dkc2HdmaStepChannel
    <3> QED BY <1>3, <2>1, <3>1 DEF StepsTo, LineStep
  <2>2. CASE h.table # Nowhere
    <3>1. Fresh(h) /\ (h.table = BankSize \/ m[h.table] = 0
                       \/ (config.indirect = 1 /\ h.table + 1 + 2 > BankSize))
      BY <1>3, <2>2 DEF Ends
    <3>2. CASE h.table = BankSize
      <4>1. r = ended
        BY <1>2, <2>2, <3>1, <3>2 DEF Dkc2HdmaStepChannel, Fresh
      <4>2. r.regs = regs /\ r.channel = [table |-> Nowhere, indirect |-> h.indirect, count |-> h.count]
        BY <1>1, <4>1
      <4> QED BY <1>1, <1>3, <4>2 DEF StepsTo, LineStep, ScanChannel
    <3>3. CASE h.table # BankSize /\ m[h.table] = 0
      <4>1. r = [ended EXCEPT !.channel.count = 0]
        BY <1>2, <2>2, <3>1, <3>3 DEF Dkc2HdmaStepChannel, Fresh
      <4>2. r.regs = regs /\ r.channel = [table |-> Nowhere, indirect |-> h.indirect, count |-> 0]
        BY <1>1, <4>1
      <4>3. 0 \in Bytes
        BY <1>1 DEF Bytes
      <4> QED BY <1>1, <1>3, <4>2, <4>3 DEF StepsTo, LineStep, ScanChannel
    <3>4. CASE h.table # BankSize /\ m[h.table] # 0
      <4>1. r = [ended EXCEPT !.channel.count = m[h.table]]
        BY <1>2, <2>2, <3>1, <3>4 DEF Dkc2HdmaStepChannel, Fresh
      <4>2. r.regs = regs /\ r.channel = [table |-> Nowhere, indirect |-> h.indirect, count |-> m[h.table]]
        BY <1>1, <4>1
      <4>3. m[h.table] \in Bytes
        <5>1. h.table \in 0 .. BankSize - 1
          BY <1>1, <2>2, <3>4
        <5> QED BY <5>1 DEF Tables
      <4> QED BY <1>1, <1>3, <4>2, <4>3 DEF StepsTo, LineStep, ScanChannel
    <3> QED BY <3>2, <3>3, <3>4
  <2> QED BY <2>1, <2>2
<1>4. CASE ~ Ends(m, config, h)
  <2>1. /\ h.table # Nowhere
        /\ Fresh(h) => h.table # BankSize /\ m[h.table] # 0 /\ ~ (config.indirect = 1 /\ h.table + 1 + 2 > BankSize)
    BY <1>4 DEF Ends
  <2>2. l = IF ~ Fresh(h) THEN h
            ELSE [table |-> IF config.indirect = 1 THEN h.table + 1 + 2 ELSE h.table + 1,
                  count |-> m[h.table],
                  indirect |-> IF config.indirect = 1 THEN Indirect(m[h.table + 1], m[h.table + 1 + 1])
                               ELSE h.indirect]
    BY DEF Loaded
  <2>3. Goes(h) <=> (Fresh(h) \/ l.count >= RepeatBit)
    BY <2>2 DEF Goes
  <2>4. t = IF TransferLength(config.target) = 2
            THEN StepByte(m, config, StepByte(m, config, [channel |-> l, regs |-> regs, going |-> TRUE]))
            ELSE StepByte(m, config, [channel |-> l, regs |-> regs, going |-> TRUE])
    BY DEF LineMoves, MovedBytes, GoingByte
  <2>5. r = [channel |-> [done.channel EXCEPT !.count = CountDown(l.count)], regs |-> done.regs]
    BY <1>2, <2>1, <2>2, <2>3, <2>4, ZenonT(30) DEF Dkc2HdmaStepChannel, Fresh, CountDown
  <2>6. l \in ScanChannel
    BY <1>4, LoadedIs
  <2>7. t.channel \in ScanChannel
    <3> HIDE DEF l
    <3> QED BY <2>6, BytesAre DEF LineMoves, l
  <2> HIDE DEF l, t
  <2>8. done.channel = (IF Goes(h) THEN t.channel ELSE l) /\ done.regs = (IF Goes(h) THEN t.regs ELSE regs)
    OBVIOUS
  <2> DEFINE d == IF Goes(h) THEN t.channel ELSE l
  <2>9. d \in ScanChannel /\ l.count \in Bytes
    BY <2>6, <2>7 DEF ScanChannel
  <2>10. CountDown(l.count) \in Bytes
    BY <2>9, CountsDown
  <2>11. r.channel = [d EXCEPT !.count = CountDown(l.count)] /\ r.regs = IF Goes(h) THEN t.regs ELSE regs
    BY <2>5, <2>8
  <2>12. r.channel = [table |-> d.table, indirect |-> d.indirect, count |-> CountDown(l.count)]
    <3> HIDE DEF d
    <3> QED BY <2>9, <2>11 DEF ScanChannel
  <2>13. r.channel \in ScanChannel
    <3> HIDE DEF d
    <3> QED BY <2>9, <2>10, <2>12 DEF ScanChannel
  <2> QED BY <1>4, <2>11, <2>12, <2>13 DEF StepsTo, LineStep, LeftAt, l, t
<1> QED BY <1>3, <1>4

\* The two readers of a channel agree: both or neither still read it, from the
\* same place, with as many lines left and the same bytes to repeat.
Mates(config, c, h) ==
    /\ c.active = 1 <=> h.table # Nowhere
    /\ c.active = 1 =>
         /\ config.on = 1
         /\ c.next = Wrap(h.table)
         /\ c.lines = h.count % RepeatBit
         /\ c.lines # 0 =>
              /\ c.repeat = h.count \div RepeatBit
              /\ c.transfer = c.repeat
              /\ config.indirect = 1 /\ c.repeat = 1 => c.from = Wrap(h.indirect)

ScanRan(m, config, h, regs) == LineStep(m, config, h, regs).channel

\* What the two make of a descriptor.
LEMMA LoadsAgree ==
  ASSUME NEW m \in Tables, NEW config \in ChannelSetup, NEW c \in ConsoleChannel, NEW h \in ScanChannel,
         Mates(config, c, h), c.active = 1, ~ Ends(m, config, h)
  PROVE  /\ LineOf(m, config, c).active = 1 /\ config.on = 1
         /\ LineOf(m, config, c).repeat = Loaded(m, config, h).count \div RepeatBit
         /\ LineOf(m, config, c).lines =
              IF Loaded(m, config, h).count % RepeatBit = 0 THEN RepeatBit
              ELSE Loaded(m, config, h).count % RepeatBit
         /\ LineOf(m, config, c).next = Wrap(Loaded(m, config, h).table)
         /\ LineOf(m, config, c).transfer = 1 <=> Goes(h)
         /\ Goes(h) /\ config.indirect = 1 => LineOf(m, config, c).from = Wrap(Loaded(m, config, h).indirect)
         /\ ~ Goes(h) => LineOf(m, config, c).repeat = 0
         /\ Loaded(m, config, h).count \in Bytes \ {0}
<1> DEFINE l == LineOf(m, config, c)
           k == Loaded(m, config, h)
<1>1. /\ config.on = 1 /\ h.table # Nowhere /\ c.next = Wrap(h.table) /\ c.lines = h.count % RepeatBit
      /\ c.lines # 0 =>
              /\ c.repeat = h.count \div RepeatBit
              /\ c.transfer = c.repeat
              /\ config.indirect = 1 /\ c.repeat = 1 => c.from = Wrap(h.indirect)
  BY DEF Mates
<1>2. /\ h.table \in 0 .. Nowhere /\ h.indirect \in 0 .. Nowhere /\ h.count \in Bytes
      /\ BankSize \in Nat \ {0} /\ Nowhere = BankSize + 1 /\ RepeatBit \in Nat \ {0}
  BY TableAssumption DEF ScanChannel, Nowhere
<1>3. Fresh(h) <=> c.lines = 0
  BY <1>1 DEF Fresh
<1>4. k.count = (IF Fresh(h) THEN m[h.table] ELSE h.count) /\ k.table \in 0 .. BankSize
      /\ (Fresh(h) => h.table \in 0 .. BankSize - 1 /\ m[h.table] \in Bytes /\ m[h.table] # 0)
  BY LoadedIs
<1>5. CASE ~ Fresh(h)
  <2>1. l = c /\ k = h
    BY <1>3, <1>5 DEF LineOf, Loaded
  <2>2. Goes(h) <=> h.count >= RepeatBit
    BY <1>5 DEF Goes
  <2>3. /\ h.count % RepeatBit \in 0 .. RepeatBit - 1
        /\ h.count % RepeatBit = (IF h.count < RepeatBit THEN h.count ELSE h.count - RepeatBit)
        /\ h.count \div RepeatBit = (IF h.count < RepeatBit THEN 0 ELSE 1)
    BY <1>2, BitAndCount
  <2>4. h.count >= RepeatBit <=> h.count \div RepeatBit = 1
    BY <1>2, <2>3 DEF Bytes
  <2>5. h.count # 0
    BY <1>1, <1>2, <1>3, <1>5, <2>3
  <2>6. c.lines # 0 /\ c.lines = h.count % RepeatBit /\ c.repeat = h.count \div RepeatBit /\ c.transfer = c.repeat
    BY <1>1, <1>3, <1>5
  <2>7. c.repeat = 1 <=> Goes(h)
    BY <2>2, <2>4, <2>6
  <2>8. c.repeat = 0 \/ c.repeat = 1
    BY DEF ConsoleChannel
  <2> QED BY <1>1, <1>2, <2>1, <2>5, <2>6, <2>7, <2>8
<1>6. CASE Fresh(h)
  <2> DEFINE d == m[h.table]
  <2>1. h.table \in 0 .. BankSize - 1 /\ d \in Bytes /\ d # 0 /\ k.count = d
    BY <1>4, <1>6
  <2>2. c.next = h.table
    BY <1>1, <2>1, Wrapped
  <2>3. l = Reload(m, config, c)
    BY <1>3, <1>6 DEF LineOf
  <2>4. Goes(h)
    BY <1>6 DEF Goes
  <2> DEFINE after == Wrap(h.table + 1)
  <2>5. l = [active |-> c.active, transfer |-> 1, repeat |-> d \div RepeatBit,
             lines |-> IF d % RepeatBit = 0 THEN RepeatBit ELSE d % RepeatBit,
             next |-> IF config.indirect = 1 THEN Wrap(after + 2) ELSE after,
             from |-> IF config.indirect = 1 THEN Indirect(m[after], m[Wrap(after + 1)]) ELSE c.from,
             counter |-> c.counter]
    BY <2>1, <2>2, <2>3 DEF Reload
  <2>6. /\ k.table = (IF config.indirect = 1 THEN h.table + 1 + 2 ELSE h.table + 1)
        /\ k.indirect = IF config.indirect = 1 THEN Indirect(m[h.table + 1], m[h.table + 1 + 1]) ELSE h.indirect
    BY <1>6 DEF Loaded
  <2>7. config.indirect = 1 => /\ after = h.table + 1 /\ Wrap(after + 1) = h.table + 1 + 1
                              /\ l.next = Wrap(k.table) /\ l.from = k.indirect
                              /\ k.indirect \in 0 .. BankSize - 1
    <3> SUFFICES ASSUME config.indirect = 1
                 PROVE  /\ after = h.table + 1 /\ Wrap(after + 1) = h.table + 1 + 1
                        /\ l.next = Wrap(k.table) /\ l.from = k.indirect
                        /\ k.indirect \in 0 .. BankSize - 1
      OBVIOUS
    <3>1. ~ (h.table + 1 + 2 > BankSize)
      BY <1>6 DEF Ends
    <3>2. h.table + 1 \in 0 .. BankSize - 1 /\ h.table + 1 + 1 \in 0 .. BankSize - 1
      BY <1>2, <2>1, <3>1
    <3>3. after = h.table + 1 /\ Wrap(h.table + 1 + 1) = h.table + 1 + 1
      BY <3>2, Wrapped
    <3>4. m[h.table + 1] \in Bytes /\ m[h.table + 1 + 1] \in Bytes
      BY <3>2 DEF Tables
    <3>5. Indirect(m[h.table + 1], m[h.table + 1 + 1]) \in 0 .. BankSize - 1
      BY <3>4, IndirectFits
    <3> HIDE DEF after
    <3> QED BY <2>5, <2>6, <3>3, <3>5
  <2>8. config.indirect # 1 => l.next = Wrap(k.table)
    BY <2>5, <2>6
  <2>9. config.indirect = 1 => l.from = Wrap(k.indirect)
    BY <2>7, Wrapped
  <2>10. l.active = 1 /\ l.transfer = 1 /\ l.repeat = d \div RepeatBit
         /\ l.lines = IF d % RepeatBit = 0 THEN RepeatBit ELSE d % RepeatBit
    BY <2>5
  <2> HIDE DEF l, k, d
  <2> QED BY <1>1, <2>1, <2>4, <2>7, <2>8, <2>9, <2>10 DEF l, k
<1> QED BY <1>5, <1>6

\* A line keeps the two readers of a channel together, and writes the same to
\* the registers, unless the dry run drops a channel the console still reads
\* or the line begins a run of RepeatBit repeated lines.
LEMMA LinesAgree ==
  ASSUME NEW m \in Tables, NEW config \in ChannelSetup, NEW c \in ConsoleChannel, NEW h \in ScanChannel,
         NEW regs, Mates(config, c, h),
         ~ (LineStep(m, config, h, regs).channel.table = Nowhere /\ Ran(m, config, c).active = 1),
         ~ (Ran(m, config, c).lines + 1 >= RepeatBit /\ Ran(m, config, c).repeat = 1)
  PROVE  /\ Mates(config, Ran(m, config, c), LineStep(m, config, h, regs).channel)
         /\ RanRegisters(m, config, c, regs) = LineStep(m, config, h, regs).regs
<1> DEFINE l == LineOf(m, config, c)
           k == Loaded(m, config, h)
           d == Ran(m, config, c)
           g == LineStep(m, config, h, regs).channel
           out == LineStep(m, config, h, regs).regs
           left == l.lines - 1
           length == TransferLength(config.target)
           source == ReadsFrom(config, l)
           p == PointerOf(config, k)
           after == IF l.transfer = 1 THEN Wrap(source + length) ELSE source
<1>1. /\ h.table \in 0 .. Nowhere /\ h.indirect \in 0 .. Nowhere /\ h.count \in Bytes
      /\ BankSize \in Nat \ {0} /\ Nowhere = BankSize + 1 /\ RepeatBit \in Nat \ {0}
  BY TableAssumption DEF ScanChannel, Nowhere
<1>2. c.active \in 0 .. 1 /\ d.active \in 0 .. 1 /\ l.active \in 0 .. 1 /\ l.transfer \in 0 .. 1
  <2>1. d \in ConsoleChannel /\ l \in ConsoleChannel
    BY RunIs, LineIs
  <2> QED BY <2>1 DEF ConsoleChannel
<1>3. ~ (g.table = Nowhere /\ d.active = 1) /\ ~ (d.lines + 1 >= RepeatBit /\ d.repeat = 1)
  OBVIOUS
<1>4. (c.active = 1 <=> h.table # Nowhere) /\ (c.active = 1 => config.on = 1)
  BY DEF Mates
<1>5. /\ Ends(m, config, h) => g.table = Nowhere /\ out = regs
      /\ ~ Ends(m, config, h) =>
              /\ g = [table |-> LeftAt(m, config, h, regs).table, indirect |-> LeftAt(m, config, h, regs).indirect,
                       count |-> CountDown(k.count)]
              /\ out = IF Goes(h) THEN LineMoves(m, config, h, regs).regs ELSE regs
  <2>1. StepsTo(m, config, h, regs)
    BY StepIs
  <2> QED BY <2>1 DEF StepsTo
<1>6. d = IF config.on = 0 \/ c.active = 0 THEN c
          ELSE IF l.active = 0 THEN l
          ELSE [active |-> l.active, transfer |-> IF left # 0 THEN l.repeat ELSE 0, repeat |-> l.repeat,
                lines |-> left, next |-> IF config.indirect = 1 THEN l.next ELSE after,
                from |-> IF config.indirect = 1 THEN after ELSE l.from,
                counter |-> l.repeat * RepeatBit + (left % RepeatBit)]
  BY DEF Ran
<1>7. RanRegisters(m, config, c, regs) =
        IF config.on = 0 \/ c.active = 0 \/ l.active = 0 \/ l.transfer = 0 THEN regs
        ELSE ApplyWrites(regs, config.target, m[source], m[Wrap(source + 1)])
  BY DEF RanRegisters, Idle
<1>8. CASE Ends(m, config, h)
  <2>1. g.table = Nowhere /\ out = regs /\ d.active = 0
    BY <1>2, <1>3, <1>5, <1>8
  <2>2. Mates(config, d, g)
    BY <2>1 DEF Mates
  <2>3. l.active = 0 \/ c.active = 0 \/ config.on = 0
    <3> SUFFICES ASSUME l.active # 0, c.active # 0, config.on # 0 PROVE FALSE
      OBVIOUS
    <3>1. d.active = l.active
      BY <1>6
    <3> QED BY <2>1, <3>1
  <2> HIDE DEF l, d, g, out, source
  <2>4. RanRegisters(m, config, c, regs) = out
    BY <1>7, <2>1, <2>3
  <2> QED BY <2>2, <2>4 DEF d, g, out
<1>9. CASE ~ Ends(m, config, h)
  <2>1. h.table # Nowhere
    BY <1>9 DEF Ends
  <2>2. c.active = 1
    BY <1>4, <2>1
  <2>3. /\ l.active = 1 /\ config.on = 1
        /\ l.repeat = k.count \div RepeatBit
        /\ l.lines = IF k.count % RepeatBit = 0 THEN RepeatBit ELSE k.count % RepeatBit
        /\ l.next = Wrap(k.table)
        /\ l.transfer = 1 <=> Goes(h)
        /\ Goes(h) /\ config.indirect = 1 => l.from = Wrap(k.indirect)
        /\ ~ Goes(h) => l.repeat = 0
        /\ k.count \in Bytes \ {0}
    BY <1>9, <2>2, LoadsAgree
  <2>4. k \in ScanChannel /\ k.table \in 0 .. BankSize
    BY <1>9, LoadedIs
  <2> DEFINE e == IF Goes(h) THEN LineMoves(m, config, h, regs).channel ELSE k
  <2>5. g = [table |-> e.table, indirect |-> e.indirect, count |-> CountDown(k.count)]
    BY <1>5, <1>9 DEF LeftAt
  <2>6. out = IF Goes(h) THEN LineMoves(m, config, h, regs).regs ELSE regs
    BY <1>5, <1>9
  <2>7. d = [active |-> l.active, transfer |-> IF left # 0 THEN l.repeat ELSE 0, repeat |-> l.repeat,
                lines |-> left, next |-> IF config.indirect = 1 THEN l.next ELSE after,
                from |-> IF config.indirect = 1 THEN after ELSE l.from,
                counter |-> l.repeat * RepeatBit + (left % RepeatBit)]
    BY <1>6, <2>2, <2>3
  <2>8. Goes(h) => /\ p + length <= BankSize
                   /\ e = Onwards(config, k, length)
                   /\ out = ApplyWrites(regs, config.target, m[p], m[Wrap(p + 1)])
                   /\ p \in 0 .. Nowhere
    <3> SUFFICES ASSUME Goes(h)
                 PROVE  /\ p + length <= BankSize
                        /\ e = Onwards(config, k, length)
                        /\ out = ApplyWrites(regs, config.target, m[p], m[Wrap(p + 1)])
                        /\ p \in 0 .. Nowhere
      OBVIOUS
    <3>2. LineMoves(m, config, h, regs) = MovedBytes(m, config, k, regs)
      BY DEF LineMoves, k
    <3> HIDE DEF k
    <3>3. /\ p \in 0 .. Nowhere
          /\ p + length <= BankSize =>
                 /\ MovedBytes(m, config, k, regs).channel = Onwards(config, k, length)
                 /\ MovedBytes(m, config, k, regs).regs = ApplyWrites(regs, config.target, m[p], m[Wrap(p + 1)])
          /\ p + length > BankSize => MovedBytes(m, config, k, regs).channel.table = Nowhere
      BY ONLY BytesAre, m \in Tables, config \in ChannelSetup, <2>4
    <3>4. ~ (p + length > BankSize)
      <4>1. SUFFICES ASSUME p + length > BankSize PROVE FALSE
        OBVIOUS
      <4>2. e.table = Nowhere
        BY <3>2, <3>3, <4>1
      <4>3. g.table = Nowhere
        BY <2>5, <4>2
      <4>4. d.active = 1
        BY <2>3, <2>7
      <4> QED BY <1>3, <4>3, <4>4
    <3>5. length \in 1 .. 2
      BY SetupIs
    <3>6. p + length <= BankSize
      <4> HIDE DEF p, length
      <4> QED BY <1>1, <3>3, <3>4, <3>5
    <3> QED BY <2>6, <3>2, <3>3, <3>6
  <2> DEFINE x == k.count
  <2>9. /\ x % RepeatBit \in 1 .. RepeatBit - 1 /\ left = (x % RepeatBit) - 1 /\ left \in Nat
        /\ CountDown(x) % RepeatBit = left
        /\ CountDown(x) \div RepeatBit = l.repeat
        /\ l.repeat \in 0 .. 1
    <3> HIDE DEF k
    <3>1. x \in Bytes \ {0}
      BY <2>3
    <3>2. /\ x % RepeatBit \in 0 .. RepeatBit - 1 /\ x \div RepeatBit \in 0 .. 1
          /\ x % RepeatBit = (IF x < RepeatBit THEN x ELSE x - RepeatBit)
          /\ x \div RepeatBit = (IF x < RepeatBit THEN 0 ELSE 1)
      BY <3>1, BitAndCount
    <3>3. x \in Nat \ {0}
      BY <1>1, <3>1 DEF Bytes
    <3>4. x % RepeatBit # 0
      <4>1. SUFFICES ASSUME x % RepeatBit = 0 PROVE FALSE
        OBVIOUS
      <4>2. x \div RepeatBit = 1
        <5> HIDE DEF x
        <5> QED BY <1>1, <3>2, <3>3, <4>1
      <4>3. l.lines = RepeatBit /\ l.repeat = 1
        BY <2>3, <4>1, <4>2
      <4>4. d.lines = l.lines - 1 /\ d.repeat = l.repeat
        BY <2>7
      <4>5. d.lines + 1 >= RepeatBit /\ d.repeat = 1
        BY <1>1, <4>3, <4>4
      <4> QED BY <1>3, <4>5
    <3>5. CountDown(x) = x - 1 /\ x - 1 \in Bytes
      <4>1. CountDown(x) = x - 1 /\ CountDown(x) \in Bytes
        BY <3>1, CountsDown
      <4> QED BY <4>1
    <3>6. /\ (x - 1) % RepeatBit = (IF x - 1 < RepeatBit THEN x - 1 ELSE x - 1 - RepeatBit)
          /\ (x - 1) \div RepeatBit = (IF x - 1 < RepeatBit THEN 0 ELSE 1)
      BY <3>5, BitAndCount
    <3>7. (x - 1) % RepeatBit = (x % RepeatBit) - 1 /\ (x - 1) \div RepeatBit = x \div RepeatBit
      <4> HIDE DEF x
      <4> QED BY <1>1, <3>2, <3>3, <3>4, <3>6
    <3>8. left = (x % RepeatBit) - 1 /\ l.repeat = x \div RepeatBit
      BY <2>3, <3>4
    <3> HIDE DEF x, left
    <3> QED BY <1>1, <3>2, <3>4, <3>5, <3>7, <3>8
  <2>10. length \in 1 .. 2
    BY SetupIs
  <2>11. g.table = e.table /\ g.indirect = e.indirect /\ g.count = CountDown(x)
    BY <2>5
  <2>12. /\ d.active = 1 /\ d.lines = left /\ d.repeat = l.repeat
         /\ left # 0 => d.transfer = l.repeat
         /\ d.next = (IF config.indirect = 1 THEN l.next ELSE after)
         /\ d.from = (IF config.indirect = 1 THEN after ELSE l.from)
    BY <2>3, <2>7
  <2>13. /\ source = (IF config.indirect = 1 THEN l.from ELSE l.next)
         /\ p = (IF config.indirect = 1 THEN k.indirect ELSE k.table)
    BY DEF ReadsFrom, PointerOf
  <2>14. Goes(h) => /\ source = p /\ after = Wrap(p + length) /\ l.transfer = 1
                    /\ e.table = (IF config.indirect = 1 THEN k.table ELSE p + length)
                    /\ e.indirect = (IF config.indirect = 1 THEN p + length ELSE k.indirect)
    <3> SUFFICES ASSUME Goes(h)
                 PROVE  /\ source = p /\ after = Wrap(p + length) /\ l.transfer = 1
                    /\ e.table = (IF config.indirect = 1 THEN k.table ELSE p + length)
                    /\ e.indirect = (IF config.indirect = 1 THEN p + length ELSE k.indirect)
      OBVIOUS
    <3>1. p \in 0 .. BankSize - 1
      <4> HIDE DEF p, length
      <4> QED BY <1>1, <2>8, <2>10
    <3>2. Wrap(p) = p
      BY <3>1, Wrapped
    <3>3. source = Wrap(p)
      BY <2>3, <2>13
    <3>4. l.transfer = 1
      BY <2>3
    <3>5. e = Onwards(config, k, length)
      BY <2>8
    <3> HIDE DEF e, k, l, source
    <3>6. /\ e.table = (IF config.indirect = 1 THEN k.table ELSE p + length)
          /\ e.indirect = (IF config.indirect = 1 THEN p + length ELSE k.indirect)
      BY <2>13, <3>5 DEF Onwards
    <3> QED BY <3>2, <3>3, <3>4, <3>6
  <2>15. ~ Goes(h) => e = k /\ after = source /\ l.transfer = 0
    BY <1>2, <2>3
  <2>16. g.table # Nowhere
    BY <1>3, <2>12
  <2> HIDE DEF l, k, d, g, out, left, length, source, p, after, e, x
  <2>17. d.next = Wrap(g.table)
    BY <2>3, <2>11, <2>12, <2>13, <2>14, <2>15
  <2>18. config.indirect = 1 /\ l.repeat = 1 => d.from = Wrap(g.indirect)
    BY <2>3, <2>11, <2>12, <2>13, <2>14, <2>15
  <2>19. Mates(config, d, g)
    BY <2>3, <2>9, <2>11, <2>12, <2>16, <2>17, <2>18 DEF Mates
  <2>20. RanRegisters(m, config, c, regs) = out
    <3>1. CASE Goes(h)
      <4>1. out = ApplyWrites(regs, config.target, m[p], m[Wrap(p + 1)])
        BY <2>8, <3>1
      <4>2. source = p /\ l.transfer = 1
        BY <2>14, <3>1
      <4> QED BY <1>7, <2>2, <2>3, <4>1, <4>2
    <3>2. CASE ~ Goes(h)
      BY <1>7, <2>6, <2>15, <3>2
    <3> QED BY <3>1, <3>2
  <2> QED BY <2>19, <2>20 DEF d, g, out
<1> QED BY <1>8, <1>9

-----------------------------------------------------------------------------
(* HDMA: a line, read channel by channel.                                  *)

\* A line's registers after each channel, of the console and of the dry run.
ConsoleRegs ==
    LET run(c, given) == run_hdma_channel(tables, setup[c], console[c], given)
        regs[c \in 0 .. Len(setup)] == IF c = 0 THEN screen ELSE run(c, regs[c - 1]).regs
    IN regs
ScanRegs ==
    LET step(c, given) == Dkc2HdmaStepChannel(tables, setup[c], scan[c], given)
        regs[c \in 0 .. Len(setup)] == IF c = 0 THEN foreseen ELSE step(c, regs[c - 1]).regs
    IN regs

\* What the proofs need of the types.
ScanTyped ==
    /\ tables \in Tables /\ setup \in Seq(ChannelSetup)
    /\ line \in 0 .. LastLine + 1 /\ LastLine \in Nat
    /\ screen \in Registers /\ foreseen \in Registers
    /\ console \in [Channels -> ConsoleChannel]
    /\ scan \in [Channels -> ScanChannel]

LEMMA ChannelsAre ==
  ASSUME setup \in Seq(ChannelSetup)
  PROVE  /\ Len(setup) \in Nat /\ Channels = 1 .. Len(setup)
         /\ \A c \in Channels : setup[c] \in ChannelSetup
BY DEF Channels

\* A run of a list of functions, one for each element.
Listed(f, G, a, n, K) ==
    f \in [0 .. n -> K] /\ f = [c \in 0 .. n |-> IF c = 0 THEN a ELSE G[f[c - 1]][c - 1]]
LEMMA ListRun ==
  ASSUME NEW K, NEW G, Stepping(G, K), NEW a \in K, NEW n \in Nat
  PROVE  \E f : Listed(f, G, a, n, K)
<1>1. PICK f \in [0 .. n -> K] : Steps(G, a, f, n)
  BY RunExists DEF Stepping
<1>2. ASSUME NEW c \in 0 .. n PROVE f[c] = IF c = 0 THEN a ELSE G[f[c - 1]][c - 1]
  <2>1. c = 0 \/ (c - 1 \in 0 .. n - 1 /\ (c - 1) + 1 = c)
    OBVIOUS
  <2> QED BY <1>1, <2>1 DEF Steps
<1>3. f = [c \in 0 .. n |-> IF c = 0 THEN a ELSE G[f[c - 1]][c - 1]]
  BY <1>2
<1> QED BY <1>3 DEF Listed

LEMMA WritesKeepRegisters ==
  ASSUME NEW regs \in Registers, NEW target, NEW first \in Bytes, NEW second \in Bytes
  PROVE  ApplyWrites(regs, target, first, second) \in Registers
<1>1. ASSUME NEW r \in Registers, NEW v \in Bytes PROVE ApplyWrite(r, target, v) \in Registers
  BY DEF ApplyWrite, Registers
<1> QED BY <1>1 DEF ApplyWrites

\* The bytes of a line are bytes.
LEMMA RunKeepsRegisters ==
  ASSUME NEW m \in Tables, NEW config \in ChannelSetup, NEW c \in ConsoleChannel, NEW regs \in Registers
  PROVE  RanRegisters(m, config, c, regs) \in Registers
<1> DEFINE l == LineOf(m, config, c)
           source == ReadsFrom(config, l)
<1>1. source \in 0 .. BankSize - 1
  <2>1. l \in ConsoleChannel
    BY LineIs
  <2> HIDE DEF l
  <2> QED BY <2>1 DEF ReadsFrom, ConsoleChannel
<1>2. Wrap(source + 1) \in 0 .. BankSize - 1
  <2> HIDE DEF source
  <2>1. source + 1 \in Int
    BY <1>1, TableAssumption
  <2> QED BY <2>1, Wrapped
<1>3. m[source] \in Bytes /\ m[Wrap(source + 1)] \in Bytes
  <2> HIDE DEF source
  <2> QED BY <1>1, <1>2 DEF Tables
<1>4. RanRegisters(m, config, c, regs) \in {regs, ApplyWrites(regs, config.target, m[source], m[Wrap(source + 1)])}
  BY DEF RanRegisters
<1> HIDE DEF source
<1> QED BY <1>3, <1>4, WritesKeepRegisters

LEMMA StepKeepsRegisters ==
  ASSUME NEW m \in Tables, NEW config \in ChannelSetup, NEW h \in ScanChannel, NEW regs \in Registers
  PROVE  LineStep(m, config, h, regs).regs \in Registers
<1>1. ASSUME NEW r \in Registers, NEW v \in Bytes PROVE ApplyWrite(r, config.target, v) \in Registers
  BY DEF ApplyWrite, Registers
<1>2. ASSUME NEW k \in ScanChannel, NEW r \in Registers
      PROVE  /\ GoingByte(m, config, k, r).regs \in Registers
             /\ GoingByte(m, config, k, r) = [channel |-> GoingByte(m, config, k, r).channel,
                                              regs |-> GoingByte(m, config, k, r).regs,
                                              going |-> GoingByte(m, config, k, r).going]
             /\ GoingByte(m, config, k, r).channel \in ScanChannel
             /\ GoingByte(m, config, k, r).going \in BOOLEAN
  <2> DEFINE p == PointerOf(config, k)
  <2>1. /\ GoingByte(m, config, k, r) =
              IF p < BankSize
              THEN [channel |-> Onwards(config, k, 1),
                    regs |-> ApplyWrite(r, config.target, m[p]), going |-> TRUE]
              ELSE [channel |-> Dropped(k), regs |-> r, going |-> FALSE]
        /\ p \in 0 .. Nowhere
        /\ Dropped(k) \in ScanChannel
        /\ p < BankSize => Onwards(config, k, 1) \in ScanChannel
    BY ONLY ByteIs, m \in Tables, config \in ChannelSetup, k \in ScanChannel
  <2>2. p < BankSize => m[p] \in Bytes
    <3> HIDE DEF p
    <3> QED BY <2>1, TableAssumption DEF Tables, Nowhere
  <2> HIDE DEF p
  <2>3. p < BankSize => ApplyWrite(r, config.target, m[p]) \in Registers
    BY <1>1, <2>2
  <2>4. CASE p < BankSize
    <3> DEFINE w == ApplyWrite(r, config.target, m[p])
    <3>1. /\ GoingByte(m, config, k, r) = [channel |-> Onwards(config, k, 1), regs |-> w, going |-> TRUE]
          /\ w \in Registers /\ Onwards(config, k, 1) \in ScanChannel
      BY <2>1, <2>3, <2>4
    <3> HIDE DEF w
    <3> QED BY <3>1
  <2>5. CASE ~ (p < BankSize)
    <3>1. GoingByte(m, config, k, r) = [channel |-> Dropped(k), regs |-> r, going |-> FALSE]
      BY <2>1, <2>5
    <3>2. Dropped(k) \in ScanChannel
      BY <2>1
    <3> QED BY ONLY <3>1, <3>2, r \in Registers
  <2> QED BY <2>4, <2>5
<1>3. ASSUME NEW k \in ScanChannel PROVE MovedBytes(m, config, k, regs).regs \in Registers
  <2> DEFINE first == GoingByte(m, config, k, regs)
  <2>1. MovedBytes(m, config, k, regs) \in {first, StepByte(m, config, first)}
    BY DEF MovedBytes
  <2>2. /\ first.regs \in Registers /\ first.channel \in ScanChannel /\ first.going \in BOOLEAN
        /\ first = [channel |-> first.channel, regs |-> first.regs, going |-> first.going]
    BY <1>2
  <2> HIDE DEF first
  <2>3. CASE first.going
    <3>1. StepByte(m, config, first) = GoingByte(m, config, first.channel, first.regs)
      BY <2>2, <2>3 DEF GoingByte
    <3> QED BY <1>2, <2>1, <2>2, <3>1
  <2>4. CASE ~ first.going
    <3>1. StepByte(m, config, first) = first
      BY <2>4 DEF StepByte
    <3> QED BY <2>1, <2>2, <3>1
  <2> QED BY <2>3, <2>4
<1>0. /\ Ends(m, config, h) => LineStep(m, config, h, regs).regs = regs
      /\ ~ Ends(m, config, h) => LineStep(m, config, h, regs).regs =
                                   IF Goes(h) THEN LineMoves(m, config, h, regs).regs ELSE regs
  <2>1. StepsTo(m, config, h, regs)
    BY StepIs
  <2> QED BY <2>1 DEF StepsTo
<1>4. CASE Ends(m, config, h)
  BY <1>0, <1>4
<1>5. CASE ~ Ends(m, config, h)
  <2>1. LineStep(m, config, h, regs).regs \in {regs, LineMoves(m, config, h, regs).regs}
    BY <1>0, <1>5
  <2>2. LineMoves(m, config, h, regs).regs \in Registers
    BY <1>3, <1>5, LoadedIs DEF LineMoves
  <2> QED BY <2>1, <2>2
<1> QED BY <1>4, <1>5

LEMMA ConsoleRuns ==
  ASSUME ScanTyped
  PROVE  /\ ConsoleRegs[0] = screen
         /\ \A c \in Channels :
              ConsoleRegs[c] = RanRegisters(tables, setup[c], console[c], ConsoleRegs[c - 1])
         /\ \A c \in 0 .. Len(setup) : ConsoleRegs[c] \in Registers
<1> DEFINE n == Len(setup)
           G == [x \in Registers |-> [i \in Nat |-> IF i + 1 \in Channels
                   THEN RanRegisters(tables, setup[i + 1], console[i + 1], x) ELSE x]]
<1>1. /\ n \in Nat /\ Channels = 1 .. n /\ screen \in Registers /\ tables \in Tables
      /\ \A c \in Channels : setup[c] \in ChannelSetup /\ console[c] \in ConsoleChannel
  BY ChannelsAre DEF ScanTyped
<1>2. Stepping(G, Registers)
  <2>1. ASSUME NEW x \in Registers, NEW i \in Nat
        PROVE (IF i + 1 \in Channels
                   THEN RanRegisters(tables, setup[i + 1], console[i + 1], x) ELSE x) \in Registers
    <3> HIDE DEF n, G
    <3>1. CASE i + 1 \in Channels
      <4>1. setup[i + 1] \in ChannelSetup /\ console[i + 1] \in ConsoleChannel
        BY <1>1, <3>1
      <4>2. RanRegisters(tables, setup[i + 1], console[i + 1], x) \in Registers
        BY <1>1, <4>1, RunKeepsRegisters
      <4> QED BY <3>1, <4>2
    <3>2. CASE i + 1 \notin Channels
      BY <3>2
    <3> QED BY <3>1, <3>2
  <2> QED BY <2>1 DEF Stepping
<1>3. \A x \in Registers, c \in Channels : G[x][c - 1] = RanRegisters(tables, setup[c], console[c], x)
  <2> SUFFICES ASSUME NEW x \in Registers, NEW c \in Channels
               PROVE G[x][c - 1] = RanRegisters(tables, setup[c], console[c], x)
    OBVIOUS
  <2>1. c - 1 \in Nat /\ (c - 1) + 1 = c
    <3> HIDE DEF n
    <3> QED BY <1>1
  <2> QED BY <2>1
<1> HIDE DEF G
<1>3a. PICK f : Listed(f, G, screen, n, Registers)
  <2> HIDE DEF n
  <2> QED BY <1>1, <1>2, ListRun
<1>4. f \in [0 .. n -> Registers] /\ f = [c \in 0 .. n |-> IF c = 0 THEN screen ELSE G[f[c - 1]][c - 1]]
  BY <1>3a DEF Listed
<1>5. ASSUME NEW c \in Channels, NEW r
      PROVE  run_hdma_channel(tables, setup[c], console[c], r).regs
               = RanRegisters(tables, setup[c], console[c], r)
  <2>1. setup[c] \in ChannelSetup /\ console[c] \in ConsoleChannel /\ tables \in Tables
    BY <1>1
  <2> QED BY <2>1, RunIs
<1>6. ASSUME NEW c \in 0 .. n
      PROVE  f[c] = IF c = 0 THEN screen
                    ELSE run_hdma_channel(tables, setup[c], console[c], f[c - 1]).regs
  <2> HIDE DEF n
  <2>1. c = 0 \/ (c \in Channels /\ c - 1 \in 0 .. n)
    BY <1>1
  <2>2. CASE c = 0
    BY <1>4, <2>2
  <2>3. CASE c # 0
    <3>1. f[c] = G[f[c - 1]][c - 1] /\ f[c - 1] \in Registers /\ c \in Channels
      BY <1>4, <2>1, <2>3
    <3> QED BY <1>3, <1>5, <2>3, <3>1
  <2> QED BY <2>2, <2>3
<1>7. f = [c \in 0 .. n |-> IF c = 0 THEN screen
                            ELSE run_hdma_channel(tables, setup[c], console[c], f[c - 1]).regs]
  <2> HIDE DEF n
  <2> QED BY <1>4, <1>6
<1> DEFINE g == ConsoleRegs
<1>8. g = [c \in 0 .. n |-> IF c = 0 THEN screen
                            ELSE run_hdma_channel(tables, setup[c], console[c], g[c - 1]).regs]
  BY <1>7 DEF ConsoleRegs
<1> HIDE DEF g, n
<1>9. g[0] = screen
  BY <1>1, <1>8
<1>10. ASSUME NEW c \in Channels PROVE g[c] = RanRegisters(tables, setup[c], console[c], g[c - 1])
  <2>1. c \in 0 .. n /\ c # 0
    BY <1>1
  <2>2. g[c] = run_hdma_channel(tables, setup[c], console[c], g[c - 1]).regs
    BY <1>8, <2>1
  <2> QED BY <1>5, <2>2
<1>11. \A c \in 0 .. n : g[c] \in Registers
  <2> DEFINE T == {c \in Nat : c <= n => g[c] \in Registers}
  <2>1. 0 \in T
    BY <1>1, <1>9
  <2>2. ASSUME NEW c \in Nat, c \in T PROVE c + 1 \in T
    <3> SUFFICES ASSUME c + 1 <= n PROVE g[c + 1] \in Registers
      OBVIOUS
    <3>1. c <= n /\ c + 1 \in Channels /\ (c + 1) - 1 = c
      BY <1>1
    <3>2. g[c] \in Registers /\ setup[c + 1] \in ChannelSetup /\ console[c + 1] \in ConsoleChannel
      BY <1>1, <2>2, <3>1
    <3>3. g[c + 1] = RanRegisters(tables, setup[c + 1], console[c + 1], g[c])
      BY <1>10, <3>1
    <3> QED BY <1>1, <3>2, <3>3, RunKeepsRegisters
  <2>3. Nat \subseteq T
    <3> HIDE DEF T
    <3> QED BY <2>1, <2>2, Induction
  <2> QED BY <1>1, <2>3
<1> QED BY <1>9, <1>10, <1>11 DEF g, n

LEMMA ScanRuns ==
  ASSUME ScanTyped
  PROVE  /\ ScanRegs[0] = foreseen
         /\ \A c \in Channels :
              ScanRegs[c] = LineStep(tables, setup[c], scan[c], ScanRegs[c - 1]).regs
         /\ \A c \in 0 .. Len(setup) : ScanRegs[c] \in Registers
<1> DEFINE n == Len(setup)
           G == [x \in Registers |-> [i \in Nat |-> IF i + 1 \in Channels
                   THEN LineStep(tables, setup[i + 1], scan[i + 1], x).regs ELSE x]]
<1>1. /\ n \in Nat /\ Channels = 1 .. n /\ foreseen \in Registers /\ tables \in Tables
      /\ \A c \in Channels : setup[c] \in ChannelSetup /\ scan[c] \in ScanChannel
  BY ChannelsAre DEF ScanTyped
<1>2. Stepping(G, Registers)
  <2>1. ASSUME NEW x \in Registers, NEW i \in Nat
        PROVE (IF i + 1 \in Channels
                   THEN LineStep(tables, setup[i + 1], scan[i + 1], x).regs ELSE x) \in Registers
    <3> HIDE DEF n, G
    <3>1. CASE i + 1 \in Channels
      <4>1. setup[i + 1] \in ChannelSetup /\ scan[i + 1] \in ScanChannel
        BY <1>1, <3>1
      <4>2. LineStep(tables, setup[i + 1], scan[i + 1], x).regs \in Registers
        BY <1>1, <4>1, StepKeepsRegisters
      <4> QED BY <3>1, <4>2
    <3>2. CASE i + 1 \notin Channels
      BY <3>2
    <3> QED BY <3>1, <3>2
  <2> QED BY <2>1 DEF Stepping
<1>3. \A x \in Registers, c \in Channels : G[x][c - 1] = LineStep(tables, setup[c], scan[c], x).regs
  <2> SUFFICES ASSUME NEW x \in Registers, NEW c \in Channels
               PROVE G[x][c - 1] = LineStep(tables, setup[c], scan[c], x).regs
    OBVIOUS
  <2>1. c - 1 \in Nat /\ (c - 1) + 1 = c
    <3> HIDE DEF n
    <3> QED BY <1>1
  <2> QED BY <2>1
<1> HIDE DEF G
<1>3a. PICK f : Listed(f, G, foreseen, n, Registers)
  <2> HIDE DEF n
  <2> QED BY <1>1, <1>2, ListRun
<1>4. f \in [0 .. n -> Registers] /\ f = [c \in 0 .. n |-> IF c = 0 THEN foreseen ELSE G[f[c - 1]][c - 1]]
  BY <1>3a DEF Listed
<1>5. ASSUME NEW c \in Channels, NEW r
      PROVE  Dkc2HdmaStepChannel(tables, setup[c], scan[c], r).regs
               = LineStep(tables, setup[c], scan[c], r).regs
  <2>1. setup[c] \in ChannelSetup /\ scan[c] \in ScanChannel /\ tables \in Tables
    BY <1>1
  <2> QED BY <2>1 DEF LineStep
<1>6. ASSUME NEW c \in 0 .. n
      PROVE  f[c] = IF c = 0 THEN foreseen
                    ELSE Dkc2HdmaStepChannel(tables, setup[c], scan[c], f[c - 1]).regs
  <2> HIDE DEF n
  <2>1. c = 0 \/ (c \in Channels /\ c - 1 \in 0 .. n)
    BY <1>1
  <2>2. CASE c = 0
    BY <1>4, <2>2
  <2>3. CASE c # 0
    <3>1. f[c] = G[f[c - 1]][c - 1] /\ f[c - 1] \in Registers /\ c \in Channels
      BY <1>4, <2>1, <2>3
    <3> QED BY <1>3, <1>5, <2>3, <3>1
  <2> QED BY <2>2, <2>3
<1>7. f = [c \in 0 .. n |-> IF c = 0 THEN foreseen
                            ELSE Dkc2HdmaStepChannel(tables, setup[c], scan[c], f[c - 1]).regs]
  <2> HIDE DEF n
  <2> QED BY <1>4, <1>6
<1> DEFINE g == ScanRegs
<1>8. g = [c \in 0 .. n |-> IF c = 0 THEN foreseen
                            ELSE Dkc2HdmaStepChannel(tables, setup[c], scan[c], g[c - 1]).regs]
  BY <1>7 DEF ScanRegs
<1> HIDE DEF g, n
<1>9. g[0] = foreseen
  BY <1>1, <1>8
<1>10. ASSUME NEW c \in Channels PROVE g[c] = LineStep(tables, setup[c], scan[c], g[c - 1]).regs
  <2>1. c \in 0 .. n /\ c # 0
    BY <1>1
  <2>2. g[c] = Dkc2HdmaStepChannel(tables, setup[c], scan[c], g[c - 1]).regs
    BY <1>8, <2>1
  <2> QED BY <1>5, <2>2
<1>11. \A c \in 0 .. n : g[c] \in Registers
  <2> DEFINE T == {c \in Nat : c <= n => g[c] \in Registers}
  <2>1. 0 \in T
    BY <1>1, <1>9
  <2>2. ASSUME NEW c \in Nat, c \in T PROVE c + 1 \in T
    <3> SUFFICES ASSUME c + 1 <= n PROVE g[c + 1] \in Registers
      OBVIOUS
    <3>1. c <= n /\ c + 1 \in Channels /\ (c + 1) - 1 = c
      BY <1>1
    <3>2. g[c] \in Registers /\ setup[c + 1] \in ChannelSetup /\ scan[c + 1] \in ScanChannel
      BY <1>1, <2>2, <3>1
    <3>3. g[c + 1] = LineStep(tables, setup[c + 1], scan[c + 1], g[c]).regs
      BY <1>10, <3>1
    <3> QED BY <1>1, <3>2, <3>3, StepKeepsRegisters
  <2>3. Nat \subseteq T
    <3> HIDE DEF T
    <3> QED BY <2>1, <2>2, Induction
  <2> QED BY <1>1, <2>3
<1> QED BY <1>9, <1>10, <1>11 DEF g, n

\* The lines of the two, as their channels' lines.
LEMMA LinesAre ==
  ASSUME ScanTyped
  PROVE  /\ ConsoleLine.regs = ConsoleRegs[Len(setup)] /\ ScanLine.regs = ScanRegs[Len(setup)]
         /\ ConsoleLine.channels = [c \in Channels |-> Ran(tables, setup[c], console[c])]
         /\ ScanLine.channels = [c \in Channels |-> LineStep(tables, setup[c], scan[c], ScanRegs[c - 1]).channel]
         /\ ConsoleLine.channels \in [Channels -> ConsoleChannel]
         /\ ScanLine.channels \in [Channels -> ScanChannel]
         /\ ConsoleLine.regs \in Registers /\ ScanLine.regs \in Registers
<1>1. /\ Len(setup) \in Nat /\ Channels = 1 .. Len(setup) /\ tables \in Tables
      /\ \A c \in Channels : /\ setup[c] \in ChannelSetup /\ console[c] \in ConsoleChannel
                              /\ scan[c] \in ScanChannel
  BY ChannelsAre DEF ScanTyped
<1>2. /\ ConsoleLine.regs = ConsoleRegs[Len(setup)]
      /\ ConsoleLine.channels =
           [c \in Channels |-> run_hdma_channel(tables, setup[c], console[c], ConsoleRegs[c - 1]).s]
  BY DEF ConsoleLine, ConsoleRegs
<1>3. /\ ScanLine.regs = ScanRegs[Len(setup)]
      /\ ScanLine.channels =
           [c \in Channels |-> LineStep(tables, setup[c], scan[c], ScanRegs[c - 1]).channel]
  BY DEF ScanLine, ScanRegs, LineStep
<1>4. ASSUME NEW c \in Channels
      PROVE  /\ run_hdma_channel(tables, setup[c], console[c], ConsoleRegs[c - 1]).s
                  = Ran(tables, setup[c], console[c])
             /\ Ran(tables, setup[c], console[c]) \in ConsoleChannel
  BY <1>1, RunIs
<1>5. ASSUME NEW c \in Channels
      PROVE  LineStep(tables, setup[c], scan[c], ScanRegs[c - 1]).channel \in ScanChannel
  <2>1. setup[c] \in ChannelSetup /\ scan[c] \in ScanChannel
    BY <1>1
  <2>2. StepsTo(tables, setup[c], scan[c], ScanRegs[c - 1])
    BY <1>1, <2>1, StepIs
  <2> QED BY <2>2 DEF StepsTo
<1>6. Len(setup) \in 0 .. Len(setup)
  BY <1>1
<1>7. ConsoleLine.regs \in Registers /\ ScanLine.regs \in Registers
  BY <1>2, <1>3, <1>6, ConsoleRuns, ScanRuns
<1> QED BY <1>2, <1>3, <1>4, <1>5, <1>7

\* The channels of a frame the two have not parted on.
Together ==
    /\ screen = foreseen
    /\ \A c \in Channels : Mates(setup[c], console[c], scan[c])

\* A line keeps them together, unless it parts them.
LEMMA LineKeepsTogether ==
  ASSUME ScanTyped, ScanStep, Together, ~ parted'
  PROVE  Together'
<1>1. /\ Len(setup) \in Nat /\ Channels = 1 .. Len(setup) /\ tables \in Tables
      /\ \A c \in Channels : /\ setup[c] \in ChannelSetup /\ console[c] \in ConsoleChannel
                              /\ scan[c] \in ScanChannel
  BY ChannelsAre DEF ScanTyped
<1>2. /\ screen' = ConsoleRegs[Len(setup)] /\ foreseen' = ScanRegs[Len(setup)]
      /\ console' = [c \in Channels |-> Ran(tables, setup[c], console[c])]
      /\ scan' = [c \in Channels |-> LineStep(tables, setup[c], scan[c], ScanRegs[c - 1]).channel]
      /\ setup' = setup
  BY LinesAre DEF ScanStep
<1>3. Channels' = Channels
  BY <1>2 DEF Channels
<1>4. ASSUME NEW c \in Channels
      PROVE  /\ ~ (scan'[c].table = Nowhere /\ console'[c].active = 1)
             /\ ~ (console'[c].lines + 1 >= RepeatBit /\ console'[c].repeat = 1)
  <2>1. ~ RanOff' /\ ~ LongRepeat'
    BY DEF ScanStep
  <2> QED BY <1>3, <2>1 DEF RanOff, LongRepeat
<1>5. ASSUME NEW c \in Channels
      PROVE  /\ Mates(setup[c], console'[c], scan'[c])
             /\ RanRegisters(tables, setup[c], console[c], ScanRegs[c - 1])
                  = LineStep(tables, setup[c], scan[c], ScanRegs[c - 1]).regs
  <2>1. /\ setup[c] \in ChannelSetup /\ console[c] \in ConsoleChannel /\ scan[c] \in ScanChannel
        /\ Mates(setup[c], console[c], scan[c])
    BY <1>1 DEF Together
  <2>2. /\ console'[c] = Ran(tables, setup[c], console[c])
        /\ scan'[c] = LineStep(tables, setup[c], scan[c], ScanRegs[c - 1]).channel
    BY <1>2
  <2>3. /\ ~ (LineStep(tables, setup[c], scan[c], ScanRegs[c - 1]).channel.table = Nowhere
               /\ Ran(tables, setup[c], console[c]).active = 1)
        /\ ~ (Ran(tables, setup[c], console[c]).lines + 1 >= RepeatBit
               /\ Ran(tables, setup[c], console[c]).repeat = 1)
    BY <1>4, <2>2
  <2>4. /\ Mates(setup[c], Ran(tables, setup[c], console[c]),
                 LineStep(tables, setup[c], scan[c], ScanRegs[c - 1]).channel)
        /\ RanRegisters(tables, setup[c], console[c], ScanRegs[c - 1])
                  = LineStep(tables, setup[c], scan[c], ScanRegs[c - 1]).regs
    BY ONLY <1>1, <2>1, <2>3, LinesAgree
  <2> QED BY <2>2, <2>4
<1>6. \A c \in 0 .. Len(setup) : ConsoleRegs[c] = ScanRegs[c]
  <2> DEFINE T == {c \in Nat : c <= Len(setup) => ConsoleRegs[c] = ScanRegs[c]}
  <2>1. 0 \in T
    BY ConsoleRuns, ScanRuns DEF Together
  <2>2. ASSUME NEW c \in Nat, c \in T PROVE c + 1 \in T
    <3> SUFFICES ASSUME c + 1 <= Len(setup) PROVE ConsoleRegs[c + 1] = ScanRegs[c + 1]
      OBVIOUS
    <3>1. c <= Len(setup) /\ c + 1 \in Channels /\ (c + 1) - 1 = c
      BY <1>1
    <3>2. ConsoleRegs[c] = ScanRegs[c]
      BY <2>2, <3>1
    <3>3. /\ ConsoleRegs[c + 1] = RanRegisters(tables, setup[c + 1], console[c + 1], ConsoleRegs[(c + 1) - 1])
          /\ ScanRegs[c + 1] = LineStep(tables, setup[c + 1], scan[c + 1], ScanRegs[(c + 1) - 1]).regs
      BY <3>1, ConsoleRuns, ScanRuns
    <3>4. RanRegisters(tables, setup[c + 1], console[c + 1], ScanRegs[(c + 1) - 1])
            = LineStep(tables, setup[c + 1], scan[c + 1], ScanRegs[(c + 1) - 1]).regs
      BY <1>5, <3>1
    <3> QED BY <3>1, <3>2, <3>3, <3>4
  <2>3. Nat \subseteq T
    <3> HIDE DEF T
    <3> QED BY <2>1, <2>2, Induction
  <2> QED BY <1>1, <2>3
<1>7. screen' = foreseen'
  BY <1>1, <1>2, <1>6
<1> QED BY <1>2, <1>3, <1>5, <1>7 DEF Together

\* The bands end at the last line drawn, hold every line drawn, and show what
\* it was drawn with as long as the two are together.
Looks == {Visible(r) : r \in Registers}
Band == [first : Nat, last : Nat, regs : Looks]

ScanInv ==
    /\ ScanTyped
    /\ shown \in Seq(Looks) /\ bands \in Seq(Band)
    /\ Len(shown) = IF line = 0 THEN 0 ELSE line - 1
    /\ bands # <<>> => bands[Len(bands)].last = Len(shown)
    /\ \A i \in DOMAIN bands : bands[i].first \in 1 .. Len(shown) /\ bands[i].last \in 1 .. Len(shown)
    /\ \A y \in 1 .. Len(shown) : \E i \in DOMAIN bands : bands[i].first <= y /\ y <= bands[i].last
    /\ ~ parted =>
         /\ Together
         /\ \A i \in DOMAIN bands : \A y \in bands[i].first .. bands[i].last : bands[i].regs = shown[y]

\* An element of a sequence replaced.
LEMMA Replaced ==
  ASSUME NEW S, NEW s \in Seq(S), NEW i \in 1 .. Len(s), NEW e \in S
  PROVE  /\ [s EXCEPT ![i] = e] \in Seq(S) /\ Len([s EXCEPT ![i] = e]) = Len(s)
         /\ [s EXCEPT ![i] = e][i] = e
         /\ \A j \in 1 .. Len(s) : j # i => [s EXCEPT ![i] = e][j] = s[j]
<1> DEFINE t == [s EXCEPT ![i] = e]
<1>1. Len(s) \in Nat /\ s \in [1 .. Len(s) -> S]
  OBVIOUS
<1>2. t \in [1 .. Len(s) -> S] /\ t[i] = e /\ \A j \in 1 .. Len(s) : j # i => t[j] = s[j]
  BY <1>1
<1> HIDE DEF t
<1>3. t \in Seq(S) /\ Len(t) = Len(s)
  BY <1>1, <1>2
<1> QED BY <1>2, <1>3 DEF t

LEMMA ScanStarts ==
  ASSUME ScanInit(Tables, Seq(ChannelSetup))
  PROVE  ScanInv
<1>1. /\ tables \in Tables /\ setup \in Seq(ChannelSetup) /\ line = 0 /\ foreseen = screen
      /\ console = [c \in Channels |-> initialize_hdma(setup[c], IdleChannel)]
      /\ scan = [c \in Channels |-> StartChannel(setup[c])]
      /\ screen = [high |-> 0, low |-> 0, prev |-> 0, layers |-> 0]
      /\ shown = <<>> /\ bands = <<>>
  BY DEF ScanInit
<1>2. RepeatBit \in Nat \ {0} /\ BankSize \in Nat \ {0} /\ LastLine \in Nat /\ Nowhere = BankSize + 1
      /\ 0 \in Bytes
  BY TableAssumption, LineAssumption DEF Bytes, Nowhere
<1>3. ASSUME NEW config \in ChannelSetup
      PROVE  /\ initialize_hdma(config, IdleChannel) \in ConsoleChannel
             /\ StartChannel(config) \in ScanChannel
             /\ Mates(config, initialize_hdma(config, IdleChannel), StartChannel(config))
  <2> DEFINE c == initialize_hdma(config, IdleChannel)
             h == StartChannel(config)
  <2>1. config.table \in 0 .. BankSize - 1 /\ config.on \in 0 .. 1
    BY SetupIs
  <2>2. c = [active |-> config.on, transfer |-> config.on, repeat |-> 0, lines |-> 0,
             next |-> IF config.on = 1 THEN config.table ELSE 0, from |-> 0, counter |-> 0]
    <3>1. ASSUME NEW on, NEW next, NEW counter
          PROVE  [IdleChannel EXCEPT !.active = on, !.transfer = on, !.repeat = 0, !.lines = 0,
                                     !.next = next, !.counter = counter]
                   = [active |-> on, transfer |-> on, repeat |-> 0, lines |-> 0,
                      next |-> next, from |-> 0, counter |-> counter]
      <4> DEFINE idle == IdleChannel
                 one == [idle EXCEPT !.active = on]
                 two == [one EXCEPT !.transfer = on]
                 three == [two EXCEPT !.repeat = 0]
                 four == [three EXCEPT !.lines = 0]
                 five == [four EXCEPT !.next = next]
                 six == [five EXCEPT !.counter = counter]
      <4>1. idle = [active |-> 0, transfer |-> 0, repeat |-> 0, lines |-> 0, next |-> 0, from |-> 0, counter |-> 0]
        BY DEF IdleChannel
      <4>2. [idle EXCEPT !.active = on, !.transfer = on, !.repeat = 0, !.lines = 0, !.next = next,
                         !.counter = counter] = six
        OBVIOUS
      <4> HIDE DEF idle
      <4>3. one = [active |-> on, transfer |-> 0, repeat |-> 0, lines |-> 0, next |-> 0, from |-> 0, counter |-> 0]
        BY <4>1
      <4> HIDE DEF one
      <4>4. two = [active |-> on, transfer |-> on, repeat |-> 0, lines |-> 0, next |-> 0, from |-> 0, counter |-> 0]
        BY <4>3
      <4> HIDE DEF two
      <4>4a. three = [active |-> on, transfer |-> on, repeat |-> 0, lines |-> 0, next |-> 0, from |-> 0, counter |-> 0]
        BY <4>4
      <4> HIDE DEF three
      <4>5. four = [active |-> on, transfer |-> on, repeat |-> 0, lines |-> 0, next |-> 0, from |-> 0, counter |-> 0]
        BY <4>4a
      <4> HIDE DEF four
      <4>6. five = [active |-> on, transfer |-> on, repeat |-> 0, lines |-> 0, next |-> next, from |-> 0, counter |-> 0]
        BY <4>5
      <4> HIDE DEF five
      <4>7. six = [active |-> on, transfer |-> on, repeat |-> 0, lines |-> 0, next |-> next, from |-> 0, counter |-> counter]
        BY <4>6
      <4> QED BY <4>2, <4>7 DEF idle
    <3>2. IdleChannel.next = 0 /\ IdleChannel.counter = 0
      BY DEF IdleChannel
    <3> DEFINE on == config.on
               next == IF config.on = 1 THEN config.table ELSE IdleChannel.next
               counter == IF config.on = 1 THEN 0 ELSE IdleChannel.counter
    <3>3. c = [IdleChannel EXCEPT !.active = on, !.transfer = on, !.repeat = 0, !.lines = 0,
                                  !.next = next, !.counter = counter]
      BY DEF initialize_hdma
    <3>4. counter = 0 /\ next = IF config.on = 1 THEN config.table ELSE 0
      BY <3>2
    <3> HIDE DEF c, on, next, counter
    <3>5. c = [active |-> on, transfer |-> on, repeat |-> 0, lines |-> 0,
               next |-> next, from |-> 0, counter |-> counter]
      BY <3>1, <3>3
    <3> QED BY <3>4, <3>5 DEF on
  <2>3. h = [table |-> IF config.on = 1 THEN config.table ELSE Nowhere, indirect |-> Nowhere, count |-> 0]
    BY DEF StartChannel
  <2>4. c \in ConsoleChannel
    <3> HIDE DEF c
    <3> QED BY <1>2, <2>1, <2>2 DEF ConsoleChannel
  <2>5. h \in ScanChannel
    <3> HIDE DEF h
    <3> QED BY <1>2, <2>1, <2>3 DEF ScanChannel
  <2>6. /\ c.active = config.on /\ c.lines = 0 /\ (config.on = 1 => c.next = config.table)
        /\ h.count = 0 /\ (config.on = 1 => h.table = config.table) /\ (config.on = 0 => h.table = Nowhere)
    BY <2>2, <2>3
  <2>7. 0 % RepeatBit = 0 /\ Wrap(config.table) = config.table
    <3>1. 0 \in 0 .. RepeatBit - 1
      BY <1>2
    <3> QED BY <1>2, <2>1, <3>1, ModSame, Wrapped
  <2> HIDE DEF c, h
  <2>8. config.on = 1 => config.table # Nowhere
    BY <1>2, <2>1
  <2>9. Mates(config, c, h)
    BY <2>1, <2>6, <2>7, <2>8 DEF Mates
  <2> QED BY <2>4, <2>5, <2>9 DEF c, h
<1>4. /\ Len(setup) \in Nat /\ Channels = 1 .. Len(setup)
      /\ \A c \in Channels : setup[c] \in ChannelSetup
  BY <1>1, ChannelsAre
<1>5. ScanTyped
  <2>1. screen \in Registers
    BY <1>1, <1>2 DEF Registers
  <2>2. console \in [Channels -> ConsoleChannel] /\ scan \in [Channels -> ScanChannel]
    BY <1>1, <1>3, <1>4
  <2> QED BY <1>1, <1>2, <2>1, <2>2 DEF ScanTyped
<1>6. Together
  BY <1>1, <1>3, <1>4 DEF Together
<1>7. shown \in Seq(Looks) /\ bands \in Seq(Band) /\ Len(shown) = 0 /\ DOMAIN bands = {}
  BY <1>1
<1> QED BY <1>1, <1>5, <1>6, <1>7 DEF ScanInv

LEMMA ScanTypesKept ==
  ASSUME ScanTyped, [ScanStep]_scanVars
  PROVE  ScanTyped'
<1>1. CASE ScanStep
  <2>1. /\ tables' = tables /\ setup' = setup /\ line' = line + 1 /\ line <= LastLine
        /\ screen' = ConsoleLine.regs /\ foreseen' = ScanLine.regs
        /\ console' = ConsoleLine.channels /\ scan' = ScanLine.channels
    BY <1>1 DEF ScanStep
  <2>2. Channels' = Channels
    BY <2>1 DEF Channels
  <2>3. line' \in 0 .. LastLine + 1
    BY <2>1 DEF ScanTyped
  <2>4. /\ ConsoleLine.channels \in [Channels -> ConsoleChannel]
        /\ ScanLine.channels \in [Channels -> ScanChannel]
        /\ ConsoleLine.regs \in Registers /\ ScanLine.regs \in Registers
    BY LinesAre
  <2> QED BY <2>1, <2>2, <2>3, <2>4 DEF ScanTyped
<1>2. CASE UNCHANGED scanVars
  BY <1>2 DEF scanVars, ScanTyped, Channels
<1> QED BY <1>1, <1>2

\* A line extends the last band or begins one, and shows what the band shows.
LEMMA ScanKeeps ==
  ASSUME ScanInv, [ScanStep]_scanVars
  PROVE  ScanInv'
<1>1. CASE UNCHANGED scanVars
  <2>1. Together' <=> Together
    BY <1>1 DEF scanVars, Together, Channels
  <2>2. ScanTyped'
    BY <1>1, ScanTypesKept DEF ScanInv
  <2> QED BY <1>1, <2>1, <2>2 DEF scanVars, ScanInv
<1>2. CASE ScanStep
  <2> DEFINE n == Len(shown)
             look == Visible(screen)
             guess == Visible(foreseen)
  <2>1. /\ ScanTyped /\ shown \in Seq(Looks) /\ bands \in Seq(Band)
        /\ n = (IF line = 0 THEN 0 ELSE line - 1) /\ n \in Nat
        /\ bands # <<>> => bands[Len(bands)].last = n
        /\ \A i \in DOMAIN bands : bands[i].first \in 1 .. n /\ bands[i].last \in 1 .. n
        /\ \A y \in 1 .. n : \E i \in DOMAIN bands : bands[i].first <= y /\ y <= bands[i].last
        /\ ~ parted =>
             /\ Together
             /\ \A i \in DOMAIN bands : \A y \in bands[i].first .. bands[i].last : bands[i].regs = shown[y]
    BY DEF ScanInv
  <2>2. ScanTyped'
    BY <1>2, <2>1, ScanTypesKept
  <2>3. ~ parted' => ~ parted /\ Together /\ Together'
    <3>1. ~ parted' => ~ parted
      BY <1>2 DEF ScanStep
    <3> QED BY <1>2, <2>1, <3>1, LineKeepsTogether
  <2>4. look \in Looks /\ guess \in Looks /\ line \in Nat
    BY <2>1 DEF Looks, ScanTyped
  <2>5. /\ bands' = RecordBand /\ line' = line + 1
        /\ shown' = IF line = 0 THEN shown ELSE Append(shown, look)
    BY <1>2 DEF ScanStep
  <2>6. ~ parted' => look = guess
    BY <2>3 DEF Together
  <2> HIDE DEF look, guess
  <2>7. CASE line = 0
    <3>1. n = 0 /\ bands' = bands /\ shown' = shown /\ line' = 1
      BY <2>1, <2>5, <2>7 DEF RecordBand
    <3>2. DOMAIN bands = {}
      BY <2>1, <3>1
    <3> QED BY <2>1, <2>2, <2>3, <3>1, <3>2 DEF ScanInv
  <2>8. CASE line # 0
    <3>1. /\ n + 1 = line /\ shown' = Append(shown, look) /\ line' = n + 2 /\ line' # 0
      BY <2>1, <2>4, <2>5, <2>8
    <3>2. /\ shown' \in Seq(Looks) /\ Len(shown') = n + 1 /\ shown'[n + 1] = look
          /\ \A y \in 1 .. n : shown'[y] = shown[y]
      BY <2>1, <2>4, <3>1
    <3>3. Len(shown') = IF line' = 0 THEN 0 ELSE line' - 1
      BY <2>1, <3>1, <3>2
    <3> DEFINE b == Len(bands)
    <3>4. b \in Nat /\ DOMAIN bands = 1 .. b /\ (bands # <<>> <=> b # 0)
      BY <2>1
    <3>5. CASE Dkc2HdmaBandMatches
      <4>1. b # 0 /\ bands[b].regs = guess
        BY <3>4, <3>5 DEF Dkc2HdmaBandMatches, Last, guess
      <4>2. bands' = [bands EXCEPT ![b].last = n + 1]
        BY <2>5, <2>8, <3>1, <3>5 DEF RecordBand
      <4>3. bands[b] \in Band /\ b \in 1 .. b
        BY <2>1, <3>4, <4>1
      <4> DEFINE wide == [bands[b] EXCEPT !.last = n + 1]
      <4>4. wide \in Band /\ wide.first = bands[b].first /\ wide.last = n + 1 /\ wide.regs = guess
        <5>1. bands[b] = [first |-> bands[b].first, last |-> bands[b].last, regs |-> bands[b].regs]
              /\ bands[b].first \in Nat /\ bands[b].regs \in Looks
          BY <4>3 DEF Band
        <5>2. wide = [first |-> bands[b].first, last |-> n + 1, regs |-> bands[b].regs]
          BY <5>1
        <5>3. n + 1 \in Nat
          BY <2>1
        <5> HIDE DEF wide, b, n
        <5> QED BY <4>1, <5>1, <5>2, <5>3 DEF Band
      <4>5. bands' = [bands EXCEPT ![b] = wide]
        BY <4>2
      <4> HIDE DEF wide, b, n
      <4>6. /\ bands' \in Seq(Band) /\ Len(bands') = b /\ bands'[b] = wide
            /\ \A i \in 1 .. b : i # b => bands'[i] = bands[i]
            /\ DOMAIN bands' = 1 .. b
        <5>1. bands \in Seq(Band) /\ b = Len(bands) /\ b \in 1 .. Len(bands)
          BY <2>1, <4>3 DEF b
        <5>2. /\ bands' \in Seq(Band) /\ Len(bands') = Len(bands) /\ bands'[b] = wide
              /\ \A i \in 1 .. Len(bands) : i # b => bands'[i] = bands[i]
          BY ONLY <4>4, <4>5, <5>1, Replaced
        <5> QED BY <5>1, <5>2
      <4>7. bands' # <<>> => bands'[Len(bands')].last = Len(shown')
        BY <3>2, <4>4, <4>6
      <4>8. \A i \in DOMAIN bands' : bands'[i].first \in 1 .. Len(shown') /\ bands'[i].last \in 1 .. Len(shown')
        <5> SUFFICES ASSUME NEW i \in 1 .. b
                     PROVE bands'[i].first \in 1 .. n + 1 /\ bands'[i].last \in 1 .. n + 1
          BY <3>2, <4>6
        <5>1. bands[i].first \in 1 .. n /\ bands[i].last \in 1 .. n
          BY <2>1, <3>4
        <5>2. CASE i # b
          <6>1. bands'[i] = bands[i]
            BY <4>6, <5>2
          <6> QED BY <2>1, <5>1, <6>1
        <5>3. CASE i = b
          <6>1. bands'[i].first = bands[i].first /\ bands'[i].last = n + 1
            BY <4>4, <4>6, <5>3
          <6> QED BY <2>1, <5>1, <6>1
        <5> QED BY <5>2, <5>3
      <4>9. ASSUME NEW y \in 1 .. Len(shown')
            PROVE  \E i \in DOMAIN bands' : bands'[i].first <= y /\ y <= bands'[i].last
        <5>1. CASE y = n + 1
          <6>1. bands[b].first \in 1 .. n
            BY <2>1, <3>4, <4>3
          <6>2. bands'[b].first = bands[b].first /\ bands'[b].last = n + 1 /\ b \in DOMAIN bands'
            BY <4>3, <4>4, <4>6
          <6>3. bands'[b].first <= y /\ y <= bands'[b].last
            BY <2>1, <5>1, <6>1, <6>2
          <6> QED BY <6>2, <6>3
        <5>2. CASE y \in 1 .. n
          <6>1. PICK i \in 1 .. b : bands[i].first <= y /\ y <= bands[i].last
            BY <2>1, <3>4, <5>2
          <6>2. CASE i # b
            BY <4>6, <6>1, <6>2
          <6>3. CASE i = b
            <7>1. bands'[b].first <= y /\ y <= bands'[b].last
              BY <2>1, <4>4, <4>6, <5>2, <6>1, <6>3
            <7> QED BY <4>3, <4>6, <7>1
          <6> QED BY <6>2, <6>3
        <5> QED BY <2>1, <3>2, <5>1, <5>2
      <4>10. ASSUME ~ parted', NEW i \in DOMAIN bands', NEW y \in bands'[i].first .. bands'[i].last
             PROVE  bands'[i].regs = shown'[y]
        <5>1. i \in 1 .. b /\ (\A j \in 1 .. b : \A z \in bands[j].first .. bands[j].last : bands[j].regs = shown[z])
          BY <2>1, <2>3, <3>4, <4>6, <4>10
        <5>2. bands[i].first \in 1 .. n /\ bands[i].last \in 1 .. n
          BY <2>1, <3>4, <5>1
        <5>3. CASE i # b
          <6>1. bands'[i] = bands[i]
            BY <4>6, <5>1, <5>3
          <6>2. y \in bands[i].first .. bands[i].last /\ y \in 1 .. n
            <7>1. y \in bands[i].first .. bands[i].last
              BY <6>1
            <7> QED BY <2>1, <5>2, <7>1
          <6> QED BY <3>2, <5>1, <6>1, <6>2
        <5>4. CASE i = b
          <6>1. bands'[i] = wide /\ bands[b].last = n
            <7>1. bands[Len(bands)].last = n
              BY <2>1, <3>4, <4>1 DEF b
            <7> QED BY <4>6, <5>4, <7>1 DEF b
          <6>2. CASE y = n + 1
            BY <2>6, <3>2, <4>4, <4>10, <6>1, <6>2
          <6>3. CASE y # n + 1
            <7>1. y \in bands[b].first .. bands[b].last /\ y \in 1 .. n
              BY <2>1, <4>4, <5>2, <5>4, <6>1, <6>3
            <7>2. bands[b].regs = shown[y]
              BY <5>1, <5>4, <7>1
            <7> QED BY <3>2, <4>1, <4>4, <6>1, <7>1, <7>2
          <6> QED BY <6>2, <6>3
        <5> QED BY <5>3, <5>4
      <4> QED BY <2>2, <2>3, <3>2, <3>3, <4>6, <4>7, <4>8, <4>9, <4>10 DEF ScanInv
    <3>6. CASE ~ Dkc2HdmaBandMatches
      <4> DEFINE new == [first |-> n + 1, last |-> n + 1, regs |-> guess]
      <4>1. bands' = Append(bands, new)
        BY <2>5, <2>8, <3>1, <3>6 DEF RecordBand, guess
      <4>2. new \in Band /\ new.first = n + 1 /\ new.last = n + 1 /\ new.regs = guess
        BY <2>1, <2>4 DEF Band
      <4> HIDE DEF new, b, n
      <4>3. /\ bands' \in Seq(Band) /\ Len(bands') = b + 1 /\ bands'[b + 1] = new
            /\ \A i \in 1 .. b : bands'[i] = bands[i]
            /\ DOMAIN bands' = 1 .. b + 1
        BY <2>1, <3>4, <4>1, <4>2 DEF b
      <4>4. bands'[Len(bands')].last = Len(shown')
        BY <3>2, <4>2, <4>3
      <4>5. \A i \in 1 .. b + 1 : i = b + 1 \/ i \in 1 .. b
        BY <3>4
      <4>6. \A i \in DOMAIN bands' : bands'[i].first \in 1 .. Len(shown') /\ bands'[i].last \in 1 .. Len(shown')
        <5> SUFFICES ASSUME NEW i \in 1 .. b + 1
                     PROVE bands'[i].first \in 1 .. n + 1 /\ bands'[i].last \in 1 .. n + 1
          BY <3>2, <4>3
        <5>1. CASE i = b + 1
          <6>1. bands'[i].first = n + 1 /\ bands'[i].last = n + 1
            BY <4>2, <4>3, <5>1
          <6> QED BY <2>1, <6>1
        <5>2. CASE i \in 1 .. b
          <6>1. bands'[i] = bands[i] /\ bands[i].first \in 1 .. n /\ bands[i].last \in 1 .. n
            BY <2>1, <3>4, <4>3, <5>2
          <6> QED BY <2>1, <6>1
        <5> QED BY <4>5, <5>1, <5>2
      <4>7. ASSUME NEW y \in 1 .. Len(shown')
            PROVE  \E i \in DOMAIN bands' : bands'[i].first <= y /\ y <= bands'[i].last
        <5>1. CASE y = n + 1
          <6>1. b + 1 \in DOMAIN bands' /\ bands'[b + 1].first <= y /\ y <= bands'[b + 1].last
            BY <2>1, <3>4, <4>2, <4>3, <5>1
          <6> QED BY <6>1
        <5>2. CASE y \in 1 .. n
          <6>1. PICK i \in 1 .. b : bands[i].first <= y /\ y <= bands[i].last
            BY <2>1, <3>4, <5>2
          <6>2. i \in DOMAIN bands' /\ bands'[i] = bands[i]
            BY <3>4, <4>3, <6>1
          <6> QED BY <6>1, <6>2
        <5> QED BY <2>1, <3>2, <5>1, <5>2
      <4>8. ASSUME ~ parted', NEW i \in DOMAIN bands', NEW y \in bands'[i].first .. bands'[i].last
            PROVE  bands'[i].regs = shown'[y]
        <5>1. CASE i = b + 1
          <6>1. y = n + 1
            BY <2>1, <4>2, <4>3, <4>8, <5>1
          <6> QED BY <2>6, <3>2, <4>2, <4>3, <4>8, <5>1, <6>1
        <5>2. CASE i \in 1 .. b
          <6>1. /\ bands'[i] = bands[i] /\ bands[i].first \in 1 .. n /\ bands[i].last \in 1 .. n
                /\ \A z \in bands[i].first .. bands[i].last : bands[i].regs = shown[z]
            BY <2>1, <2>3, <3>4, <4>3, <4>8, <5>2
          <6>2. y \in bands[i].first .. bands[i].last /\ y \in 1 .. n
            <7>1. y \in bands[i].first .. bands[i].last
              BY <6>1
            <7> QED BY <2>1, <6>1, <7>1
          <6> QED BY <3>2, <6>1, <6>2
        <5> QED BY <4>3, <4>5, <5>1, <5>2
      <4> QED BY <2>2, <2>3, <3>2, <3>3, <4>3, <4>4, <4>6, <4>7, <4>8 DEF ScanInv
    <3> QED BY <3>5, <3>6
  <2> QED BY <2>7, <2>8
<1> QED BY <1>1, <1>2

LEMMA ScanIs == ScanSpec => []ScanInv
<1>1. ScanInit(Tables, Seq(ChannelSetup)) => ScanInv
  BY ScanStarts
<1>2. ScanInv /\ [ScanStep]_scanVars => ScanInv'
  BY ScanKeeps
<1> QED BY <1>1, <1>2, PTL DEF ScanSpec, Tables

\* Lines, registers and pointers stay in range, whatever the tables hold and
\* however many channels run.
THEOREM ScanTypeCorrect == ScanSpec => []ScanTypeOK
<1>1. ScanInv => ScanTypeOK
  <2> SUFFICES ASSUME ScanInv PROVE ScanTypeOK
    OBVIOUS
  <2>1. ScanTyped
    BY DEF ScanInv
  <2> QED BY <2>1 DEF ScanTyped, ScanTypeOK, ConsoleChannel, ScanChannel
<1> QED BY <1>1, ScanIs, PTL

\* The bands foretell every line the console draws, for every table, every set
\* of channels and every width of a byte, until a table parts the two readers.
THEOREM BandsForetell == ScanSpec => []ScanForetells
<1>1. ScanInv => ScanForetells
  <2> SUFFICES ASSUME ScanInv, ~ parted, NEW y \in 1 .. Len(shown)
               PROVE  Dkc2HdmaBandForLine(y).regs = shown[y]
    BY DEF ScanForetells
  <2> DEFINE band == Dkc2HdmaBandForLine(y)
  <2>1. PICK i \in DOMAIN bands : bands[i].first <= y /\ y <= bands[i].last
    BY DEF ScanInv
  <2>2. \E b \in Range(bands) : b.first <= y /\ y <= b.last
    BY <2>1 DEF Range
  <2>3. band \in Range(bands) /\ band.first <= y /\ y <= band.last
    BY <2>2 DEF Dkc2HdmaBandForLine
  <2> HIDE DEF band
  <2>4. PICK j \in DOMAIN bands : band = bands[j]
    BY <2>3 DEF Range
  <2>5. bands[j].first \in 1 .. Len(shown) /\ bands[j].last \in 1 .. Len(shown)
    BY DEF ScanInv
  <2>6. y \in bands[j].first .. bands[j].last
    BY <2>3, <2>4, <2>5
  <2>7. bands[j].regs = shown[y]
    BY <2>6 DEF ScanInv
  <2> QED BY <2>4, <2>7 DEF band
<1> QED BY <1>1, ScanIs, PTL
=============================================================================
