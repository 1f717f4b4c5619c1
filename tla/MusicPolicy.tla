----------------------------- MODULE MusicPolicy -----------------------------
(***************************************************************************)
(* Music replacement: whether the cartridge's sound program plays its      *)
(* music is decided by two bytes of the ROM image and their copy in the    *)
(* sound RAM; whether an MSU-1 track is mixed in is decided by dkc2_music  *)
(* on the host.  The sound program, its uploads and its voices are the     *)
(* console's and external.                                                 *)
(***************************************************************************)
EXTENDS Integers, FiniteSets

CONSTANTS
    Songs,       \* the numbers $1C can hold
    Variants,    \* the song tables the sound program can use, 0 .. 5
    Packs,       \* the folders that open: the sets of tracks they hold
    Voices       \* the DSP's eight voices

ASSUME MusicAssumption ==
    /\ Songs \subseteq Nat /\ Variants \subseteq Nat
    /\ \A p \in Packs : p \subseteq Nat /\ 0 \notin p

VARIABLES
    music,     \* the statics of dkc2_music.c and the player's track
    branch,    \* the two policy bytes of the ROM image, "play" or "mute"
    apu,       \* the sound RAM's engine, song table and song, voices and echo
    saved,     \* the sound part of a state file
    moment     \* "host", "frame" while the console runs, "mix" after it

musicVars == <<music, branch, apu, saved, moment>>

NoPlayer == {}

Dkc2Msu1TrackNumber(song, variant) ==
    LET aliases == [s \in 32 .. 37 |-> CASE s = 33 -> 21 [] s = 36 -> 36 [] OTHER -> 15]
        primary == IF song \in 32 .. 37 THEN aliases[song] ELSE song
    IN IF primary \in 1 .. 39 /\ variant \in 0 .. 5 THEN primary + 40 * variant ELSE 0

Silent == [v \in Voices |-> "silent"]
MusicOff(voices) == [v \in Voices |-> IF voices[v] = "music" THEN "silent" ELSE voices[v]]

\* Dkc2RestoreSpcMusicPolicy: an engine that is not the verified one, or a
\* mute with an impossible echo length, is left alone.
Restorable(b, a) == a.engine # "other" /\ (a.engine = b \/ b = "play" \/ a.echo = 1)

\* Mutant: the engine is muted and its notes sound on.
RestorePolicyBytes(b, a) ==
    IF ~ Restorable(b, a) THEN a ELSE [a EXCEPT !.engine = b]

Dkc2RestoreSpcMusicPolicy(b, a) ==
    IF ~ Restorable(b, a) \/ a.engine = b THEN a
    ELSE [a EXCEPT !.engine = b, !.voices = IF b = "mute" THEN MusicOff(@) ELSE @]

Wanted(m) == IF m.enabled = 1 /\ m.replacement = 1 THEN "mute" ELSE "play"

\* ApplyPolicy changes nothing before a frame has told it the ROM.
ApplyPolicy(m, a) ==
    IF m.attached = 0
    THEN music' = [m EXCEPT !.ready = 0] /\ apu' = a /\ UNCHANGED branch
    ELSE /\ branch' = Wanted(m)
         /\ music' = [m EXCEPT !.ready = IF Restorable(Wanted(m), a) THEN 1 ELSE 0]
         /\ apu' = Dkc2RestoreSpcMusicPolicy(Wanted(m), a)

Found(m) ==
    m.enabled = 1 /\ m.started = 1 /\ Dkc2Msu1TrackNumber(m.song, m.variant) \in m.pack
Select(m) ==
    [m EXCEPT !.replacement = IF Found(m) THEN 1 ELSE 0,
              !.track = IF Found(m) THEN Dkc2Msu1TrackNumber(m.song, m.variant) ELSE 0]
SelectCurrent(m, a) == ApplyPolicy(Select(m), a)

-----------------------------------------------------------------------------
(* The host.                                                               *)

MusicInit ==
    /\ music = [attached |-> 0, enabled |-> 0, replacement |-> 0, ready |-> 0,
                started |-> 0, song |-> 0, variant |-> 0, pack |-> NoPlayer, track |-> 0]
    /\ branch = "play"
    /\ apu = [engine |-> "other", voices |-> Silent, echo |-> 0, song |-> 0, table |-> 0]
    /\ saved = apu
    /\ moment = "host"

Dkc2MusicLoad(pack) ==
    /\ moment = "host"
    /\ SelectCurrent([music EXCEPT !.pack = pack, !.enabled = 1], apu)
    /\ UNCHANGED <<saved, moment>>

Dkc2MusicSetEnabled(enabled) ==
    /\ moment = "host"
    /\ SelectCurrent([music EXCEPT !.enabled = enabled], apu)
    /\ UNCHANGED <<saved, moment>>

\* A state file brings back the sound RAM, its voices and the song, and no
\* position in a track.
SaveState ==
    /\ moment = "host"
    /\ saved' = apu
    /\ UNCHANGED <<music, branch, apu, moment>>

Dkc2MusicStateLoaded ==
    /\ moment = "host"
    /\ SelectCurrent([music EXCEPT !.song = saved.song, !.variant = saved.table, !.started = 1], saved)
    /\ UNCHANGED <<saved, moment>>

Reset ==
    /\ moment = "host"
    /\ apu' = [engine |-> "other", voices |-> Silent, echo |-> 0, song |-> 0, table |-> 0]
    /\ UNCHANGED <<music, branch, saved, moment>>

\* Dkc2RunOneFrame tells the ROM and applies the policy first and last.
Dkc2MusicFrame(from, to) ==
    /\ moment = from
    /\ ApplyPolicy([music EXCEPT !.attached = 1], apu)
    /\ moment' = to
    /\ UNCHANGED saved

Mixing == music.enabled = 1 /\ music.replacement = 1 /\ music.ready = 1

Dkc2MusicMix ==
    /\ moment = "mix"
    /\ moment' = "host"
    /\ UNCHANGED <<music, branch, apu, saved>>

-----------------------------------------------------------------------------
(* Within a frame: the game's sound commands, seen by a hook before they   *)
(* are sent, and the sound program.                                        *)

Commanded(song, action, variant) ==
    CASE action = 255 -> [music EXCEPT !.song = song, !.variant = 0, !.started = 0]
      [] action = 251 -> [music EXCEPT !.song = song, !.variant = variant, !.started = 1]
      [] action = 254 -> [music EXCEPT !.song = song, !.started = 1]

\* A second "start" is ignored.
Dkc2MusicCommand(song, action, variant) ==
    /\ moment = "frame"
    /\ action = 254 => music.started = 0
    /\ SelectCurrent(Commanded(song, action, variant),
                     [apu EXCEPT !.song = song,
                                 !.table = IF action = 251 THEN variant ELSE IF action = 255 THEN 0 ELSE @])
    /\ UNCHANGED <<saved, moment>>

\* The game uploads the image's engine, as it is then, into an idle DSP.
Upload(echo) ==
    /\ moment = "frame" /\ apu.engine = "other"
    /\ apu' = [apu EXCEPT !.engine = branch, !.voices = Silent, !.echo = echo]
    /\ UNCHANGED <<music, branch, saved, moment>>

\* The scheduler gives a voice to a note only if it is not muted; an effect
\* borrows any voice.
Sound(v, use) ==
    /\ moment = "frame" /\ apu.engine # "other"
    /\ use = "music" => apu.engine = "play" /\ apu.voices[v] # "effect"
    /\ apu' = [apu EXCEPT !.voices[v] = use]
    /\ UNCHANGED <<music, branch, saved, moment>>

MusicNext ==
    \/ \E p \in Packs : Dkc2MusicLoad(p)
    \/ \E b \in 0 .. 1 : Dkc2MusicSetEnabled(b)
    \/ SaveState \/ Dkc2MusicStateLoaded \/ Reset
    \/ Dkc2MusicFrame("host", "frame") \/ Dkc2MusicFrame("frame", "mix") \/ Dkc2MusicMix
    \/ \E s \in Songs, a \in {251, 254, 255}, v \in Variants : Dkc2MusicCommand(s, a, v)
    \/ \E e \in 0 .. 1 : Upload(e)
    \/ \E v \in Voices, u \in {"silent", "music", "effect"} : Sound(v, u)

MusicSpec == MusicInit /\ [][MusicNext]_musicVars

-----------------------------------------------------------------------------
(* Properties.                                                             *)

Statics ==
    [attached : 0 .. 1, enabled : 0 .. 1, replacement : 0 .. 1, ready : 0 .. 1,
     started : 0 .. 1, song : Nat, variant : Nat, pack : SUBSET Nat, track : Nat]
SoundRam == [engine : {"other", "play", "mute"}, voices : [Voices -> {"silent", "music", "effect"}],
             echo : 0 .. 1, song : Nat, table : Nat]
MusicTypeOK ==
    /\ music \in Statics
    /\ branch \in {"play", "mute"}
    /\ apu \in SoundRam /\ saved \in SoundRam
    /\ moment \in {"host", "frame", "mix"}

\* A muted engine has no voice left that plays music, also in a state file.
NoMusicWhenMuted(a) == a.engine = "mute" => \A v \in Voices : a.voices[v] # "music"

\* When the frame's sound is mixed there is one soundtrack: with a track mixed
\* in, the engine is muted and no note of it still sounds; without one, the
\* engine, once uploaded, is not muted.
OneIsHeard ==
    moment = "mix" =>
        /\ Mixing => apu.engine = "mute" /\ NoMusicWhenMuted(apu)
        /\ ~ Mixing => apu.engine # "mute"

\* The track is the one of the song that was started, in the folder that is
\* open now; without replacement the player is stopped.
TrackIsSongs(m) ==
    IF m.replacement = 1
    THEN Found(m) /\ m.track = Dkc2Msu1TrackNumber(m.song, m.variant)
    ELSE ~ Found(m) /\ m.track = 0

\* Over songs, folders, switches, resets and loaded states the player hears
\* the music once, and it is the game's.
OneSoundtrack == OneIsHeard /\ TrackIsSongs(music)
=============================================================================
