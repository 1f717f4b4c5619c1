------------------------------ MODULE MsuPlayer ------------------------------
(***************************************************************************)
(* The PCM player of dkc2_msu1.c: a mapped track is resampled from InRate  *)
(* to OutRate by a phase, holding the sample it plays and the one after    *)
(* it.  A sample is named by its frame in the file.                        *)
(***************************************************************************)
EXTENDS Integers

CONSTANTS
    InRate, OutRate,     \* 44100 and 32040
    Tracks,              \* [total, loopFrame, loops]: a file and whether TrackLoops its number
    MaxHeard             \* bound on the output frames of one selection

ASSUME PlayerAssumption ==
    /\ InRate \in Nat \ {0} /\ OutRate \in Nat \ {0} /\ InRate < 2 * OutRate
    /\ \A t \in Tracks : t.total \in Nat \ {0} /\ t.loopFrame \in Nat
    /\ MaxHeard \in Nat

VARIABLES
    player,    \* Dkc2Msu1 while a track is open
    file,      \* the track's file
    heard      \* history: the output frames mixed since it was opened

msuVars == <<player, file, heard>>

Unread == -1

Seek(p, frame) == [p EXCEPT !.source = frame]

\* A frame that is read and the player behind it; got is 0 at the end.
ReadFrame(p) ==
    LET wraps == p.source >= p.total /\ p.loop = 1 /\ p.loopFrame < p.total
        at == IF wraps THEN Seek(p, p.loopFrame) ELSE p
    IN IF at.source >= at.total THEN [got |-> 0, sample |-> Unread, p |-> p]
       ELSE [got |-> 1, sample |-> at.source, p |-> Seek(at, at.source + 1)]

TrackLoops(f) == IF f.loops = 1 /\ f.loopFrame < f.total THEN 1 ELSE 0

OpenTrack(f) ==
    LET closed == [source |-> 0, total |-> f.total, loopFrame |-> f.loopFrame,
                   loop |-> TrackLoops(f), phase |-> 0, current |-> Unread, next |-> Unread,
                   final |-> 0, playing |-> 1]
        first == ReadFrame(closed)
        second == ReadFrame(first.p)
    IN IF second.got = 1 THEN [second.p EXCEPT !.current = first.sample, !.next = second.sample]
       ELSE [first.p EXCEPT !.current = first.sample, !.next = first.sample, !.final = 1]

\* Mutant: the rest of the phase is dropped.
AdvanceAfresh(p) ==
    LET moved == [p EXCEPT !.phase = 0, !.current = p.next]
        r == ReadFrame(moved)
    IN IF r.got = 1 THEN [r.p EXCEPT !.next = r.sample]
       ELSE IF p.final = 1 THEN [moved EXCEPT !.playing = 0]
       ELSE [moved EXCEPT !.final = 1, !.next = moved.current]

\* One source frame on; behind the last one the sample is held once more.
Advance(p) ==
    LET moved == [p EXCEPT !.phase = @ - OutRate, !.current = p.next]
        r == ReadFrame(moved)
    IN IF r.got = 1 THEN [r.p EXCEPT !.next = r.sample]
       ELSE IF p.final = 1 THEN [moved EXCEPT !.playing = 0]
       ELSE [moved EXCEPT !.final = 1, !.next = moved.current]

\* Dkc2Msu1Mix's while loop takes at most two turns, the phase being under one
\* step and InRate under two.
Stepped(p) == IF p.playing = 1 /\ p.phase >= OutRate THEN Advance(p) ELSE p

\* One output frame of Dkc2Msu1Mix: the samples it blends are current and next.
MixFrame(p) == Stepped(Stepped([p EXCEPT !.phase = @ + InRate]))

MsuInit ==
    /\ file \in Tracks
    /\ player = OpenTrack(file)
    /\ heard = 0

Dkc2Msu1Select(f) ==
    /\ file' = f
    /\ player' = OpenTrack(f)
    /\ heard' = 0

Dkc2Msu1Mix ==
    /\ player.playing = 1 /\ heard < MaxHeard
    /\ player' = MixFrame(player)
    /\ heard' = heard + 1
    /\ UNCHANGED file

MsuNext == Dkc2Msu1Mix \/ \E f \in Tracks : Dkc2Msu1Select(f)

MsuSpec == MsuInit /\ [][MsuNext]_msuVars

-----------------------------------------------------------------------------
(* Properties.                                                             *)

MsuTypeOK ==
    /\ player.source \in 0 .. player.total /\ player.phase \in 0 .. OutRate + InRate
    /\ player.current \in 0 .. player.total - 1 /\ player.next \in 0 .. player.total - 1
    /\ player.final \in 0 .. 1 /\ player.playing \in 0 .. 1

\* The file's frame a listener should hear k source frames after the start.
ShouldHear(k) ==
    IF k < file.total THEN k
    ELSE IF TrackLoops(file) = 1
    THEN file.loopFrame + ((k - file.loopFrame) % (file.total - file.loopFrame))
    ELSE file.total - 1

\* After any number of output frames, however the rates divide, the position
\* is exact: no source frame is skipped, repeated or drifted over, the end
\* meets the loop's first frame, and a track that does not loop stops when its
\* last frame has been held.
PlaysAsWritten ==
    LET k == (heard * InRate) \div OutRate
    IN IF player.playing = 1
       THEN /\ player.phase = (heard * InRate) % OutRate
            /\ <<player.current, player.next>> = <<ShouldHear(k), ShouldHear(k + 1)>>
            /\ TrackLoops(file) = 1 \/ k < file.total
       ELSE TrackLoops(file) = 0 /\ k >= file.total
=============================================================================
