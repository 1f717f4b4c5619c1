--------------------------- MODULE MCDesktopPlay ----------------------------
(* DesktopLoop in three kinds of game: in "branch" the player's input       *)
(* branches and is recorded, without sound; in "sound" long stretches are   *)
(* heard; in "tools" everything that asks for a state file or for a time    *)
(* control is used within a frame of the start.                             *)
EXTENDS MCDesktopLoop

VARIABLE game
playVars == <<vars, game>>

PlayInit ==
  /\ game \in {"branch", "sound", "tools"}
  /\ Init
  /\ recording <=> game = "branch"
  /\ audible => game = "sound"

\* The player's part of an iteration.
Plays(words, keys, chords, views) ==
  \E pad \in words, key \in keys, chord \in chords, view \in views :
    Control(pad, key, chord, {}, view)

PlayNext ==
  /\ UNCHANGED game
  /\ \/ game = "branch" /\ Plays(Inputs, TimeKeys, {"none", "both"}, {"in"})
     \/ game = "sound" /\ Plays({Neutral}, TimeKeys, {"none", "both"}, {"in", "out"})
     \/ game = "tools" /\ Plays({Neutral}, HostKeys, Chords, Views)
     \/ Rest
     \/ Around

\* Bounds: what the player of a kind of game leaves alone.
Alone ==
  /\ game = "tools" => plugged' = {} /\ Len(console') <= 1 /\ slots'[1] = Missing
  /\ game # "tools" => pending' = {} /\ UNCHANGED <<assist, slot>>

\* Bounds: branches are two frames long, and pads come and go before a frame.
Short ==
  /\ game = "branch" => Len(console) <= 2
  /\ padEvent \/ plugged # {} \/ opened # {} => console = <<>>

PlaySpec == PlayInit /\ [][PlayNext /\ Alone]_playVars
=============================================================================
