----------------------------- MODULE SoundLine ------------------------------
(***************************************************************************)
(* What a player hears of a host that hands sound to a device in blocks:   *)
(* a line of whole blocks and the one being filled.  Every sample carries  *)
(* the frame of the game it was made in.  Samples join the line in the     *)
(* order they were made and leave it in that order; whenever the game      *)
(* jumps to another frame the line is emptied, and it holds at most Limit  *)
(* blocks.                                                                 *)
(***************************************************************************)
EXTENDS Integers, Sequences

CONSTANTS Limit,    \* blocks the line can hold
          Block,    \* samples of a block
          Amounts   \* samples a frame can make

VARIABLES line,     \* the blocks that wait
          partial,  \* the samples of the block being filled
          now,      \* the frame of the game
          owed      \* samples of this frame that have not joined the line

lineVars == <<line, partial, now, owed>>

LineInit == line = <<>> /\ partial = <<>> /\ now = 0 /\ owed = 0

\* The game goes on by one frame, which makes some samples.
Frame ==
  /\ owed = 0
  /\ now' = now + 1 /\ owed' \in Amounts
  /\ UNCHANGED <<line, partial>>

\* Some of them join the block being filled.
Fill ==
  /\ \E n \in 1 .. owed :
       /\ Len(partial) + n <= Block
       /\ partial' = partial \o [i \in 1 .. n |-> now]
       /\ owed' = owed - n
  /\ UNCHANGED <<line, now>>

Close ==
  /\ Len(partial) = Block /\ Len(line) < Limit
  /\ line' = Append(line, partial) /\ partial' = <<>>
  /\ UNCHANGED <<now, owed>>

Play ==
  /\ line # <<>> /\ line' = Tail(line)
  /\ UNCHANGED <<partial, now, owed>>

\* Nothing of what waited is heard; the game may be anywhere, and sound again.
Jump ==
  /\ line' = <<>> /\ partial' = <<>>
  /\ now' \in Nat /\ owed' \in Amounts \cup {0}

LineNext == Frame \/ Fill \/ Close \/ Play \/ Jump

LineSpec == LineInit /\ [][LineNext]_lineVars
=============================================================================
