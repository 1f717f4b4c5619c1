----------------------------- MODULE WaveAudio ------------------------------
(***************************************************************************)
(* The Windows host's sound (desktop_main.c): eight blocks that are filled *)
(* in turn and lent to the wave device, which marks a block done when it   *)
(* has played it.  The loop fills the block at next_block again as soon as *)
(* the device is done with it, waits for that while it handles messages,   *)
(* and takes every block back when the overlay, the speed or the game's    *)
(* state changes.                                                          *)
(*                                                                         *)
(* A sample is the number of the frame it was made in.  `queued` is the    *)
(* device's own queue; submitted_blocks stops at Count: beyond it the code *)
(* compares it with nothing.                                               *)
(***************************************************************************)
EXTENDS Integers, Sequences

CONSTANTS Count,      \* kAudioBlockCount
          BlockFrames,  \* kAudioBlockFrames
          Amounts,    \* samples of a frame, at the device's rate
          Saved,      \* frames that state files hold
          Leap,       \* frames of an iteration in fast-forward
          MaxFrame    \* bound on the frames of the game

ASSUME WaveAssumption ==
  /\ {Count, BlockFrames, Leap} \subseteq Nat \ {0}
  /\ Amounts \subseteq Nat \ {0} /\ Saved \subseteq Nat /\ MaxFrame \in Nat

VARIABLES
  at,         \* where the loop is: "control", "append", "submit", "pace", "end"
  blocks,     \* s_audio.blocks
  done,       \* the blocks whose header has WHDR_DONE
  staging,    \* s_audio.staging
  next,       \* s_audio.next_block
  submitted,  \* s_audio.submitted_blocks
  device,     \* s_audio.device and s_audio.available
  queued,     \* the blocks the device has, the one it plays first
  opened,     \* previous_overlay_open
  speed,      \* previous_mode
  frame,      \* the frame the game is at
  rest        \* samples of it that AppendAudio has still to take

output  == <<blocks, done, staging, next, submitted, device, queued>>
waveVars == <<at, output, opened, speed, frame, rest>>

Indexes == 0 .. Count - 1
Speeds  == {"normal", "ff", "rewind"}

WaveTypeOK ==
  /\ at \in {"control", "append", "submit", "pace", "end"}
  /\ blocks \in [Indexes -> Seq(Nat)] /\ done \subseteq Indexes
  /\ staging \in Seq(Nat) /\ Len(staging) \in 0 .. BlockFrames
  /\ next \in Indexes /\ submitted \in 0 .. Count /\ device \in BOOLEAN
  /\ queued \in Seq(Indexes) /\ Len(queued) \in 0 .. Count
  /\ opened \in BOOLEAN /\ speed \in Speeds
  /\ frame \in Nat /\ rest \in Nat

\* InitializeAudio may find no device.
WaveInit ==
  /\ at = "control"
  /\ blocks = [b \in Indexes |-> <<>>] /\ done = {}
  /\ staging = <<>> /\ next = 0 /\ submitted = 0
  /\ device \in BOOLEAN /\ queued = <<>>
  /\ opened = FALSE /\ speed = "normal"
  /\ frame = 0 /\ rest = 0

\* waveOutReset: the device gives every block back.
GivenBack == done \cup {queued[i] : i \in 1 .. Len(queued)}

\* Mutant: the headers are made anew, the count of blocks is not.
ResetHeaders ==
  /\ UNCHANGED <<blocks, device, submitted>>
  /\ IF device
     THEN done' = {} /\ queued' = <<>> /\ staging' = <<>> /\ next' = 0
     ELSE UNCHANGED <<done, staging, next, queued>>

ResetAudioQueue ==
  /\ UNCHANGED <<blocks, device>>
  /\ IF device
     THEN /\ done' = GivenBack /\ queued' = <<>>
          /\ staging' = <<>> /\ next' = 0 /\ submitted' = 0
     ELSE UNCHANGED <<done, staging, next, submitted, queued>>

ShutdownAudio ==
  /\ done' = GivenBack /\ queued' = <<>> /\ device' = FALSE
  /\ UNCHANGED <<staging, next, submitted>>

-----------------------------------------------------------------------------
\* Mutant: what is queued is kept when normal speed is left.
CutsOnReturn(open, s, loaded) == loaded \/ open # opened \/ (s # speed /\ s = "normal")

\* What makes the loop take its sound back.
Cuts(open, s, loaded) == loaded \/ open # opened \/ s # speed

\* One iteration up to the sound of its frame.  The overlay and the player
\* choose; the open overlay takes the keys and holds the game, rewinding goes
\* back or finds nothing.  A load goes to any saved state.
Control(open, s, loaded) ==
  /\ at = "control" /\ (open => s = "normal")
  /\ opened' = open /\ speed' = s
  /\ IF Cuts(open, s, loaded) THEN ResetAudioQueue ELSE UNCHANGED output
  /\ \E from \in IF loaded THEN Saved ELSE {frame} :
       \/ open /\ frame' = from
       \/ ~open /\ s = "rewind" /\ frame' \in 0 .. from
       \/ ~open /\ s = "ff" /\ frame' = from + Leap
       \/ ~open /\ s = "normal" /\ frame' = from + 1
  /\ frame' <= MaxFrame                                             \* bound
  /\ IF ~open /\ s = "normal" /\ device
     THEN rest' \in Amounts /\ at' = "append"
     ELSE rest' = 0 /\ at' = "pace"

\* AppendAudio takes what fits into the staging block.
Portion == IF rest < BlockFrames - Len(staging) THEN rest ELSE BlockFrames - Len(staging)

AppendAudio ==
  /\ at = "append"
  /\ staging' = staging \o [i \in 1 .. Portion |-> frame]
  /\ rest' = rest - Portion
  /\ at' = IF Len(staging') = BlockFrames THEN "submit" ELSE "pace"
  /\ UNCHANGED <<blocks, done, next, submitted, device, queued, opened, speed, frame>>

\* WaitForAudioBlock
Ready == submitted < Count \/ next \in done

\* waveOutWrite accepts the block.
SubmitCompleteAudioBlock ==
  /\ at = "submit" /\ Ready
  /\ blocks' = [blocks EXCEPT ![next] = staging]
  /\ done' = done \ {next} /\ queued' = Append(queued, next)
  /\ next' = (next + 1) % Count
  /\ submitted' = IF submitted < Count THEN submitted + 1 ELSE Count
  /\ staging' = <<>>
  /\ at' = IF rest > 0 THEN "append" ELSE "pace"
  /\ UNCHANGED <<device, opened, speed, frame, rest>>

\* It refuses the block, or the player quits while the loop waits for one:
\* the game goes on without sound, or ends.
SubmitFails ==
  /\ at = "submit"
  /\ at' = IF Ready THEN "pace" ELSE "end"
  /\ rest' = 0
  /\ blocks' = IF Ready THEN [blocks EXCEPT ![next] = staging] ELSE blocks
  /\ ShutdownAudio
  /\ UNCHANGED <<opened, speed, frame>>

\* The clock is waited for, or passed over while the first blocks fill.
Pace ==
  /\ at = "pace" /\ at' = "control"
  /\ UNCHANGED <<output, opened, speed, frame, rest>>

\* The window is closed: the loop ends and takes its sound back.
Close ==
  /\ at \in {"control", "pace"} /\ at' = "end"
  /\ rest' = 0
  /\ IF device THEN ShutdownAudio /\ UNCHANGED blocks ELSE UNCHANGED output
  /\ UNCHANGED <<opened, speed, frame>>

\* The device has played a block.
BlockDone ==
  /\ queued # <<>>
  /\ done' = done \cup {Head(queued)} /\ queued' = Tail(queued)
  /\ UNCHANGED <<at, blocks, staging, next, submitted, device, opened, speed, frame, rest>>

Loop ==
  \/ \E open, loaded \in BOOLEAN, s \in Speeds : Control(open, s, loaded)
  \/ AppendAudio \/ SubmitCompleteAudioBlock \/ SubmitFails \/ Pace \/ Close

WaveNext == Loop \/ BlockDone

WaveSpec == WaveInit /\ [][WaveNext]_waveVars

\* The device plays what it has, and the loop goes on where it can.
LoopOn == AppendAudio \/ SubmitCompleteAudioBlock \/ Pace

-----------------------------------------------------------------------------
\* What the player hears, in SoundLine's terms; without a device nothing waits.
Line == INSTANCE SoundLine WITH
  Limit <- Count, Block <- BlockFrames, now <- frame, owed <- rest,
  line <- [i \in 1 .. Len(queued) |-> blocks[queued[i]]],
  partial <- IF device THEN staging ELSE <<>>

\* The blocks the device plays are the sound of the game in the order it was
\* made, each block once and whole: none is filled again before it has been
\* played, nothing from before a load, a rewind, fast-forward or the overlay
\* is heard after it, and no more than Count blocks wait.
LineRefinement == Line!LineSpec

\* The wait for a block ends: it is one the device has and will play.
BlockComes == (at = "submit") ~> (at # "submit")
=============================================================================
