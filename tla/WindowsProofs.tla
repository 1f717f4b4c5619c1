---------------------------- MODULE WindowsProofs ---------------------------
(***************************************************************************)
(* The Windows host.                                                       *)
(*                                                                         *)
(* Its sound implements SoundLine for every number and size of blocks.     *)
(* The inductive invariant says which blocks the device has: those         *)
(* submitted last, in their order, none of them marked done; so the block  *)
(* the loop fills is never one that waits to be played.                    *)
(*                                                                         *)
(* Its keyboard: what was held at the last transition and is still down is *)
(* among the blocked keys, and no tap is older than that transition.       *)
(***************************************************************************)
EXTENDS WaveAudio, WindowsKeys, SequenceTheorems, TLAPS

\* The block that was submitted j submissions ago, if n is next_block.
Turn(n, j) == IF n >= j THEN n - j ELSE n - j + Count

\* What the device has.
Lent ==
  /\ \A i \in 1 .. Len(queued) :
       queued[i] = Turn(next, Len(queued) - i + 1) /\ queued[i] \notin done
  /\ submitted < Count => Len(queued) <= submitted
  /\ ~device => queued = <<>>

\* Until every block has been used once they are used from the first.
Begun ==
  /\ submitted < Count => next = submitted
  /\ device => \A b \in Indexes : b < submitted =>
       b \in done \/ \E i \in 1 .. Len(queued) : queued[i] = b

\* Where samples can be under way, and where nothing can wait.
Flow ==
  /\ at \in {"append", "submit"} => device /\ ~opened /\ speed = "normal"
  /\ at \notin {"append", "submit"} => rest = 0
  /\ at = "append" => rest > 0
  /\ at = "submit" => Len(staging) = BlockFrames
  /\ device /\ at # "submit" => Len(staging) < BlockFrames
  /\ device /\ (opened \/ speed # "normal") => queued = <<>> /\ staging = <<>>

WaveInv == WaveTypeOK /\ Lent /\ Begun /\ Flow

-----------------------------------------------------------------------------
LEMMA Constants ==
  /\ Count \in Nat /\ Count > 0 /\ BlockFrames \in Nat /\ BlockFrames > 0 /\ Leap \in Nat
  /\ \A n \in Amounts : n \in Nat /\ n > 0
  /\ \A n \in Saved : n \in Nat
BY WaveAssumption, SMT DEF WaveAssumption

\* What the types say of the numbers.
LEMMA Counted ==
  ASSUME WaveTypeOK
  PROVE  /\ next \in Nat /\ next < Count
         /\ Len(queued) \in Nat /\ Len(queued) <= Count
         /\ submitted \in Nat /\ submitted <= Count
         /\ Len(staging) \in Nat /\ Len(staging) <= BlockFrames
         /\ frame \in Nat /\ rest \in Nat
         /\ \A i \in 1 .. Len(queued) : queued[i] \in Indexes
BY Constants, SMT DEF WaveTypeOK, Indexes

\* Blocks are used in a circle.
LEMMA NextBlock ==
  ASSUME NEW n \in Indexes
  PROVE  (n + 1) % Count = IF n + 1 = Count THEN 0 ELSE n + 1
BY Constants, SMT DEF Indexes

\* A block that is ready is not one the device has, and leaves room for it.
LEMMA ReadyIsFree ==
  ASSUME WaveTypeOK, Lent, Ready
  PROVE  /\ Len(queued) < Count
         /\ \A i \in 1 .. Len(queued) : queued[i] # next
<1>1. Len(queued) < Count
  <2>1. CASE submitted < Count BY <2>1, Counted, Constants, SMT DEF Lent
  <2>2. CASE next \in done
    <3>1. SUFFICES ASSUME Len(queued) = Count PROVE FALSE BY Counted, Constants, SMT
    <3>2. 1 \in 1 .. Len(queued) /\ Len(queued) - 1 + 1 = Count BY <3>1, Constants, SMT
    <3>3. queued[1] = Turn(next, Count) /\ queued[1] \notin done BY <3>2 DEF Lent
    <3>4. Turn(next, Count) = next BY Counted, Constants, SMT DEF Turn
    <3> QED BY <3>3, <3>4, <2>2
  <2> QED BY <2>1, <2>2 DEF Ready
<1>2. ASSUME NEW i \in 1 .. Len(queued) PROVE queued[i] # next
  <2>1. queued[i] = Turn(next, Len(queued) - i + 1) BY DEF Lent
  <2> DEFINE j == Len(queued) - i + 1
  <2>2. j \in Nat /\ 1 <= j /\ j < Count BY <1>1, Counted, Constants, SMT
  <2>3. Turn(next, j) # next
    <3> HIDE DEF j
    <3> QED BY <2>2, Counted, Constants, SMT DEF Turn
  <2> QED BY <2>1, <2>3
<1> QED BY <1>1, <1>2

LEMMA Joined ==
  ASSUME NEW s \in Seq(Nat), NEW t \in Seq(Nat)
  PROVE  s \o t \in Seq(Nat) /\ Len(s \o t) = Len(s) + Len(t)
OBVIOUS

\* The portion is what fills the block or what is left.
LEMMA PortionFits ==
  ASSUME WaveTypeOK, Flow, at = "append"
  PROVE  /\ Portion \in 1 .. rest
         /\ Len(staging) + Portion \in 1 .. BlockFrames
         /\ Len(staging) + Portion < BlockFrames => Portion = rest
BY Counted, Constants, SMT DEF Portion, Flow

LEMMA Extended ==
  ASSUME WaveTypeOK, Flow, AppendAudio
  PROVE  staging' \in Seq(Nat) /\ Len(staging') = Len(staging) + Portion
<1> DEFINE more == [i \in 1 .. Portion |-> frame]
<1>1. Portion \in Nat BY PortionFits, Counted, SMT DEF AppendAudio
<1>2. more \in Seq(Nat)
  <2>1. frame \in Nat BY DEF WaveTypeOK
  <2> QED BY <2>1, <1>1, SMT
<1>3. Len(more) = Portion BY <1>1, SMT
<1>4. staging' = staging \o more /\ staging \in Seq(Nat) BY DEF AppendAudio, WaveTypeOK
<1> HIDE DEF more
<1> QED BY <1>2, <1>3, <1>4, Joined

-----------------------------------------------------------------------------
LEMMA ResetKeeps ==
  ASSUME WaveInv, ResetAudioQueue
  PROVE  /\ blocks' \in [Indexes -> Seq(Nat)] /\ done' \subseteq Indexes
         /\ staging' \in Seq(Nat) /\ Len(staging') \in 0 .. BlockFrames
         /\ next' \in Indexes /\ submitted' \in 0 .. Count /\ device' \in BOOLEAN
         /\ device' = device /\ queued' = <<>>
         /\ device => staging' = <<>> /\ Len(staging') = 0 /\ next' = 0 /\ submitted' = 0
         /\ ~device => UNCHANGED output
<1>1. GivenBack \subseteq Indexes
  BY Counted DEF WaveInv, WaveTypeOK, GivenBack
<1>2. CASE device
  <2>1. UNCHANGED <<blocks, device>> /\ done' = GivenBack /\ queued' = <<>> /\ staging' = <<>>
        /\ next' = 0 /\ submitted' = 0
    BY <1>2 DEF ResetAudioQueue
  <2>2. 0 \in Indexes /\ 0 \in 0 .. Count /\ 0 \in 0 .. BlockFrames BY Constants, SMT DEF Indexes
  <2>3. <<>> \in Seq(Nat) /\ Len(<<>>) = 0 OBVIOUS
  <2> QED BY <1>1, <1>2, <2>1, <2>2, <2>3 DEF WaveInv, WaveTypeOK
<1>3. CASE ~device
  <2>1. UNCHANGED output /\ queued = <<>> BY <1>3 DEF ResetAudioQueue, WaveInv, Lent, output
  <2> QED BY <1>3, <2>1 DEF WaveInv, WaveTypeOK, output
<1> QED BY <1>2, <1>3 DEF WaveInv, WaveTypeOK

\* A step after which no block waits and nothing has begun keeps the order.
LEMMA EmptyIsOrderly ==
  ASSUME queued' = <<>>, submitted' = 0, next' = 0
  PROVE  Lent' /\ Begun'
<1>1. Len(queued') = 0 /\ Len(<<>>) = 0 OBVIOUS
<1>2. \A i \in 1 .. Len(queued') : FALSE BY <1>1, SMT
<1>3. Len(queued') <= submitted' BY <1>1, SMT
<1>4. \A b \in Indexes : ~(b < submitted') BY SMT DEF Indexes
<1> QED BY <1>2, <1>3, <1>4 DEF Lent, Begun

LEMMA ControlKeeps ==
  ASSUME WaveInv, NEW open \in BOOLEAN, NEW s \in Speeds, NEW loaded \in BOOLEAN,
         Control(open, s, loaded)
  PROVE  WaveInv'
<1>1. /\ frame' \in Nat /\ rest' \in Nat /\ at' \in {"append", "pace"}
      /\ opened' = open /\ speed' = s
      /\ at' = "append" => ~open /\ s = "normal" /\ device /\ rest' > 0
      /\ at' # "append" => rest' = 0
  <2>1. frame' \in Nat
    <3>1. frame \in Nat BY DEF WaveInv, WaveTypeOK
    <3>2. PICK from \in IF loaded THEN Saved ELSE {frame} :
            \/ open /\ frame' = from
            \/ ~open /\ s = "rewind" /\ frame' \in 0 .. from
            \/ ~open /\ s = "ff" /\ frame' = from + Leap
            \/ ~open /\ s = "normal" /\ frame' = from + 1
      BY DEF Control
    <3>3. from \in Nat BY <3>1, <3>2, Constants
    <3> QED BY <3>2, <3>3, Constants, SMT
  <2> QED BY <2>1, Constants, SMT DEF Control
<1>2. CASE Cuts(open, s, loaded) /\ device
  <2>1. ResetAudioQueue BY <1>2 DEF Control
  <2>2. Lent' /\ Begun' BY <1>2, <2>1, EmptyIsOrderly, ResetKeeps
  <2>3. WaveTypeOK'
    <3>1. queued' \in Seq(Indexes) /\ Len(queued') \in 0 .. Count
      BY <2>1, ResetKeeps, Constants, SMT
    <3> QED BY <1>1, <2>1, <3>1, ResetKeeps DEF WaveTypeOK
  <2>4. Len(staging') < BlockFrames /\ staging' = <<>> /\ queued' = <<>> /\ device'
    BY <1>2, <2>1, ResetKeeps, Constants, SMT
  <2>5. Flow' BY <1>1, <2>4 DEF Flow
  <2> QED BY <2>2, <2>3, <2>5 DEF WaveInv
<1>3. CASE ~(Cuts(open, s, loaded) /\ device)
  <2>1. UNCHANGED output BY <1>3, ResetKeeps DEF Control
  <2>2. Lent' /\ Begun' BY <2>1 DEF output, WaveInv, Lent, Begun, Turn
  <2>3. WaveTypeOK' BY <1>1, <2>1 DEF output, WaveInv, WaveTypeOK
  <2>4. device => open = opened /\ s = speed BY <1>3 DEF Cuts
  <2>5. at = "control" BY DEF Control
  <2>6. Flow' BY <1>1, <2>1, <2>4, <2>5 DEF output, WaveInv, Flow
  <2> QED BY <2>2, <2>3, <2>6 DEF WaveInv
<1> QED BY <1>2, <1>3

LEMMA AppendKeeps == ASSUME WaveInv, AppendAudio PROVE WaveInv'
<1> USE DEF WaveInv
<1>1. at = "append" /\ device /\ ~opened /\ speed = "normal" BY DEF AppendAudio, Flow
<1>2. /\ staging' \in Seq(Nat) /\ Len(staging') = Len(staging) + Portion
      /\ Portion \in 1 .. rest /\ Len(staging') \in 1 .. BlockFrames
      /\ Len(staging') < BlockFrames => Portion = rest
  BY <1>1, Extended, PortionFits
<1>3. rest' \in Nat /\ (Len(staging') < BlockFrames => rest' = 0)
  BY <1>2, Counted, SMT DEF AppendAudio
<1>4. at' = IF Len(staging') = BlockFrames THEN "submit" ELSE "pace" BY DEF AppendAudio
<1>5. UNCHANGED <<blocks, done, next, submitted, device, queued, opened, speed, frame>>
  BY DEF AppendAudio
<1>6. Lent' /\ Begun' BY <1>5 DEF Lent, Begun, Turn
<1>7. WaveTypeOK'
  <2>1. Len(staging') \in 0 .. BlockFrames BY <1>2, Constants, SMT
  <2> QED BY <1>2, <1>3, <1>4, <1>5, <2>1 DEF WaveTypeOK
<1>8. Flow'
  <2>1. Len(staging') # BlockFrames => Len(staging') < BlockFrames BY <1>2, Constants, SMT
  <2> QED BY <1>1, <1>3, <1>4, <1>5, <2>1 DEF Flow
<1> QED BY <1>6, <1>7, <1>8

\* A handed block comes after the others, which are one submission older.
LEMMA SubmitKeepsOrder ==
  ASSUME WaveInv, SubmitCompleteAudioBlock
  PROVE  Lent' /\ Begun' /\ Len(queued') = Len(queued) + 1 /\ Len(queued') <= Count
<1> USE DEF WaveInv
<1>1. Ready /\ at = "submit" /\ device BY DEF SubmitCompleteAudioBlock, Flow
<1>2. Len(queued) < Count /\ \A i \in 1 .. Len(queued) : queued[i] # next
  BY <1>1, ReadyIsFree
<1>3. queued' = Append(queued, next) /\ queued \in Seq(Indexes)
  BY DEF SubmitCompleteAudioBlock, WaveTypeOK
<1>4. /\ Len(queued') = Len(queued) + 1 /\ queued'[Len(queued) + 1] = next
      /\ \A i \in 1 .. Len(queued) : queued'[i] = queued[i]
  BY <1>3, SMT
<1>5. next' = IF next + 1 = Count THEN 0 ELSE next + 1
  BY NextBlock DEF SubmitCompleteAudioBlock, WaveTypeOK
<1>6. Turn(next', 1) = next BY <1>5, Counted, Constants, SMT DEF Turn
<1>7. ASSUME NEW j \in 1 .. Len(queued) PROVE Turn(next', j + 1) = Turn(next, j)
  BY <1>2, <1>5, Counted, Constants, SMT DEF Turn
<1>8. done' = done \ {next} /\ device' = device BY DEF SubmitCompleteAudioBlock
<1>9. ASSUME NEW i \in 1 .. Len(queued')
      PROVE  queued'[i] = Turn(next', Len(queued') - i + 1) /\ queued'[i] \notin done'
  <2>1. CASE i = Len(queued) + 1
    <3>1. Len(queued') - i + 1 = 1 BY <1>4, <2>1, Counted, SMT
    <3>2. queued'[i] = next BY <1>4, <2>1
    <3>3. Turn(next', Len(queued') - i + 1) = next BY <3>1, <1>6
    <3> QED BY <3>2, <3>3, <1>8
  <2>2. CASE i # Len(queued) + 1
    <3> DEFINE j == Len(queued) - i + 1
    <3>1. i \in 1 .. Len(queued) /\ j \in 1 .. Len(queued) /\ Len(queued') - i + 1 = j + 1
      BY <1>4, <2>2, Counted, SMT
    <3>2. queued'[i] = queued[i] /\ queued[i] = Turn(next, j) /\ queued[i] \notin done
      BY <1>4, <3>1 DEF Lent
    <3>3. Turn(next', j + 1) = Turn(next, j) BY <3>1, <1>7
    <3>4. Turn(next', Len(queued') - i + 1) = Turn(next', j + 1) BY <3>1
    <3> QED BY <3>2, <3>3, <3>4, <1>8
  <2> QED BY <2>1, <2>2
<1>10. submitted' = IF submitted < Count THEN submitted + 1 ELSE Count
  BY DEF SubmitCompleteAudioBlock
<1>11. submitted' < Count =>
         submitted < Count /\ Len(queued') <= submitted' /\ next' = submitted'
  BY <1>4, <1>5, <1>10, Counted, Constants, SMT DEF Lent, Begun
<1>12. ASSUME NEW b \in Indexes, b < submitted'
       PROVE  b \in done' \/ \E i \in 1 .. Len(queued') : queued'[i] = b
  <2>1. CASE b = next
    <3>1. Len(queued) + 1 \in 1 .. Len(queued') BY <1>4, Counted, SMT
    <3> QED BY <2>1, <3>1, <1>4
  <2>2. CASE b # next
    <3>1. b < submitted BY <2>2, <1>10, <1>12, Counted, Constants, SMT DEF Indexes, Begun
    <3>2. CASE b \in done BY <2>2, <3>2, <1>8
    <3>3. ASSUME NEW i \in 1 .. Len(queued), queued[i] = b
          PROVE  \E k \in 1 .. Len(queued') : queued'[k] = b
      <4>1. i \in 1 .. Len(queued') BY <1>4, Counted, SMT
      <4> QED BY <4>1, <3>3, <1>4
    <3> QED BY <1>1, <3>1, <3>2, <3>3 DEF Begun
  <2> QED BY <2>1, <2>2
<1>13. Len(queued') <= Count BY <1>2, <1>4, Counted, Constants, SMT
<1> QED BY <1>1, <1>4, <1>8, <1>9, <1>11, <1>12, <1>13 DEF Lent, Begun

LEMMA SubmitKeeps == ASSUME WaveInv, SubmitCompleteAudioBlock PROVE WaveInv'
<1>1. Lent' /\ Begun' /\ Len(queued') = Len(queued) + 1 /\ Len(queued') <= Count
  BY SubmitKeepsOrder
<1> USE DEF WaveInv
<1>2. at = "submit" /\ device /\ ~opened /\ speed = "normal"
  BY DEF SubmitCompleteAudioBlock, Flow
<1>3. staging' = <<>> /\ Len(<<>>) = 0 /\ <<>> \in Seq(Nat) BY DEF SubmitCompleteAudioBlock
<1>4. next' \in Indexes
  BY NextBlock, Counted, Constants, SMT DEF SubmitCompleteAudioBlock, Indexes
<1>5. submitted' \in 0 .. Count BY Counted, Constants, SMT DEF SubmitCompleteAudioBlock
<1>6. queued' \in Seq(Indexes) /\ Len(queued') \in 0 .. Count
  <2>1. queued \in Seq(Indexes) /\ next \in Indexes /\ queued' = Append(queued, next)
    BY DEF SubmitCompleteAudioBlock, WaveTypeOK
  <2>2. queued' \in Seq(Indexes) BY <2>1
  <2>3. Len(queued') \in 0 .. Count BY <1>1, Counted, Constants, SMT
  <2> QED BY <2>2, <2>3
<1>7. blocks' \in [Indexes -> Seq(Nat)] BY DEF SubmitCompleteAudioBlock, WaveTypeOK
<1>8. 0 \in 0 .. BlockFrames /\ 0 < BlockFrames BY Constants, SMT
<1>9. at' = IF rest > 0 THEN "append" ELSE "pace" BY DEF SubmitCompleteAudioBlock
<1>10. UNCHANGED <<device, opened, speed, frame, rest>> /\ done' = done \ {next}
  BY DEF SubmitCompleteAudioBlock
<1>11. WaveTypeOK' BY <1>3, <1>4, <1>5, <1>6, <1>7, <1>8, <1>9, <1>10 DEF WaveTypeOK
<1>12. Flow'
  <2>1. ~(rest > 0) => rest = 0 BY Counted, SMT
  <2> QED BY <1>2, <1>3, <1>8, <1>9, <1>10, <2>1 DEF Flow
<1> QED BY <1>1, <1>11, <1>12

\* Without the device nothing waits.
LEMMA SilenceKeeps ==
  ASSUME WaveInv, ShutdownAudio, blocks' \in [Indexes -> Seq(Nat)],
         at' \in {"pace", "end"}, rest' = 0, UNCHANGED <<opened, speed, frame>>
  PROVE  WaveInv'
<1> USE DEF WaveInv
<1>1. queued' = <<>> /\ device' = FALSE /\ UNCHANGED <<staging, next, submitted>>
      /\ done' = GivenBack
  BY DEF ShutdownAudio
<1>2. Len(<<>>) = 0 /\ <<>> \in Seq(Indexes) /\ 0 \in 0 .. Count /\ 0 \in Nat
      /\ Len(queued') <= submitted
  BY <1>1, Counted, Constants, SMT
<1>3. done' \subseteq Indexes BY <1>1, Counted DEF GivenBack, WaveTypeOK
<1>4. WaveTypeOK' BY <1>1, <1>2, <1>3 DEF WaveTypeOK
<1>5. Lent'
  <2>1. \A i \in 1 .. Len(queued') : FALSE BY <1>1, <1>2, SMT
  <2> QED BY <1>1, <1>2, <2>1 DEF Lent
<1>6. Begun' /\ Flow' BY <1>1 DEF Begun, Flow
<1> QED BY <1>4, <1>5, <1>6

\* What the device has played is the oldest block.
LEMMA PlayKeeps == ASSUME WaveInv, BlockDone PROVE WaveInv'
<1> USE DEF WaveInv
<1>1. queued \in Seq(Indexes) /\ queued # <<>> /\ queued' = Tail(queued)
      /\ done' = done \cup {Head(queued)}
  BY DEF BlockDone, WaveTypeOK
<1>2. /\ queued' \in Seq(Indexes) /\ Head(queued) = queued[1] /\ Head(queued) \in Indexes
      /\ Len(queued) \in Nat /\ Len(queued) > 0 /\ Len(queued') = Len(queued) - 1
      /\ \A i \in 1 .. Len(queued') : queued'[i] = queued[i + 1]
  BY <1>1, SMT
<1>3. UNCHANGED <<at, blocks, staging, next, submitted, device, opened, speed, frame, rest>>
  BY DEF BlockDone
<1>4. WaveTypeOK'
  <2>1. Len(queued') \in 0 .. Count BY <1>2, Counted, Constants, SMT
  <2> QED BY <1>1, <1>2, <1>3, <2>1 DEF WaveTypeOK
<1>5. queued[1] = Turn(next, Len(queued)) /\ queued[1] \notin done
  <2>1. 1 \in 1 .. Len(queued) /\ Len(queued) - 1 + 1 = Len(queued) BY <1>2, SMT
  <2> QED BY <2>1 DEF Lent
<1>6. Lent'
  <2>1. ASSUME NEW i \in 1 .. Len(queued')
        PROVE  queued'[i] = Turn(next', Len(queued') - i + 1) /\ queued'[i] \notin done'
    <3> DEFINE j == Len(queued') - i + 1
    <3>1. i + 1 \in 1 .. Len(queued) /\ Len(queued) - (i + 1) + 1 = j
          /\ j \in Nat /\ 1 <= j /\ j < Len(queued)
      BY <1>2, SMT
    <3>2. queued'[i] = Turn(next, j) /\ queued'[i] \notin done
      BY <1>2, <3>1 DEF Lent
    <3>3. Turn(next, j) # Turn(next, Len(queued))
      <4> HIDE DEF j
      <4> QED BY <3>1, Counted, Constants, SMT DEF Turn
    <3> QED BY <1>1, <1>2, <1>3, <1>5, <3>2, <3>3
  <2>2. submitted' < Count => Len(queued') <= submitted'
    BY <1>2, <1>3, Counted, Constants, SMT DEF Lent
  <2>3. device BY <1>1 DEF Lent
  <2> QED BY <1>3, <2>1, <2>2, <2>3 DEF Lent
<1>7. Begun'
  <2>1. ASSUME NEW b \in Indexes, b < submitted', b \notin done', device
        PROVE  \E i \in 1 .. Len(queued') : queued'[i] = b
    <3>1. PICK i \in 1 .. Len(queued) : queued[i] = b BY <1>1, <1>3, <2>1 DEF Begun
    <3>2. i # 1 BY <1>1, <1>2, <2>1, <3>1
    <3>3. i - 1 \in 1 .. Len(queued') /\ (i - 1) + 1 = i BY <1>2, <3>2, SMT
    <3> QED BY <1>2, <3>1, <3>3
  <2> QED BY <1>3, <2>1 DEF Begun
<1>8. Flow' BY <1>1, <1>3 DEF Flow
<1> QED BY <1>4, <1>6, <1>7, <1>8

LEMMA WaveStep == ASSUME WaveInv, [WaveNext]_waveVars PROVE WaveInv'
<1>1. ASSUME NEW open \in BOOLEAN, NEW loaded \in BOOLEAN, NEW s \in Speeds,
             Control(open, s, loaded)
      PROVE  WaveInv'
  BY <1>1, ControlKeeps
<1>2. CASE AppendAudio BY <1>2, AppendKeeps
<1>3. CASE SubmitCompleteAudioBlock BY <1>3, SubmitKeeps
<1>4. CASE SubmitFails
  <2>1. blocks' \in [Indexes -> Seq(Nat)] BY <1>4 DEF SubmitFails, WaveInv, WaveTypeOK
  <2> QED BY <1>4, <2>1, SilenceKeeps DEF SubmitFails
<1>5. CASE Pace
  <2>1. UNCHANGED <<output, opened, speed, frame, rest>> /\ at = "pace" /\ at' = "control"
    BY <1>5 DEF Pace
  <2>2. WaveTypeOK' BY <2>1 DEF output, WaveInv, WaveTypeOK
  <2>3. Lent' /\ Begun' BY <2>1 DEF output, WaveInv, Lent, Begun
  <2>4. Flow' BY <2>1 DEF output, WaveInv, Flow
  <2> QED BY <2>2, <2>3, <2>4 DEF WaveInv
<1>6. CASE Close
  <2>1. CASE device
    BY <1>6, <2>1, SilenceKeeps DEF Close, WaveInv, WaveTypeOK
  <2>2. CASE ~device
    <3>1. UNCHANGED <<output, opened, speed, frame>> /\ at' = "end" /\ rest' = 0
      BY <1>6, <2>2 DEF Close
    <3>2. 0 \in Nat OBVIOUS
    <3>3. WaveTypeOK' BY <3>1, <3>2 DEF output, WaveInv, WaveTypeOK
    <3>4. Lent' /\ Begun' BY <3>1 DEF output, WaveInv, Lent, Begun
    <3>5. Flow' BY <2>2, <3>1 DEF output, WaveInv, Flow
    <3> QED BY <3>3, <3>4, <3>5 DEF WaveInv
  <2> QED BY <2>1, <2>2
<1>7. CASE BlockDone BY <1>7, PlayKeeps
<1>8. CASE UNCHANGED waveVars
  <2>1. UNCHANGED <<at, blocks, done, staging, next, submitted, device, queued, opened,
                    speed, frame, rest>>
    BY <1>8 DEF waveVars, output
  <2>2. WaveTypeOK' BY <2>1 DEF WaveInv, WaveTypeOK
  <2>3. Lent' /\ Begun' BY <2>1 DEF WaveInv, Lent, Begun
  <2>4. Flow' BY <2>1 DEF WaveInv, Flow
  <2> QED BY <2>2, <2>3, <2>4 DEF WaveInv
<1> QED BY <1>1, <1>2, <1>3, <1>4, <1>5, <1>6, <1>7, <1>8 DEF WaveNext, Loop

LEMMA WaveStart == WaveInit => WaveInv
<1> SUFFICES ASSUME WaveInit PROVE WaveInv OBVIOUS
<1> USE DEF WaveInit
<1>1. Len(<<>>) = 0 /\ <<>> \in Seq(Nat) /\ <<>> \in Seq(Indexes) OBVIOUS
<1>2. 0 \in Indexes /\ 0 \in 0 .. Count /\ 0 \in 0 .. BlockFrames /\ 0 < BlockFrames /\ 0 \in Nat
  BY Constants, SMT DEF Indexes
<1>3. blocks \in [Indexes -> Seq(Nat)] BY <1>1
<1>4. WaveTypeOK BY <1>1, <1>2, <1>3 DEF WaveTypeOK, Speeds
<1>5. Lent
  <2>1. \A i \in 1 .. Len(queued) : FALSE BY <1>1, SMT
  <2>2. Len(queued) <= submitted BY <1>1, SMT
  <2> QED BY <2>1, <2>2 DEF Lent
<1>6. Begun
  <2>1. \A b \in Indexes : ~(b < submitted) BY SMT DEF Indexes
  <2> QED BY <2>1 DEF Begun
<1>7. Flow BY <1>1, <1>2 DEF Flow
<1> QED BY <1>4, <1>5, <1>6, <1>7 DEF WaveInv

LEMMA WaveInvariance == WaveSpec => []WaveInv
<1>1. WaveInv /\ [WaveNext]_waveVars => WaveInv' BY WaveStep
<1> QED BY <1>1, WaveStart, PTL DEF WaveSpec

\* The state of the wave output keeps its types for every number and size of
\* blocks (struct DesktopAudio).
THEOREM WaveTypeCorrect == WaveSpec => []WaveTypeOK
<1>1. WaveInv => WaveTypeOK BY DEF WaveInv
<1> QED BY <1>1, WaveInvariance, PTL

-----------------------------------------------------------------------------
(* The line the device plays.                                                *)
Blocks == [i \in 1 .. Len(queued) |-> blocks[queued[i]]]
Partial == IF device THEN staging ELSE <<>>

LEMMA BlocksAreSeq ==
  ASSUME WaveTypeOK
  PROVE  Blocks \in Seq(Seq(Nat)) /\ Len(Blocks) = Len(queued)
<1>1. \A i \in 1 .. Len(queued) : blocks[queued[i]] \in Seq(Nat) BY Counted DEF WaveTypeOK
<1> QED BY <1>1, Counted DEF Blocks

\* An emptied line is a jump, wherever the game goes on.
LEMMA EmptyIsJump ==
  ASSUME queued' = <<>>, device' => staging' = <<>>, frame' \in Nat, rest' \in Amounts \cup {0}
  PROVE  Line!Jump
<1>1. Len(<<>>) = 0 OBVIOUS
<1>2. Blocks' = <<>> BY <1>1 DEF Blocks
<1>3. Partial' = <<>> BY DEF Partial
<1> QED BY <1>2, <1>3 DEF Line!Jump, Blocks, Partial

LEMMA ControlIsFrame ==
  ASSUME WaveInv, NEW open \in BOOLEAN, NEW s \in Speeds, NEW loaded \in BOOLEAN,
         Control(open, s, loaded)
  PROVE  Line!Frame \/ Line!Jump
<1>1. WaveInv' BY ControlKeeps
<1>2. frame' \in Nat /\ rest' \in Amounts \cup {0}
  BY <1>1 DEF WaveInv, WaveTypeOK, Control
<1>3. CASE Cuts(open, s, loaded) /\ device
  <2>1. queued' = <<>> /\ staging' = <<>> BY <1>3, ResetKeeps DEF Control
  <2> QED BY <1>2, <2>1, EmptyIsJump
<1>4. CASE ~(Cuts(open, s, loaded) /\ device)
  <2>1. UNCHANGED output BY <1>4, ResetKeeps DEF Control
  <2>2. CASE ~device
    <3>1. queued' = <<>> /\ ~device' BY <2>1, <2>2 DEF output, WaveInv, Lent
    <3> QED BY <1>2, <3>1, EmptyIsJump
  <2>3. CASE device /\ (opened \/ speed # "normal")
    <3>1. queued' = <<>> /\ staging' = <<>> BY <2>1, <2>3 DEF output, WaveInv, Flow
    <3> QED BY <1>2, <3>1, EmptyIsJump
  <2>4. CASE device /\ ~opened /\ speed = "normal"
    <3>1. ~open /\ s = "normal" /\ ~loaded BY <1>4, <2>4 DEF Cuts
    <3>2. frame' = frame + 1 BY <3>1 DEF Control
    <3>3. rest = 0 /\ rest' \in Amounts BY <2>4, <3>1 DEF Control, WaveInv, Flow
    <3>4. Blocks' = Blocks /\ Partial' = Partial BY <2>1 DEF output, Blocks, Partial
    <3> QED BY <3>2, <3>3, <3>4 DEF Line!Frame, Blocks, Partial
  <2> QED BY <2>2, <2>3, <2>4
<1> QED BY <1>3, <1>4

LEMMA AppendIsFill == ASSUME WaveInv, AppendAudio PROVE Line!Fill
<1> USE DEF WaveInv
<1>1. at = "append" /\ device BY DEF AppendAudio, Flow
<1>2. Portion \in 1 .. rest /\ Len(staging) + Portion <= BlockFrames
  BY <1>1, PortionFits, Counted, Constants, SMT
<1>3. staging' = staging \o [i \in 1 .. Portion |-> frame] /\ rest' = rest - Portion
  BY DEF AppendAudio
<1>4. UNCHANGED <<blocks, queued, device, frame>> BY DEF AppendAudio
<1>5. Blocks' = Blocks BY <1>4 DEF Blocks
<1>6. Partial = staging /\ Partial' = staging' BY <1>1, <1>4 DEF Partial
<1> QED BY <1>2, <1>3, <1>4, <1>5, <1>6 DEF Line!Fill, Blocks, Partial

LEMMA SubmitIsClose == ASSUME WaveInv, SubmitCompleteAudioBlock PROVE Line!Close
<1> USE DEF WaveInv
<1>1. at = "submit" /\ device /\ Ready /\ Len(staging) = BlockFrames
  BY DEF SubmitCompleteAudioBlock, Flow
<1>2. Len(queued) < Count /\ \A i \in 1 .. Len(queued) : queued[i] # next
  BY <1>1, ReadyIsFree
<1>3. /\ Len(queued') = Len(queued) + 1 /\ queued'[Len(queued) + 1] = next
      /\ \A i \in 1 .. Len(queued) : queued'[i] = queued[i]
  <2>1. queued \in Seq(Indexes) /\ queued' = Append(queued, next)
    BY DEF SubmitCompleteAudioBlock, WaveTypeOK
  <2> QED BY <2>1, SMT
<1>4. blocks' = [blocks EXCEPT ![next] = staging] /\ blocks \in [Indexes -> Seq(Nat)]
      /\ next \in Indexes /\ staging' = <<>> /\ UNCHANGED <<device, frame, rest>>
  BY DEF SubmitCompleteAudioBlock, WaveTypeOK
<1>5. /\ \A i \in 1 .. Len(queued) : blocks'[queued'[i]] = blocks[queued[i]]
      /\ blocks'[queued'[Len(queued) + 1]] = staging
  BY <1>2, <1>3, <1>4, Counted
<1>6. Blocks' = Append(Blocks, staging)
  <2>1. Blocks \in Seq(Seq(Nat)) /\ Len(Blocks) = Len(queued) BY BlocksAreSeq
  <2> DEFINE both == [i \in 1 .. Len(queued) + 1 |-> blocks'[queued'[i]]]
  <2>2. Blocks' = both BY <1>3 DEF Blocks
  <2>3. \A i \in 1 .. Len(queued) : both[i] = Blocks[i]
    <3>1. \A i \in 1 .. Len(queued) : i \in 1 .. Len(queued) + 1 BY Counted, SMT
    <3> QED BY <1>5, <3>1 DEF Blocks
  <2>4. both[Len(queued) + 1] = staging
    <3>1. Len(queued) + 1 \in 1 .. Len(queued) + 1 BY Counted, SMT
    <3> QED BY <1>5, <3>1
  <2>5. both \in Seq(Seq(Nat)) /\ Len(both) = Len(queued) + 1
    <3>1. staging \in Seq(Nat) BY DEF WaveTypeOK
    <3>2. ASSUME NEW i \in 1 .. Len(queued) + 1 PROVE both[i] \in Seq(Nat)
      <4>1. CASE i = Len(queued) + 1 BY <4>1, <2>4, <3>1
      <4>2. CASE i # Len(queued) + 1
        <5>1. i \in 1 .. Len(queued) BY <4>2, Counted, SMT
        <5>2. Blocks[i] \in Seq(Nat) BY <2>1, <5>1
        <5> QED BY <5>1, <5>2, <2>3
      <4> QED BY <4>1, <4>2
    <3> QED BY <3>2, Counted
  <2> HIDE DEF both
  <2>6. both = Append(Blocks, staging)
    <3>1. staging \in Seq(Nat) BY DEF WaveTypeOK
    <3>2. /\ Append(Blocks, staging) \in Seq(Seq(Nat))
          /\ Len(Append(Blocks, staging)) = Len(queued) + 1
          /\ Append(Blocks, staging)[Len(queued) + 1] = staging
          /\ \A i \in 1 .. Len(queued) : Append(Blocks, staging)[i] = Blocks[i]
      BY <2>1, <3>1
    <3>3. \A i \in 1 .. Len(queued) + 1 : i \in 1 .. Len(queued) \/ i = Len(queued) + 1
      BY Counted, SMT
    <3> QED BY <2>3, <2>4, <2>5, <3>2, <3>3
  <2> QED BY <2>2, <2>6
<1>7. Partial = staging /\ Partial' = <<>> BY <1>1, <1>4 DEF Partial
<1>8. Len(Blocks) = Len(queued) BY BlocksAreSeq
<1> QED BY <1>1, <1>2, <1>4, <1>6, <1>7, <1>8 DEF Line!Close, Blocks, Partial

LEMMA TailIs ==
  ASSUME NEW q \in Seq(Seq(Nat)), q # <<>>
  PROVE  Tail(q) = [i \in 1 .. Len(q) - 1 |-> q[i + 1]]
<1>1. Tail(q) \in Seq(Seq(Nat)) /\ Len(Tail(q)) = Len(q) - 1 /\ Len(q) - 1 \in Nat
  BY HeadTailProperties
<1>2. \A i \in 1 .. Len(q) - 1 : Tail(q)[i] = q[i + 1] BY <1>1, HeadTailProperties
<1> DEFINE others == [i \in 1 .. Len(q) - 1 |-> q[i + 1]]
<1>3. others \in Seq(Seq(Nat)) /\ Len(others) = Len(q) - 1
  <2>1. \A i \in 1 .. Len(q) - 1 : q[i + 1] \in Seq(Nat) BY <1>1, SMT
  <2> QED BY <1>1, <2>1
<1>4. \A i \in 1 .. Len(q) - 1 : others[i] = q[i + 1] OBVIOUS
<1> HIDE DEF others
<1>5. Tail(q) = others BY <1>1, <1>2, <1>3, <1>4, SeqEqual
<1> QED BY <1>5 DEF others

LEMMA DoneIsPlay == ASSUME WaveInv, BlockDone PROVE Line!Play
<1> USE DEF WaveInv
<1>1. queued \in Seq(Indexes) /\ queued # <<>> /\ queued' = Tail(queued)
  BY DEF BlockDone, WaveTypeOK
<1>2. /\ Len(queued) \in Nat /\ Len(queued) > 0 /\ Len(queued') = Len(queued) - 1
      /\ \A i \in 1 .. Len(queued') : queued'[i] = queued[i + 1]
  BY <1>1, SMT
<1>3. Blocks \in Seq(Seq(Nat)) /\ Len(Blocks) = Len(queued) BY BlocksAreSeq
<1>4. Blocks # <<>> BY <1>2, <1>3, SMT
<1>5. UNCHANGED <<blocks, staging, device, frame, rest>> BY DEF BlockDone
<1>6. Blocks' = Tail(Blocks)
  <2>1. Blocks' = [i \in 1 .. Len(queued) - 1 |-> blocks[queued[i + 1]]]
    BY <1>2, <1>5 DEF Blocks
  <2>2. Tail(Blocks) = [i \in 1 .. Len(queued) - 1 |-> Blocks[i + 1]]
    BY <1>3, <1>4, TailIs
  <2>3. \A i \in 1 .. Len(queued) - 1 : Blocks[i + 1] = blocks[queued[i + 1]]
    <3>1. \A i \in 1 .. Len(queued) - 1 : i + 1 \in 1 .. Len(queued) BY <1>2, SMT
    <3> QED BY <3>1 DEF Blocks
  <2> QED BY <2>1, <2>2, <2>3
<1>7. Partial' = Partial BY <1>5 DEF Partial
<1> QED BY <1>4, <1>5, <1>6, <1>7 DEF Line!Play, Blocks, Partial

\* A step of the host is a step of the line, or changes nothing of it.
LEMMA LineStep ==
  ASSUME WaveInv, [WaveNext]_waveVars
  PROVE  [Line!LineNext]_(Line!lineVars)
<1> DEFINE still == UNCHANGED <<Blocks, Partial, frame, rest>>
<1>1. still => UNCHANGED Line!lineVars BY DEF Line!lineVars, Blocks, Partial
<1>2. WaveInv' BY WaveStep
<1>3. frame' \in Nat BY <1>2 DEF WaveInv, WaveTypeOK
<1>4. ASSUME NEW open \in BOOLEAN, NEW loaded \in BOOLEAN, NEW s \in Speeds,
             Control(open, s, loaded)
      PROVE  Line!LineNext
  BY <1>4, ControlIsFrame DEF Line!LineNext
<1>5. CASE AppendAudio BY <1>5, AppendIsFill DEF Line!LineNext
<1>6. CASE SubmitCompleteAudioBlock BY <1>6, SubmitIsClose DEF Line!LineNext
<1>7. CASE SubmitFails
  BY <1>3, <1>7, EmptyIsJump DEF SubmitFails, ShutdownAudio, Line!LineNext
<1>8. CASE Pace
  <2>1. still BY <1>8 DEF Pace, output, Blocks, Partial
  <2> QED BY <1>1, <2>1
<1>9. CASE Close
  <2>1. CASE device
    BY <1>3, <1>9, <2>1, EmptyIsJump DEF Close, ShutdownAudio, Line!LineNext
  <2>2. CASE ~device
    <3>1. queued' = <<>> /\ ~device' /\ rest' = 0
      BY <1>9, <2>2 DEF Close, output, WaveInv, Lent
    <3> QED BY <1>3, <3>1, EmptyIsJump DEF Line!LineNext
  <2> QED BY <2>1, <2>2
<1>10. CASE BlockDone BY <1>10, DoneIsPlay DEF Line!LineNext
<1>11. CASE UNCHANGED waveVars
  <2>1. still BY <1>11 DEF waveVars, output, Blocks, Partial
  <2> QED BY <1>1, <2>1
<1> QED BY <1>4, <1>5, <1>6, <1>7, <1>8, <1>9, <1>10, <1>11 DEF WaveNext, Loop

\* For every number and size of blocks the device plays the sound of the game
\* in the order it was made, each block once and whole, nothing from before a
\* jump (AppendAudio, SubmitCompleteAudioBlock, ResetAudioQueue).
THEOREM ImplementsSoundLine == WaveSpec => LineRefinement
<1>1. WaveInit => Line!LineInit
  <2>1. Len(<<>>) = 0 OBVIOUS
  <2> QED BY <2>1 DEF WaveInit, Line!LineInit
<1>2. WaveInv /\ [WaveNext]_waveVars => [Line!LineNext]_(Line!lineVars) BY LineStep
<1> QED BY <1>1, <1>2, WaveInvariance, PTL DEF WaveSpec, LineRefinement, Line!LineSpec

-----------------------------------------------------------------------------
\* What the keyboard's withholding rests on.
Withheld == stale \subseteq blocked_keys \cap down /\ taps \subseteq told

KeysInv == KeysTypeOK /\ Withheld

LEMMA TransitionKeeps ==
  ASSUME KeysInv, Transition, UNCHANGED down PROVE
    /\ Withheld'
    /\ down' \subseteq Keys /\ blocked_keys' \subseteq Keys /\ taps' \subseteq Keys
    /\ stale' \subseteq Keys /\ told' \subseteq Keys /\ foreign' \subseteq Keys
  BY DEF KeysInv, KeysTypeOK, Withheld, Transition, Capture

LEMMA MailFits ==
  ASSUME NEW m \in Messages, mail \in Seq(Messages), Mail(m) PROVE mail' \in Seq(Messages)
  BY DEF Mail

LEMMA TailsKeep ==
  ASSUME NEW S, NEW s \in Seq(S), s # <<>> PROVE Head(s) \in S /\ Tail(s) \in Seq(S)
  BY HeadTailProperties

LEMMA HandleKeeps == ASSUME KeysInv, Handle PROVE KeysInv'
<1> USE DEF KeysInv
<1>1. Head(mail) \in Messages /\ mail' \in Seq(Messages)
  BY TailsKeep DEF KeysTypeOK, Handle, Handling
<1>2. UNCHANGED <<phase, down, front, seen>>
  BY DEF Handle
<1>3. CASE Head(mail) \in Keys /\ KeyMessage(Head(mail))
  <2> DEFINE k == Head(mail)
  <2>1. k \in Keys /\ KeyMessage(k)
    BY <1>3
  <2> HIDE DEF k
  <2>2. overlay' \in BOOLEAN /\ UNCHANGED <<blocked_keys, commands, in_menu, stale, foreign>>
    BY <2>1 DEF KeyMessage, KeysTypeOK
  <2>3. taps' \subseteq told' /\ taps' \subseteq Keys /\ told' \subseteq Keys
    BY <2>1 DEF KeyMessage, KeysTypeOK, Withheld
  <2> QED
    BY <1>1, <1>2, <2>2, <2>3 DEF KeysTypeOK, Withheld
<1>4. CASE Head(mail) \in Commands /\ CommandMessage(Head(mail))
  <2>1. commands' \in Seq(Commands)
    BY <1>4 DEF CommandMessage, KeysTypeOK
  <2> QED
    BY <1>1, <1>2, <1>4, <2>1 DEF CommandMessage, KeysTypeOK, Withheld, history
<1>5. CASE MenuMessage
  <2>1. UNCHANGED <<commands, overlay>>
    BY <1>5 DEF MenuMessage
  <2>2. CASE phase = "box"
    BY <1>1, <1>2, <1>5, <2>1, <2>2 DEF MenuMessage, KeysTypeOK, Withheld, history
  <2>3. CASE phase # "box"
    <3>1. in_menu' = TRUE /\ Transition
      BY <1>5, <2>3 DEF MenuMessage
    <3> QED
      BY <1>1, <1>2, <2>1, <3>1, TransitionKeeps DEF KeysTypeOK
  <2> QED
    BY <2>2, <2>3
<1>6. CASE Transition /\ UNCHANGED <<commands, overlay, in_menu>>
  BY <1>1, <1>2, <1>6, TransitionKeeps DEF KeysTypeOK
<1> QED
  BY <1>3, <1>4, <1>5, <1>6 DEF Handle

LEMMA MenuEndsKeeps == ASSUME KeysInv, MenuEnds PROVE KeysInv'
<1>1. mail' \in Seq(Messages)
  BY MailFits DEF MenuEnds, KeysInv, KeysTypeOK, Messages
<1>2. Transition /\ in_menu' = FALSE /\ UNCHANGED <<phase, down, front, commands, overlay, seen>>
  BY DEF MenuEnds
<1> QED
  BY <1>1, <1>2, TransitionKeeps DEF KeysInv, KeysTypeOK

LEMMA CommandKeeps == ASSUME KeysInv, Command PROVE KeysInv'
<1>1. commands' \in Seq(Commands) /\ UNCHANGED <<down, mail, in_menu, seen>>
  BY TailsKeep DEF Command, KeysInv, KeysTypeOK
<1>2. CASE Head(commands) = "about" /\ front
  <2>1. phase' = "box" /\ front' = FALSE /\ UNCHANGED overlay /\ Transition
    BY <1>2 DEF Command
  <2> QED
    BY <1>1, <2>1, TransitionKeeps DEF KeysInv, KeysTypeOK
<1>3. CASE ~(Head(commands) = "about" /\ front)
  <2>1. phase' \in {phase, "box"} /\ front' \in BOOLEAN /\ overlay' \in BOOLEAN
    BY <1>3 DEF Command, KeysInv, KeysTypeOK
  <2>2. UNCHANGED <<blocked_keys, taps, history>>
    BY <1>3 DEF Command
  <2> QED
    BY <1>1, <2>1, <2>2 DEF KeysInv, KeysTypeOK, Withheld, history
<1> QED
  BY <1>2, <1>3

LEMMA ReadKeeps == ASSUME KeysInv, ReadControls PROVE KeysInv'
<1> USE DEF KeysInv, KeysTypeOK, Withheld
<1>1. blocked_keys' \subseteq Keys /\ stale \subseteq blocked_keys'
  BY DEF ReadControls, StillBlocked
<1>2. seen' \subseteq Keys
  BY DEF ReadControls
<1> QED
  BY <1>1, <1>2 DEF ReadControls

LEMMA KeysStep == ASSUME KeysInv, [KeysNext]_keyVars PROVE KeysInv'
<1>1. ASSUME NEW k \in Keys, Press(k) PROVE KeysInv'
  <2>1. mail' \in Seq(Messages)
    BY <1>1, MailFits DEF Press, KeysInv, KeysTypeOK, Messages
  <2> QED
    BY <1>1, <2>1 DEF Press, KeysInv, KeysTypeOK, Withheld
<1>2. ASSUME NEW k \in Keys, Release(k) PROVE KeysInv'
  BY <1>2 DEF Release, KeysInv, KeysTypeOK, Withheld
<1>3. CASE ToMenu \/ GoAway
  <2>1. mail' \in Seq(Messages)
    BY <1>3, MailFits DEF ToMenu, GoAway, KeysInv, KeysTypeOK, Messages
  <2> QED
    BY <1>3, <2>1 DEF ToMenu, GoAway, KeysInv, KeysTypeOK, Withheld, history
<1>4. CASE ComeBack \/ Pumped \/ BoxEnds \/ FrameEnds
  BY <1>4 DEF ComeBack, Pumped, BoxEnds, FrameEnds, KeysInv, KeysTypeOK, Withheld, history
<1>5. CASE UNCHANGED keyVars
  BY <1>5 DEF keyVars, KeysInv, KeysTypeOK, Withheld, history
<1> QED
  BY <1>1, <1>2, <1>3, <1>4, <1>5, HandleKeeps, MenuEndsKeeps, CommandKeeps, ReadKeeps
  DEF KeysNext

LEMMA KeysInvariance == KeysSpec => []KeysInv
<1>1. KeysInit => KeysInv
  <2>1. <<>> \in Seq(Messages) /\ <<>> \in Seq(Commands)
    OBVIOUS
  <2>2. KeysInit => KeysTypeOK
    BY <2>1, Zenon DEF KeysInit, KeysTypeOK
  <2> QED
    BY <2>2, SMT DEF KeysInit, KeysInv, Withheld
<1> QED
  BY <1>1, KeysStep, PTL DEF KeysSpec

\* For every keyboard and every queue: a key held over the native menu or a
\* loss of the focus is withheld, with all others, until it is up, and no press
\* from before such a transition is given to the game.
THEOREM HeldKeysAreWithheld == KeysSpec => KeysAreFresh
<1>1. ASSUME KeysInv, ReadControls
      PROVE  (seen' # {} => stale = {}) /\ seen' \subseteq down \cup told
  <2>1. seen' # {} => StillBlocked = {}
    BY <1>1 DEF ReadControls
  <2>2. stale \subseteq StillBlocked /\ taps \subseteq told
    BY <1>1 DEF KeysInv, Withheld, StillBlocked
  <2>3. seen' \subseteq down \cup taps
    BY <1>1 DEF ReadControls
  <2> QED
    BY <2>1, <2>2, <2>3
<1> QED
  BY <1>1, KeysInvariance, PTL DEF KeysSpec, KeysAreFresh
=============================================================================
