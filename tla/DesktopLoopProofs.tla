------------------------- MODULE DesktopLoopProofs --------------------------
(***************************************************************************)
(* The SDL host's loop, for every ring, speed, queue, set of inputs and    *)
(* whatever the player, the device and the files do.                       *)
(***************************************************************************)
EXTENDS DesktopLoop, SequenceTheorems, TLAPS

\* The ring's own theorems, for snapshots that are consoles.
Ring == INSTANCE RewindHistoryProofs WITH Snapshot <- Consoles

-----------------------------------------------------------------------------
(* Consoles and their pasts.                                               *)

LEMMA ConsoleSeqs ==
  /\ Consoles \subseteq Seq(Inputs)
  /\ \A s \in Seq(Inputs) : Len(s) <= MaxFrames => s \in Consoles
  /\ <<>> \in Consoles
<1>1. Consoles = UNION {[1 .. m -> Inputs] : m \in 0 .. MaxFrames}
  BY DEF Consoles, BoundedSeq, SeqOf
<1>2. Consoles \subseteq Seq(Inputs)
  BY <1>1, SeqDef, LoopAssumption
<1>3. ASSUME NEW s \in Seq(Inputs), Len(s) <= MaxFrames
      PROVE  s \in Consoles
  <2>1. Len(s) \in 0 .. MaxFrames /\ s \in [1 .. Len(s) -> Inputs]
    BY <1>3, LenProperties, LoopAssumption
  <2> QED BY <1>1, <2>1
<1>4. <<>> \in Seq(Inputs) /\ Len(<<>>) <= MaxFrames
  BY EmptySeq, LoopAssumption
<1> QED BY <1>2, <1>3, <1>4

LEMMA Sizes ==
  /\ Capacity \in Nat \ {0} /\ Interval \in Nat \ {0} /\ Speed \in Nat \ {0}
  /\ Slots \in Nat \ {0} /\ Target \in Nat \ {0} /\ Pull \in Nat \ {0}
  /\ MaxFrames \in Nat
BY LoopAssumption

LEMMA Longer ==
  ASSUME NEW s \in Consoles, Len(s) < MaxFrames, NEW e \in Inputs
  PROVE  Append(s, e) \in Consoles
<1>1. s \in Seq(Inputs)
  BY ConsoleSeqs
<1>2. Append(s, e) \in Seq(Inputs) /\ Len(Append(s, e)) = Len(s) + 1 /\ Len(s) \in Nat
  BY <1>1, AppendProperties, LenProperties
<1>3. Len(Append(s, e)) <= MaxFrames
  BY <1>2, Sizes
<1> QED BY <1>2, <1>3, ConsoleSeqs

LEMMA PrefixIs ==
  ASSUME NEW s \in Seq(Inputs), NEW t \in Seq(Inputs)
  PROVE  IsPrefix(s, t) <=> Len(s) <= Len(t) /\ \A i \in 1 .. Len(s) : s[i] = t[i]
<1>1. /\ Len(s) \in Nat /\ Len(t) \in Nat
      /\ \A i \in 1 .. Len(s) : s[i] \in Inputs
      /\ \A i \in 1 .. Len(t) : t[i] \in Inputs
  BY LenProperties, ElementOfSeq
<1>2. SubSeq(s, 1, Len(s)) = s
  BY SubSeqFull
<1>3. CASE Len(s) <= Len(t)
  <2>1. \A i \in 1 .. Len(s) : t[i] \in Inputs
    BY <1>1, <1>3
  <2> DEFINE u == SubSeq(t, 1, Len(s))
  <2>2. u \in Seq(Inputs) /\ Len(u) = Len(s) /\ \A i \in 1 .. Len(s) : u[i] = t[i]
    BY <1>1, <2>1, SubSeqProperties
  <2>3. s = u <=> \A i \in 1 .. Len(s) : s[i] = u[i]
    BY <2>2, SeqEqual
  <2> QED BY <1>2, <1>3, <2>2, <2>3 DEF IsPrefix
<1>4. CASE ~(Len(s) <= Len(t))
  BY <1>4 DEF IsPrefix
<1> QED BY <1>3, <1>4

LEMMA PrefixOrder ==
  ASSUME NEW s \in Seq(Inputs), NEW t \in Seq(Inputs), NEW u \in Seq(Inputs)
  PROVE  /\ IsPrefix(s, s)
         /\ IsPrefix(s, t) /\ IsPrefix(t, u) => IsPrefix(s, u)
         /\ IsPrefix(s, t) /\ s # t => IsStrictPrefix(s, t)
         /\ IsStrictPrefix(s, t) => IsPrefix(s, t)
BY PrefixIs, LenProperties DEF IsStrictPrefix

LEMMA PrefixLonger ==
  ASSUME NEW s \in Seq(Inputs), NEW t \in Seq(Inputs), NEW e \in Inputs, IsPrefix(s, t)
  PROVE  IsStrictPrefix(s, Append(t, e)) /\ IsPrefix(s, Append(t, e))
<1>1. /\ Append(t, e) \in Seq(Inputs) /\ Len(Append(t, e)) = Len(t) + 1
      /\ \A i \in 1 .. Len(t) : Append(t, e)[i] = t[i]
      /\ Len(s) \in Nat /\ Len(t) \in Nat
  BY AppendProperties, LenProperties
<1>2. Len(s) <= Len(t) /\ \A i \in 1 .. Len(s) : s[i] = t[i]
  BY PrefixIs
<1> DEFINE u == Append(t, e)
<1>3. Len(s) <= Len(u) /\ Len(s) # Len(u) /\ \A i \in 1 .. Len(s) : s[i] = u[i]
  BY <1>1, <1>2
<1>4. u \in Seq(Inputs)
  BY <1>1
<1> HIDE DEF u
<1>5. IsPrefix(s, u) /\ s # u
  BY <1>3, <1>4, PrefixIs
<1> QED BY <1>5 DEF IsStrictPrefix, u

-----------------------------------------------------------------------------
(* The ring inside the loop is the ring RewindHistoryProofs is about.      *)

LEMMA SameRing ==
  /\ History!RingTypeOK <=> Ring!RingTypeOK
  /\ History!RingTypeOK' <=> Ring!RingTypeOK'
  /\ History!Kept = Ring!Kept /\ History!Kept' = Ring!Kept'
  /\ History!Pop <=> Ring!Pop
  /\ \A s : History!Push(s) <=> Ring!Push(s)
BY DEF History!RingTypeOK, Ring!RingTypeOK, History!Cells, Ring!Cells, History!Kept,
       Ring!Kept, History!Cell, Ring!Cell, History!Pop, Ring!Pop, History!Push, Ring!Push

LEMMA RingStill ==
  ASSUME UNCHANGED ringVars
  PROVE  /\ History!RingTypeOK' <=> History!RingTypeOK
         /\ History!Kept' = History!Kept
BY DEF ringVars, History!RingTypeOK, History!Cells, History!Kept, History!Cell

\* What an iteration's control leaves to the frames it runs.
LEMMA Controlled ==
  ASSUME TypeOK, NEW pad \in Inputs, NEW keys \in HostKeys, NEW chord \in Chords,
         NEW platform \in Platform, NEW view \in Views,
         Control(pad, keys, chord, platform, view)
  PROVE  /\ pc = "pump" /\ pc' = "run" /\ pending' = {}
         /\ open' \in BOOLEAN /\ latch' \in BOOLEAN /\ wasOpen' = open' /\ ready' = open'
         /\ input' \in Inputs /\ held' \subseteq FileActions
         /\ mode' \in {"normal", "rewind", "ff"}
         /\ ~assist /\ platform = {} => mode' # "rewind" /\ held' = {}
         /\ runs' = IF open' \/ mode' = "rewind" \/ ~running THEN 0
                    ELSE IF mode' = "ff" THEN Speed ELSE 1
         /\ \E loaded \in BOOLEAN :
              /\ StateFiles(NewPress(held'), loaded)
              /\ IF loaded \/ open' # wasOpen \/ mode' # mode
                 THEN queued' = 0 /\ primed' = FALSE /\ burst' = 0
                 ELSE UNCHANGED <<queued, primed, burst>>
         /\ UNCHANGED <<available, assist, slot, audible, heard, running, recorder, pads>>
<1> DEFINE openNow == IF view = "in" /\ ChordToggles(chord) THEN ~open ELSE open
           muted   == view # "in" \/ ChordBlocks(chord) \/ openNow
           gated   == Gated(IF muted THEN {} ELSE keys, pending, platform)
<1>1. open \in BOOLEAN /\ latch \in BOOLEAN /\ assist \in BOOLEAN
  BY DEF TypeOK
<1>2. open' = openNow /\ wasOpen' = openNow /\ ready' = openNow /\ openNow \in BOOLEAN
  BY <1>1 DEF Control
<1>3. latch' = CASE view = "in" -> ChordLatch(chord) [] view = "alt" -> latch [] OTHER -> FALSE
  BY DEF Control
<1>4. latch' \in BOOLEAN
  BY <1>1, <1>3, Zenon DEF ChordLatch
<1>5. input' \in Inputs
  BY LoopAssumption DEF Control
<1>6. held' = gated \cap FileActions
  BY DEF Control
<1>7. mode' = IF "rewind" \in gated THEN "rewind" ELSE IF "ff" \in gated THEN "ff" ELSE "normal"
  BY DEF Control
<1>8. ~assist /\ platform = {} => gated = {}
  BY DEF Gated
<1>9. pc = "pump" /\ pc' = "run" /\ pending' = {}
  BY DEF Control
<1>10. runs' = IF openNow \/ mode' = "rewind" \/ ~running THEN 0
               ELSE IF mode' = "ff" THEN Speed ELSE 1
  BY DEF Control
<1>11. \E loaded \in BOOLEAN :
         /\ StateFiles(NewPress(held'), loaded)
         /\ IF ResetsAudio(loaded, openNow # wasOpen \/ mode' # mode)
            THEN queued' = 0 /\ primed' = FALSE /\ burst' = 0
            ELSE UNCHANGED <<queued, primed, burst>>
  BY DEF Control
<1>12. UNCHANGED <<available, assist, slot, audible, heard, running, recorder, pads>>
  BY DEF Control
<1> HIDE DEF openNow, gated
<1> QED BY <1>2, <1>4, <1>5, <1>6, <1>7, <1>8, <1>9, <1>10, <1>11, <1>12 DEF ResetsAudio

\* A load that fails to take the first snapshot leaves the ring empty.
LEMMA Restarted ==
  ASSUME History!RingTypeOK, NEW state \in Consoles, RestartRewind(state)
  PROVE  /\ History!RingTypeOK' /\ counter' = 0
         /\ History!Kept' = IF count' = 0 THEN <<>> ELSE <<state>>
         /\ count' \in {0, 1}
<1> USE Sizes
<1>1. /\ storage \in [History!Cells -> Consoles] /\ restored \in Consoles
      /\ 0 \in History!Cells /\ 1 % Capacity \in History!Cells
  BY DEF History!RingTypeOK, History!Cells
<1>2. /\ counter' = 0 /\ restored' = restored
      /\ \/ /\ storage' = [storage EXCEPT ![0] = state]
            /\ count' = 1 /\ write_index' = 1 % Capacity
         \/ count' = 0 /\ write_index' = 0 /\ storage' = storage
  BY DEF RestartRewind
<1>3. /\ storage' \in [History!Cells -> Consoles] /\ restored' \in Consoles
      /\ count' \in 0 .. Capacity /\ write_index' \in History!Cells
  BY <1>1, <1>2
<1>4. History!RingTypeOK'
  BY <1>3 DEF History!RingTypeOK, History!Cells
<1>5. CASE count' = 0
  <2>1. History!Kept' = [k \in {} |-> storage'[History!Cell(k)']]
    BY <1>5 DEF History!Kept
  <2>2. <<>> = [k \in {} |-> storage'[History!Cell(k)']]
    OBVIOUS
  <2> QED BY <1>2, <1>4, <1>5, <2>1, <2>2
<1>6. CASE count' # 0
  <2>1. count' = 1 /\ write_index' = 1 % Capacity /\ storage'[0] = state
    BY <1>1, <1>2, <1>6
  <2>2. (write_index + Capacity - count + 1 - 1)' % Capacity = 0
    <3>1. CASE Capacity = 1
      <4>1. 1 % Capacity = 0
        BY <3>1
      <4>2. (0 + 1 - 1 + 1 - 1) % 1 = 0
        OBVIOUS
      <4> QED BY <2>1, <3>1, <4>1, <4>2
    <3>2. CASE Capacity # 1
      <4>1. 1 % Capacity = 1
        BY <3>2
      <4>2. (1 + Capacity - 1 + 1 - 1) = Capacity /\ Capacity % Capacity = 0
        OBVIOUS
      <4> QED BY <2>1, <4>1, <4>2
    <3> QED BY <3>1, <3>2
  <2>3. History!Cell(1)' = 0
    BY <2>2 DEF History!Cell
  <2>4. History!Kept' = [k \in 1 .. 1 |-> storage'[History!Cell(k)']]
    BY <2>1 DEF History!Kept
  <2>5. [k \in 1 .. 1 |-> storage'[History!Cell(k)']] = <<state>>
    BY <2>1, <2>3
  <2> QED BY <1>2, <1>4, <2>1, <2>4, <2>5
<1> QED BY <1>5, <1>6

LEMMA FilesType ==
  ASSUME TypeOK, NEW wanted, NEW loaded \in BOOLEAN, StateFiles(wanted, loaded), slot' = slot
  PROVE  /\ slots' \in [0 .. Slots - 1 -> Consoles \cup {Missing}]
         /\ console' \in Consoles /\ travelled' \in BOOLEAN
         /\ History!RingTypeOK' /\ counter' \in 0 .. Interval - 1
<1> USE Sizes
<1>1. /\ slots \in [0 .. Slots - 1 -> Consoles \cup {Missing}] /\ slot \in 0 .. Slots - 1
      /\ console \in Consoles /\ counter \in 0 .. Interval - 1 /\ travelled \in BOOLEAN
      /\ History!RingTypeOK
  BY DEF TypeOK
<1>2. slots' \in [0 .. Slots - 1 -> Consoles \cup {Missing}]
  BY <1>1 DEF StateFiles
<1>3. travelled' \in BOOLEAN
  BY <1>1 DEF StateFiles
<1>4. CASE loaded
  <2>1. console' \in Files /\ RestartRewind(console')
    BY <1>4 DEF StateFiles
  <2>2. Files \subseteq Consoles
    BY <1>1, <1>2, LoopAssumption DEF Files, Consoles
  <2>3. console' \in Consoles
    BY <2>1, <2>2
  <2>4. History!RingTypeOK' /\ counter' = 0
    BY <1>1, <2>1, <2>3, Restarted
  <2> QED BY <1>2, <1>3, <2>3, <2>4
<1>5. CASE ~loaded
  <2>1. UNCHANGED <<console, ringVars, counter>>
    BY <1>5 DEF StateFiles
  <2> QED BY <1>1, <1>2, <1>3, <2>1, RingStill
<1> QED BY <1>4, <1>5

LEMMA Pushed ==
  ASSUME History!RingTypeOK, NEW state \in Consoles, History!Push(state)
  PROVE  History!RingTypeOK' /\ Ring!Stack!Push(state)
<1>1. Ring!RingTypeOK /\ Ring!Push(state)
  BY SameRing
<1>2. Ring!RingTypeOK'
  BY <1>1, Sizes, Ring!TypeStep DEF Ring!RingNext
<1>3. Ring!Stack!Push(state)
  BY <1>1, Sizes, Ring!PushIsPush
<1> QED BY <1>2, <1>3, SameRing

LEMMA Popped ==
  ASSUME History!RingTypeOK, History!Pop
  PROVE  History!RingTypeOK' /\ Ring!Stack!Pop
<1>1. Ring!RingTypeOK /\ Ring!Pop
  BY SameRing
<1>2. Ring!RingTypeOK'
  BY <1>1, Sizes, Ring!TypeStep DEF Ring!RingNext
<1>3. Ring!Stack!Pop
  BY <1>1, Sizes, Ring!PopIsPop
<1> QED BY <1>2, <1>3, SameRing

-----------------------------------------------------------------------------
\* Every state of the loop has its types.
LEMMA InitType ==
  ASSUME Init
  PROVE  TypeOK
<1> USE Sizes
<1>1. <<>> \in Consoles /\ <<>> \in Seq(Inputs) /\ Fresh \subseteq Consoles
  BY ConsoleSeqs, LoopAssumption DEF Consoles
<1>2. 0 \in History!Cells
  BY DEF History!Cells
<1>3. /\ storage \in [History!Cells -> Consoles] /\ restored = <<>> /\ count \in {0, 1}
      /\ write_index = count % Capacity
  BY <1>1 DEF Init
<1>4. History!RingTypeOK
  BY <1>1, <1>3 DEF History!RingTypeOK, History!Cells
<1>5. {available, open, assist, latch, wasOpen, ready, primed, audible, running,
       recording, padEvent, travelled} \subseteq BOOLEAN
  BY LoopAssumption DEF Init
<1>6. slots \in [0 .. Slots - 1 -> Consoles \cup {Missing}]
  BY DEF Init
<1>7. /\ counter \in 0 .. Interval - 1 /\ slot \in 0 .. Slots - 1 /\ runs \in 0 .. Speed
      /\ queued \in Nat /\ burst \in Nat
  BY DEF Init
<1>8. /\ pc \in {"pump", "run", "pace", "stopped"}
      /\ console \in Consoles /\ heard \in Consoles /\ recorded \in Seq(Inputs)
      /\ pending \subseteq FileActions \cup {"quit"}
      /\ mode \in {"normal", "rewind", "ff"} /\ held \subseteq FileActions
      /\ input \in Inputs /\ opened \subseteq Pads /\ plugged \subseteq Pads
  BY <1>1, LoopAssumption DEF Init
<1> QED BY <1>4, <1>5, <1>6, <1>7, <1>8 DEF TypeOK

LEMMA FrameType ==
  ASSUME TypeOK, RunFrame
  PROVE  TypeOK'
<1> USE Sizes
<1>1. /\ console \in Consoles /\ Len(console) < MaxFrames /\ input \in Inputs
      /\ console' = Append(console, input) /\ recorded \in Seq(Inputs) /\ heard \in Consoles
  BY DEF TypeOK, RunFrame
<1>2. console' \in Consoles /\ heard' \in Consoles
  <2>1. console' \in Consoles
    BY <1>1, Longer
  <2> QED BY <1>1, <2>1 DEF RunFrame
<1>3. recorded' \in Seq(Inputs)
  BY <1>1, AppendProperties DEF RunFrame
<1>4. History!RingTypeOK'
  <2>1. (History!Push(console') \/ UNCHANGED ringVars) /\ History!RingTypeOK
    BY DEF RunFrame, TypeOK
  <2> QED BY <2>1, <1>2, Pushed, RingStill
<1>5. counter' \in 0 .. Interval - 1
  <2>1. counter \in 0 .. Interval - 1
    BY DEF TypeOK
  <2>2. counter' = 0 \/ counter' = (counter + 1) % Interval
    BY DEF RunFrame
  <2> QED BY <2>1, <2>2
<1>6. /\ {available', primed', audible', ready'} \subseteq BOOLEAN
      /\ queued' \in Nat /\ runs' \in 0 .. Speed
  <2>1. {available, primed, audible} \subseteq BOOLEAN /\ queued \in Nat /\ runs \in 0 .. Speed
    BY DEF TypeOK
  <2>2. available' \in BOOLEAN
    BY <2>1 DEF RunFrame
  <2>3. audible' \in BOOLEAN /\ queued' \in Nat
    <3>1. \/ queued' = queued + 1 /\ audible' = audible
          \/ audible' = FALSE /\ queued' = queued
          \/ audible' = audible /\ queued' = queued
      BY DEF RunFrame
    <3>2. queued' \in Nat
      BY <2>1, <3>1
    <3>3. audible' \in BOOLEAN
      BY <2>1, <3>1, Zenon
    <3> QED BY <3>2, <3>3
  <2>4. primed' = primed /\ ready' = TRUE /\ runs' = runs - 1 /\ runs > 0
    BY DEF RunFrame
  <2> QED BY <2>1, <2>2, <2>3, <2>4
<1>7. UNCHANGED <<pc, slots, menu, control, burst, running, recording, pads, travelled>>
  BY DEF RunFrame
<1> QED BY <1>2, <1>3, <1>4, <1>5, <1>6, <1>7 DEF TypeOK, menu, control, pads

LEMMA ControlType ==
  ASSUME TypeOK, Iteration(Inputs, Views)
  PROVE  TypeOK'
<1> USE Sizes
<1>1. PICK pad \in Inputs, keys \in HostKeys, chord \in Chords, platform \in Platform,
        view \in Views : Control(pad, keys, chord, platform, view)
  BY DEF Iteration
<1>2. PICK loaded \in BOOLEAN :
        /\ StateFiles(NewPress(held'), loaded)
        /\ IF loaded \/ open' # wasOpen \/ mode' # mode
           THEN queued' = 0 /\ primed' = FALSE /\ burst' = 0
           ELSE UNCHANGED <<queued, primed, burst>>
  BY <1>1, Controlled
<1>3. /\ pc' = "run" /\ pending' = {}
      /\ open' \in BOOLEAN /\ latch' \in BOOLEAN /\ wasOpen' = open' /\ ready' = open'
      /\ input' \in Inputs /\ held' \subseteq FileActions
      /\ mode' \in {"normal", "rewind", "ff"}
      /\ runs' = IF open' \/ mode' = "rewind" \/ ~running THEN 0
                 ELSE IF mode' = "ff" THEN Speed ELSE 1
      /\ UNCHANGED <<available, assist, slot, audible, heard, running, recorder, pads>>
  BY <1>1, Controlled
<1>4. /\ slots' \in [0 .. Slots - 1 -> Consoles \cup {Missing}]
      /\ console' \in Consoles /\ travelled' \in BOOLEAN
      /\ History!RingTypeOK' /\ counter' \in 0 .. Interval - 1
  BY <1>2, <1>3, FilesType
<1>5. queued' \in Nat /\ primed' \in BOOLEAN /\ burst' \in Nat
  BY <1>2 DEF TypeOK
<1>6. runs' \in 0 .. Speed
  BY <1>3
<1> QED BY <1>3, <1>4, <1>5, <1>6 DEF TypeOK, recorder, pads

LEMMA TypeStep ==
  ASSUME TypeOK, [Next]_vars
  PROVE  TypeOK'
<1> USE Sizes
<1>1. CASE UNCHANGED vars
  <2>1. History!RingTypeOK'
    BY <1>1, RingStill DEF vars, rewind, TypeOK
  <2> QED BY <1>1, <2>1
      DEF TypeOK, vars, rewind, menu, control, audio, recorder, pads, iter
<1>2. CASE Iteration(Inputs, Views)
  BY <1>2, ControlType
<1>3. CASE RunFrame
  BY <1>3, FrameType
<1>4. CASE Rewind
  <2>1. History!RingTypeOK' /\ restored' \in Consoles
    <3>1. History!RingTypeOK'
      BY <1>4, Popped DEF Rewind, TypeOK
    <3> QED BY <3>1 DEF History!RingTypeOK
  <2>2. console' \in Consoles /\ {ready', running', travelled'} \subseteq BOOLEAN
    BY <1>4, <2>1 DEF Rewind, TypeOK, Failed, iter
  <2>3. pc' \in {"run", "stopped"}
    BY <1>4 DEF Rewind, Failed
  <2>4. UNCHANGED <<available, counter, recorder, slots, menu, control, runs, audio, pads>>
    BY <1>4 DEF Rewind, Failed, iter
  <2> QED BY <2>1, <2>2, <2>3, <2>4 DEF TypeOK, menu, control, audio, recorder, pads
<1>5. CASE FrameFails
  <2>1. recorded' \in Seq(Inputs) /\ running' \in BOOLEAN
    BY <1>5, AppendProperties DEF FrameFails, TypeOK
  <2>2. /\ UNCHANGED <<console, rewind, recording, slots, menu, control, iter, audio, pads,
                       travelled>>
        /\ pc' = "stopped"
    BY <1>5 DEF FrameFails, Failed
  <2>3. History!RingTypeOK'
    BY <2>2, RingStill DEF rewind, TypeOK
  <2> QED BY <2>1, <2>2, <2>3 DEF TypeOK, rewind, menu, control, iter, audio, pads
<1>6. CASE Present
  <2>1. pc' \in {"pace", "pump", "stopped"} /\ primed' \in BOOLEAN /\ burst' \in Nat
    BY <1>6 DEF Present, LoopEnd, TypeOK
  <2>2. UNCHANGED <<console, rewind, slots, menu, control, iter, queued, audible, heard,
                    running, recorder, pads, travelled>>
    BY <1>6 DEF Present
  <2>3. History!RingTypeOK'
    BY <2>2, RingStill DEF rewind, TypeOK
  <2> QED BY <2>1, <2>2, <2>3 DEF TypeOK, rewind, menu, control, iter, recorder, pads
<1>7. CASE QuitRequest \/ PaceEnds \/ Around
  <2>1. UNCHANGED <<console, rewind, slots, control, iter, primed, audible, heard, recorder,
                    travelled>>
    BY <1>7 DEF QuitRequest, PaceEnds, Around, DevicePull, ToggleEvent, QuitEvent, PadEvent,
                Plug, Request, AssistPage, menu, audio, pads
  <2>2. History!RingTypeOK'
    BY <2>1, RingStill DEF rewind, TypeOK
  <2>3. pc' \in {"pump", "run", "pace", "stopped"} /\ running' \in BOOLEAN
    BY <1>7 DEF QuitRequest, PaceEnds, Around, DevicePull, ToggleEvent, QuitEvent, PadEvent,
                Plug, Request, AssistPage, LoopEnd, TypeOK
  <2>4. queued' \in Nat /\ burst' \in Nat
    BY <1>7 DEF QuitRequest, PaceEnds, Around, DevicePull, ToggleEvent, QuitEvent, PadEvent,
                Plug, Request, AssistPage, audio, TypeOK
  <2>5. /\ open' \in BOOLEAN /\ assist' \in BOOLEAN /\ slot' \in 0 .. Slots - 1
        /\ pending' \subseteq FileActions \cup {"quit"}
    BY <1>7 DEF QuitRequest, PaceEnds, Around, DevicePull, ToggleEvent, QuitEvent, PadEvent,
                Plug, Request, AssistPage, menu, TypeOK
  <2>6. padEvent' \in BOOLEAN /\ opened' \subseteq Pads /\ plugged' \subseteq Pads
    BY <1>7 DEF QuitRequest, PaceEnds, Around, DevicePull, ToggleEvent, QuitEvent, PadEvent,
                Plug, Request, AssistPage, pads, TypeOK
  <2> QED BY <2>1, <2>2, <2>3, <2>4, <2>5, <2>6 DEF TypeOK, rewind, control, iter, recorder
<1> QED BY <1>1, <1>2, <1>3, <1>4, <1>5, <1>6, <1>7 DEF Next, Rest

\* Types, counters and indices stay in their ranges whatever the player,
\* the device and the files do.
THEOREM LoopTypes == Spec => []TypeOK
<1>1. Init => TypeOK
  BY InitType
<1>2. TypeOK /\ [Next]_vars => TypeOK'
  BY TypeStep
<1> QED BY <1>1, <1>2, PTL DEF Spec

-----------------------------------------------------------------------------
\* A step of the control, of a frame, of the presentation, one that stops
\* the loop, or one the invariants below hardly see.
Quiet ==
  /\ UNCHANGED <<console, ringVars, mode, heard, audible, travelled, recorder, runs, primed>>
  /\ \/ pc' = pc /\ queued' = queued /\ burst' = burst /\ running' = running
     \/ pc' = pc /\ queued' \in 0 .. queued /\ burst' = 0 /\ running' = running /\ open' = open
     \/ pc' = pc /\ pc # "run" /\ queued' = queued /\ burst' = burst
     \/ pc = "pace" /\ pc' = "pump" /\ queued' = queued /\ burst' = burst
     \/ pc' = "stopped" /\ queued' = queued
  /\ pc' = "run" => open' = open /\ assist' = assist

LEMMA StepKinds ==
  ASSUME TypeOK, [Next]_vars
  PROVE  \/ Iteration(Inputs, Views) \/ RunFrame \/ Rewind \/ FrameFails \/ Present
         \/ Quiet
<1> USE Sizes
<1> USE DEF Quiet, vars, rewind, menu, control, audio, recorder, pads, iter
<1>1. CASE UNCHANGED vars
  BY <1>1
<1>2. CASE QuitRequest
  BY <1>2 DEF QuitRequest
<1>3. CASE PaceEnds
  BY <1>3 DEF PaceEnds, LoopEnd
<1>4. CASE DevicePull
  <2>1. queued' \in 0 .. queued
    BY <1>4 DEF DevicePull, TypeOK
  <2> QED BY <1>4, <2>1 DEF DevicePull
<1>5. CASE ToggleEvent
  BY <1>5 DEF ToggleEvent, Pumping
<1>6. CASE QuitEvent
  BY <1>6 DEF QuitEvent, Pumping
<1>7. CASE PadEvent
  BY <1>7 DEF PadEvent
<1>8. CASE \E now \in SUBSET Pads : Plug(now)
  BY <1>8 DEF Plug
<1>9. CASE \E action \in FileActions \cup {"resume", "quit"} : Request(action)
  BY <1>9 DEF Request, Drawn
<1>10. CASE AssistPage
  BY <1>10 DEF AssistPage, Drawn
<1> QED BY <1>1, <1>2, <1>3, <1>4, <1>5, <1>6, <1>7, <1>8, <1>9, <1>10 DEF Next, Rest, Around

-----------------------------------------------------------------------------
\* At other speeds than the normal one the queue stays empty: they reset it
\* on the way in and their frames are not heard.
SoundInv == SoundMatchesPicture /\ (mode # "normal" => queued = 0)

LEMMA SoundStep ==
  ASSUME TypeOK, SoundInv, [Next]_vars
  PROVE  SoundInv'
<1> USE DEF SoundInv, SoundMatchesPicture
<1>1. CASE Iteration(Inputs, Views)
  <2>1. PICK pad \in Inputs, keys \in HostKeys, chord \in Chords, platform \in Platform,
          view \in Views : Control(pad, keys, chord, platform, view)
    BY <1>1 DEF Iteration
  <2>2. PICK loaded \in BOOLEAN :
          /\ StateFiles(NewPress(held'), loaded)
          /\ IF loaded \/ open' # wasOpen \/ mode' # mode
             THEN queued' = 0 /\ primed' = FALSE /\ burst' = 0
             ELSE UNCHANGED <<queued, primed, burst>>
    BY <2>1, Controlled
  <2>3. pc = "pump" /\ UNCHANGED <<audible, heard>>
    BY <2>1, Controlled
  <2>4. CASE queued' = 0
    BY <2>4
  <2>5. CASE queued' # 0
    <3>1. ~loaded /\ mode' = mode /\ queued' = queued
      BY <2>2, <2>5
    <3>2. console' = console
      BY <2>2, <3>1 DEF StateFiles
    <3> QED BY <2>3, <3>1, <3>2
  <2> QED BY <2>4, <2>5
<1>2. CASE RunFrame
  <2>1. pc = "run" /\ mode' = mode
    BY <1>2 DEF RunFrame, control
  <2>2. \/ mode = "normal" /\ (heard' = console' \/ audible' = FALSE)
        \/ (mode # "normal" \/ ~audible) /\ UNCHANGED <<queued, heard, audible>>
    BY <1>2 DEF RunFrame
  <2> QED BY <2>1, <2>2
<1>3. CASE Rewind
  <2>1. mode = "rewind" /\ UNCHANGED <<mode, queued>>
    BY <1>3 DEF Rewind, Failed, control, audio
  <2> QED BY <2>1
<1>4. CASE FrameFails
  BY <1>4 DEF FrameFails, Failed, control, audio
<1>5. CASE Present
  BY <1>5 DEF Present, control
<1>6. CASE Quiet
  BY <1>6 DEF Quiet, TypeOK
<1> QED BY <1>1, <1>2, <1>3, <1>4, <1>5, <1>6, StepKinds

\* SoundMatchesPicture: the newest sound in the queue belongs to the picture.
THEOREM SoundIsOfThePicture == Spec => []SoundMatchesPicture
<1>1. Init => SoundInv
  BY DEF Init, SoundInv, SoundMatchesPicture
<1>2. TypeOK /\ SoundInv /\ [Next]_vars => SoundInv'
  BY SoundStep
<1>3. SoundInv => SoundMatchesPicture
  BY DEF SoundInv
<1> QED BY <1>1, <1>2, <1>3, LoopTypes, PTL DEF Spec

-----------------------------------------------------------------------------
LEMMA RecordingStep ==
  ASSUME TypeOK, RecordingReplays, [Next]_vars
  PROVE  RecordingReplays'
<1> USE DEF RecordingReplays
<1>1. CASE Iteration(Inputs, Views)
  <2>1. PICK pad \in Inputs, keys \in HostKeys, chord \in Chords, platform \in Platform,
          view \in Views : Control(pad, keys, chord, platform, view)
    BY <1>1 DEF Iteration
  <2>2. PICK loaded \in BOOLEAN : StateFiles(NewPress(held'), loaded)
    BY <2>1, Controlled
  <2>3. pc = "pump" /\ UNCHANGED recorder
    BY <2>1, Controlled
  <2>4. travelled' = (travelled \/ loaded) /\ (loaded \/ console' = console)
    BY <2>2 DEF StateFiles
  <2> QED BY <2>3, <2>4 DEF recorder
<1>2. CASE RunFrame
  BY <1>2 DEF RunFrame, Records
<1>3. CASE Rewind
  BY <1>3 DEF Rewind, Failed
<1>4. CASE FrameFails
  BY <1>4 DEF FrameFails, Failed
<1>5. CASE Present
  <2>1. pc = "run" /\ UNCHANGED <<recording, recorded, console, travelled>>
    BY <1>5 DEF Present, recorder
  <2> QED BY <2>1
<1>6. CASE Quiet
  <2>1. (pc' = "stopped" \/ pc # "stopped") \/ pc' = pc
    BY <1>6 DEF Quiet
  <2> QED BY <1>6, <2>1 DEF Quiet, recorder
<1> QED BY <1>1, <1>2, <1>3, <1>4, <1>5, <1>6, StepKinds

\* RecordingReplays: the recorder misses no frame and repeats none, at any
\* speed, so its lines played from the start give the console's state.
THEOREM RecordingIsTheConsole == Spec => []RecordingReplays
<1>1. Init => RecordingReplays
  BY DEF Init, RecordingReplays
<1>2. TypeOK /\ RecordingReplays /\ [Next]_vars => RecordingReplays'
  BY RecordingStep
<1> QED BY <1>1, <1>2, LoopTypes, PTL DEF Spec

-----------------------------------------------------------------------------
\* While the queue is filled, an unpaced iteration has added a frame to it or
\* the device has pulled since; once it was full, an unpaced iteration finds
\* it empty, so the device has pulled since the frame before.
BurstInv ==
  pc # "stopped" =>
    /\ burst <= Target
    /\ pc # "run" /\ ~primed => burst <= queued + 1
    /\ pc = "run" /\ running /\ ~open /\ mode = "normal" /\ audible =>
         IF primed THEN burst = 0 \/ queued + runs >= 1 ELSE burst <= queued + runs

LEMMA BurstStep ==
  ASSUME TypeOK, BurstInv, [Next]_vars
  PROVE  BurstInv'
<1> USE Sizes DEF BurstInv
<1>0. /\ burst \in Nat /\ queued \in Nat /\ runs \in Nat
      /\ {open, primed, audible, running} \subseteq BOOLEAN
  BY DEF TypeOK
<1>1. CASE Iteration(Inputs, Views)
  <2>1. PICK pad \in Inputs, keys \in HostKeys, chord \in Chords, platform \in Platform,
          view \in Views : Control(pad, keys, chord, platform, view)
    BY <1>1 DEF Iteration
  <2>2. \/ queued' = 0 /\ ~primed' /\ burst' = 0
        \/ UNCHANGED <<queued, primed, burst>>
    <3>1. PICK loaded \in BOOLEAN :
            IF loaded \/ open' # wasOpen \/ mode' # mode
            THEN queued' = 0 /\ primed' = FALSE /\ burst' = 0
            ELSE UNCHANGED <<queued, primed, burst>>
      BY <2>1, Controlled
    <3> QED BY <3>1
  <2>3. /\ pc = "pump" /\ pc' = "run" /\ UNCHANGED <<audible, running>>
        /\ runs' = IF open' \/ mode' = "rewind" \/ ~running THEN 0
                   ELSE IF mode' = "ff" THEN Speed ELSE 1
    BY <2>1, Controlled
  <2>4. burst' <= Target
    BY <1>0, <2>2, <2>3
  <2>5. ASSUME running', ~open', mode' = "normal"
        PROVE  IF primed' THEN burst' = 0 \/ queued' + runs' >= 1
               ELSE burst' <= queued' + runs'
    <3>1. runs' = 1
      BY <2>3, <2>5
    <3>2. CASE queued' = 0 /\ ~primed' /\ burst' = 0
      BY <3>1, <3>2
    <3>3. CASE UNCHANGED <<queued, primed, burst>>
      <4>1. ~primed => burst <= queued + 1
        BY <2>3
      <4> QED BY <1>0, <3>1, <3>3, <4>1
    <3> QED BY <2>2, <3>2, <3>3
  <2> QED BY <2>3, <2>4, <2>5
<1>2. CASE RunFrame
  <2>1. /\ pc = "run" /\ pc' = "run" /\ runs' = runs - 1 /\ runs > 0
        /\ UNCHANGED <<primed, burst, running, open, mode>>
    BY <1>2 DEF RunFrame, menu, control
  <2>2. \/ mode = "normal" /\ audible /\ queued' = queued + 1 /\ UNCHANGED audible
        \/ audible' = FALSE
        \/ (mode # "normal" \/ ~audible) /\ UNCHANGED <<queued, audible>>
    BY <1>2 DEF RunFrame
  <2> QED BY <1>0, <2>1, <2>2
<1>3. CASE Rewind
  <2>1. /\ pc = "run" /\ pc' \in {"run", "stopped"}
        /\ mode = "rewind" /\ UNCHANGED <<mode, burst>>
    BY <1>3 DEF Rewind, Failed, control, audio
  <2> QED BY <2>1
<1>4. CASE FrameFails
  BY <1>4 DEF FrameFails, Failed
<1>5. CASE Present
  <2>1. /\ pc = "run" /\ runs = 0 /\ UNCHANGED <<open, mode, queued, audible, running>>
        /\ primed' = (primed \/ (audible /\ queued >= Target))
    BY <1>5 DEF Present, menu, control, iter
  <2>2. CASE Paced(IF audible THEN queued ELSE 0)
    <3>1. pc' = "pace" /\ burst' = 0
      BY <1>5, <2>2 DEF Present
    <3> QED BY <1>0, <2>1, <3>1
  <2>3. CASE ~Paced(IF audible THEN queued ELSE 0)
    <3>1. /\ pc' = LoopEnd /\ burst' = burst + 1
          /\ ~open /\ mode = "normal" /\ audible
          /\ queued < (IF primed' THEN 1 ELSE Target)
      <4>1. pc' = LoopEnd /\ burst' = burst + 1
        BY <1>5, <2>3 DEF Present
      <4>2. ~open /\ mode = "normal" /\ audible
        BY <2>3 DEF Paced
      <4>3. ~(queued >= (IF primed' THEN 1 ELSE Target))
        BY <2>3, <4>2 DEF Paced
      <4>4. (IF primed' THEN 1 ELSE Target) \in Nat
        OBVIOUS
      <4> HIDE DEF BurstInv
      <4> QED BY <1>0, <4>1, <4>2, <4>3, <4>4
    <3>2. CASE running
      <4>1. pc' = "pump"
        BY <3>1, <3>2 DEF LoopEnd
      <4>2. IF primed THEN burst = 0 \/ queued >= 1 ELSE burst <= queued
        BY <1>0, <2>1, <3>1, <3>2
      <4>3. CASE primed
        <5>1. primed' /\ queued = 0
          <6>1. primed'
            BY <2>1, <4>3, Zenon
          <6>2. queued < 1
            BY <3>1, <6>1
          <6> QED BY <1>0, <6>1, <6>2
        <5> QED BY <2>1, <3>1, <4>1, <4>2, <4>3, <5>1
      <4>4. CASE ~primed
        <5>1. queued < Target
          BY <1>0, <2>1, <3>1, <4>4
        <5> QED BY <1>0, <2>1, <3>1, <4>1, <4>2, <4>4, <5>1
      <4> QED BY <4>3, <4>4
    <3>3. CASE ~running
      BY <3>1, <3>3 DEF LoopEnd
    <3> QED BY <3>2, <3>3
  <2> QED BY <2>2, <2>3
<1>6. CASE Quiet
  <2>0. UNCHANGED <<mode, audible, runs, primed>>
    BY <1>6 DEF Quiet
  <2>1. CASE pc' = pc /\ queued' = queued /\ burst' = burst /\ running' = running
    <3>1. pc' = "run" => open' = open
      BY <1>6 DEF Quiet
    <3> QED BY <2>0, <2>1, <3>1
  <2>2. CASE /\ pc' = pc /\ queued' \in 0 .. queued /\ burst' = 0
    <3> HIDE DEF BurstInv
    <3>1. queued' \in Nat
      BY <1>0, <2>2
    <3>2. runs' \in Nat
      BY <1>0, <2>0
    <3> DEFINE q == queued'
               r == runs'
    <3>3. q \in Nat /\ r \in Nat
      BY <3>1, <3>2
    <3> HIDE DEF q, r
    <3>4. 0 <= Target /\ 0 <= q + 1 /\ 0 <= q + r
      BY <3>3
    <3>5. /\ burst' = 0 /\ burst' <= Target /\ burst' <= queued' + 1
          /\ burst' <= queued' + runs'
      BY <2>2, <3>4 DEF q, r
    <3> QED BY <3>5 DEF BurstInv
  <2>3. CASE pc' = pc /\ pc # "run" /\ queued' = queued /\ burst' = burst
    BY <2>0, <2>3
  <2>4. CASE pc = "pace" /\ pc' = "pump" /\ queued' = queued /\ burst' = burst
    BY <2>0, <2>4
  <2>5. CASE pc' = "stopped"
    BY <2>5
  <2> QED BY <1>6, <2>1, <2>2, <2>3, <2>4, <2>5 DEF Quiet
<1> QED BY <1>1, <1>2, <1>3, <1>4, <1>5, <1>6, StepKinds

\* UnpacedBurst: the loop never runs away from the clock by more than the
\* frames that rate control aims for.
THEOREM BurstIsBounded == Spec => []UnpacedBurst
<1>1. Init => BurstInv
  BY Sizes DEF Init, BurstInv
<1>2. TypeOK /\ BurstInv /\ [Next]_vars => BurstInv'
  BY BurstStep
<1>3. BurstInv => UnpacedBurst
  BY DEF BurstInv, UnpacedBurst
<1> QED BY <1>1, <1>2, <1>3, LoopTypes, PTL DEF Spec

-----------------------------------------------------------------------------
\* Without the assist tools and a native menu no iteration rewinds.
AssistInv == pc = "run" /\ ~assist /\ Platform = {{}} => mode # "rewind"

LEMMA AssistStep ==
  ASSUME TypeOK, AssistInv, [Next]_vars
  PROVE  AssistInv'
<1> USE DEF AssistInv
<1>1. CASE Iteration(Inputs, Views)
  <2>1. PICK pad \in Inputs, keys \in HostKeys, chord \in Chords, platform \in Platform,
          view \in Views : Control(pad, keys, chord, platform, view)
    BY <1>1 DEF Iteration
  <2>2. assist' = assist /\ (~assist /\ platform = {} => mode' # "rewind")
    BY <2>1, Controlled
  <2> QED BY <2>1, <2>2
<1>2. CASE RunFrame
  BY <1>2 DEF RunFrame, menu, control
<1>3. CASE Rewind
  BY <1>3 DEF Rewind, Failed, menu, control
<1>4. CASE FrameFails
  BY <1>4 DEF FrameFails, Failed
<1>5. CASE Present
  BY <1>5 DEF Present, LoopEnd
<1>6. CASE Quiet
  BY <1>6 DEF Quiet
<1> QED BY <1>1, <1>2, <1>3, <1>4, <1>5, <1>6, StepKinds

LEMMA AssistSteps ==
  ASSUME TypeOK, AssistInv, [Next]_vars, ~assist, Platform = {{}}
  PROVE  slots' = slots /\ (console' = console \/ console' = Append(console, input))
<1>1. CASE Iteration(Inputs, Views)
  <2>1. PICK pad \in Inputs, keys \in HostKeys, chord \in Chords, platform \in Platform,
          view \in Views : Control(pad, keys, chord, platform, view)
    BY <1>1 DEF Iteration
  <2>2. PICK loaded \in BOOLEAN : StateFiles(NewPress(held'), loaded)
    BY <2>1, Controlled
  <2>3. NewPress(held') = {}
    <3>1. held' = {}
      BY <2>1, Controlled
    <3> QED BY <3>1 DEF NewPress
  <2> QED BY <2>2, <2>3 DEF StateFiles
<1>2. CASE RunFrame
  BY <1>2 DEF RunFrame
<1>3. CASE Rewind
  BY <1>3 DEF Rewind, AssistInv
<1>4. CASE UNCHANGED <<console, slots>>
  BY <1>4
<1>5. \/ Iteration(Inputs, Views) \/ RunFrame \/ Rewind \/ UNCHANGED <<console, slots>>
  BY DEF Next, Rest, Around, QuitRequest, FrameFails, Failed, Present, PaceEnds, DevicePull,
         ToggleEvent, QuitEvent, PadEvent, Plug, Request, AssistPage, vars
<1> QED BY <1>1, <1>2, <1>3, <1>4, <1>5

\* AssistHolds: a game played without the assist tools only goes forward.
THEOREM PlayIsHonest == Spec => AssistHolds
<1>1. Init => AssistInv
  BY DEF Init, AssistInv
<1>2. TypeOK /\ AssistInv /\ [Next]_vars => AssistInv'
  BY AssistStep
<1>3. TypeOK /\ AssistInv /\ [Next]_vars
      => [~assist /\ Platform = {{}} =>
            slots' = slots /\ (console' = console \/ console' = Append(console, input))]_vars
  BY AssistSteps
<1> QED BY <1>1, <1>2, <1>3, LoopTypes, PTL DEF Spec, AssistHolds

-----------------------------------------------------------------------------
\* The n snapshots of K lie on the way to c, each a part of the way to every
\* later one.  That they do so pairwise is what is left when one is taken off.
Along(K, n, c) ==
  \A k \in 1 .. n :
    /\ IsPrefix(K[k], c)
    /\ \A j \in 1 .. k - 1 : IsStrictPrefix(K[j], K[k])

LEMMA AlongOn ==
  ASSUME NEW K \in Seq(Consoles), NEW c \in Consoles, NEW e \in Inputs, Along(K, Len(K), c)
  PROVE  Along(K, Len(K), Append(c, e))
<1>1. ASSUME NEW k \in 1 .. Len(K)
      PROVE  IsPrefix(K[k], Append(c, e))
  <2>1. K[k] \in Seq(Inputs) /\ c \in Seq(Inputs) /\ IsPrefix(K[k], c)
    BY ConsoleSeqs, ElementOfSeq DEF Along
  <2> QED BY <2>1, PrefixLonger
<1> QED BY <1>1 DEF Along

LEMMA AlongPush ==
  ASSUME NEW K \in Seq(Consoles), NEW c \in Consoles, NEW e \in Inputs, Along(K, Len(K), c),
         Append(c, e) \in Consoles,
         NEW L, NEW S \in Seq(Consoles), L = Append(S, Append(c, e)),
         S = K \/ (K # <<>> /\ S = Tail(K))
  PROVE  Along(L, Len(L), Append(c, e))
<1> DEFINE d == Append(c, e)
<1>1. /\ Len(S) \in Nat /\ Len(L) = Len(S) + 1
      /\ \A k \in 1 .. Len(S) : L[k] = S[k]
      /\ L[Len(S) + 1] = d
  BY AppendProperties, LenProperties
<1>2. Along(S, Len(S), d) /\ \A k \in 1 .. Len(S) : IsStrictPrefix(S[k], d)
  <2>1. Along(K, Len(K), d)
    BY AlongOn
  <2>2. \A k \in 1 .. Len(K) : IsStrictPrefix(K[k], d)
    <3>1. ASSUME NEW k \in 1 .. Len(K)
          PROVE  IsStrictPrefix(K[k], d)
      <4>1. K[k] \in Seq(Inputs) /\ c \in Seq(Inputs) /\ IsPrefix(K[k], c)
        BY ConsoleSeqs, ElementOfSeq DEF Along
      <4> QED BY <4>1, PrefixLonger
    <3> QED BY <3>1
  <2>3. CASE S = K
    BY <2>1, <2>2, <2>3
  <2>4. CASE K # <<>> /\ S = Tail(K)
    <3>1. /\ Len(K) \in Nat /\ Len(S) = Len(K) - 1
          /\ \A k \in 1 .. Len(S) : S[k] = K[k + 1]
      BY <2>4, HeadTailProperties, LenProperties
    <3> HIDE DEF d
    <3>2. \A k \in 1 .. Len(S) : k + 1 \in 1 .. Len(K)
      BY <3>1
    <3>3. ASSUME NEW k \in 1 .. Len(S)
          PROVE  IsPrefix(S[k], d) /\ \A j \in 1 .. k - 1 : IsStrictPrefix(S[j], S[k])
      <4>1. IsPrefix(K[k + 1], d) /\ \A j \in 1 .. (k + 1) - 1 : IsStrictPrefix(K[j], K[k + 1])
        BY <2>1, <3>2 DEF Along
      <4>2. \A j \in 1 .. k - 1 : j + 1 \in 1 .. (k + 1) - 1 /\ S[j] = K[j + 1]
        BY <3>1
      <4>3. \A j \in 1 .. k - 1 : IsStrictPrefix(K[j + 1], K[k + 1])
        BY <4>1, <4>2
      <4> QED BY <3>1, <4>1, <4>2, <4>3
    <3>4. \A k \in 1 .. Len(S) : IsStrictPrefix(S[k], d)
      BY <2>2, <3>1, <3>2
    <3> QED BY <3>3, <3>4 DEF Along
  <2> QED BY <2>3, <2>4
<1> HIDE DEF d
<1>3. ASSUME NEW k \in 1 .. Len(L)
      PROVE  IsPrefix(L[k], d) /\ \A j \in 1 .. k - 1 : IsStrictPrefix(L[j], L[k])
  <2>1. CASE k <= Len(S)
    <3>1. k \in 1 .. Len(S) /\ \A j \in 1 .. k - 1 : j \in 1 .. Len(S)
      BY <1>1, <2>1
    <3> QED BY <1>1, <1>2, <3>1 DEF Along
  <2>2. CASE ~(k <= Len(S))
    <3>1. k = Len(S) + 1 /\ L[k] = d
      BY <1>1, <2>2
    <3>2. IsPrefix(d, d)
      BY ConsoleSeqs, PrefixOrder DEF d
    <3>3. \A j \in 1 .. k - 1 : j \in 1 .. Len(S) /\ L[j] = S[j]
      BY <1>1, <3>1
    <3> QED BY <1>2, <3>1, <3>2, <3>3
  <2> QED BY <2>1, <2>2
<1> QED BY <1>3 DEF Along, d

LEMMA AlongPop ==
  ASSUME NEW K \in Seq(Consoles), NEW c \in Consoles, Along(K, Len(K), c), K # <<>>,
         NEW L, L = SubSeq(K, 1, Len(K) - 1)
  PROVE  Along(L, Len(L), K[Len(K)])
<1>1. /\ Len(K) \in Nat \ {0} /\ Len(L) = Len(K) - 1
      /\ \A k \in 1 .. Len(L) : L[k] = K[k]
  <2>1. Len(K) \in Nat \ {0}
    BY EmptySeq, LenProperties
  <2>2. \A i \in 1 .. Len(K) - 1 : K[i] \in Consoles
    BY <2>1, ElementOfSeq
  <2> DEFINE m == 1
             n == Len(K) - 1
  <2>3. m \in Int /\ n \in Int /\ m <= n + 1 /\ n - m + 1 = n /\ n \in Nat
    BY <2>1
  <2>4. \A k \in 1 .. n : K[m + k - 1] = K[k]
    BY <2>3
  <2>5. Len(SubSeq(K, m, n)) = n /\ \A k \in 1 .. n : SubSeq(K, m, n)[k] = K[k]
    <3>1. \A i \in m .. n : K[i] \in Consoles
      BY <2>2
    <3> HIDE DEF m, n
    <3>2. Len(SubSeq(K, m, n)) = n - m + 1
      BY <2>3, <3>1, SubSeqProperties
    <3>3. \A i \in 1 .. n - m + 1 : SubSeq(K, m, n)[i] = K[m + i - 1]
      BY <2>3, <3>1, SubSeqProperties
    <3> QED BY <2>3, <2>4, <3>2, <3>3
  <2> QED BY <2>1, <2>5
<1>2. ASSUME NEW k \in 1 .. Len(L)
      PROVE  IsPrefix(L[k], K[Len(K)]) /\ \A j \in 1 .. k - 1 : IsStrictPrefix(L[j], L[k])
  <2>1. /\ k \in 1 .. Len(K) /\ Len(K) \in 1 .. Len(K) /\ k \in 1 .. Len(K) - 1
        /\ \A j \in 1 .. k - 1 : j \in 1 .. Len(L)
    BY <1>1
  <2>2. IsStrictPrefix(K[k], K[Len(K)])
    BY <2>1 DEF Along
  <2>3. \A j \in 1 .. k - 1 : IsStrictPrefix(K[j], K[k])
    BY <2>1 DEF Along
  <2> QED BY <1>1, <2>1, <2>2, <2>3 DEF IsStrictPrefix
<1> QED BY <1>2 DEF Along

-----------------------------------------------------------------------------
PastInv == pc # "stopped" => Along(History!Kept, count, console)

LEMMA KeptSeq ==
  ASSUME History!RingTypeOK
  PROVE  History!Kept \in Seq(Consoles) /\ Len(History!Kept) = count
<1>1. /\ storage \in [Ring!Cells -> Consoles] /\ count \in 0 .. Capacity
      /\ write_index \in Ring!Cells
  BY SameRing DEF Ring!RingTypeOK
<1>2. Ring!Kept = Ring!Held(storage, count, write_index)
  BY Sizes, Ring!KeptIsHeld
<1> QED BY <1>1, <1>2, Sizes, Ring!HeldIsSeq, SameRing

LEMMA KeptSeqNext ==
  ASSUME History!RingTypeOK'
  PROVE  History!Kept' \in Seq(Consoles) /\ Len(History!Kept') = count'
<1>1. /\ storage' \in [Ring!Cells -> Consoles] /\ count' \in 0 .. Capacity
      /\ write_index' \in Ring!Cells
  BY SameRing DEF Ring!RingTypeOK
<1>2. Ring!Kept' = Ring!Held(storage', count', write_index')
  BY Sizes, Ring!KeptIsHeld
<1> QED BY <1>1, <1>2, Sizes, Ring!HeldIsSeq, SameRing

LEMMA PastStep ==
  ASSUME TypeOK, TypeOK', PastInv, [Next]_vars
  PROVE  PastInv'
<1> USE DEF PastInv
<1>0. /\ History!RingTypeOK /\ console \in Consoles /\ input \in Inputs
      /\ console' \in Consoles
      /\ History!Kept \in Seq(Consoles) /\ Len(History!Kept) = count
  BY KeptSeq DEF TypeOK
<1>1. CASE Iteration(Inputs, Views)
  <2>1. PICK pad \in Inputs, keys \in HostKeys, chord \in Chords, platform \in Platform,
          view \in Views : Control(pad, keys, chord, platform, view)
    BY <1>1 DEF Iteration
  <2>2. PICK loaded \in BOOLEAN : StateFiles(NewPress(held'), loaded)
    BY <2>1, Controlled
  <2>3. pc = "pump"
    BY <2>1, Controlled
  <2>4. CASE loaded
    <3>1. RestartRewind(console')
      BY <2>2, <2>4 DEF StateFiles
    <3>2. /\ History!Kept' = IF count' = 0 THEN <<>> ELSE <<console'>>
          /\ count' \in {0, 1}
      BY <1>0, <3>1, Restarted
    <3>3. IsPrefix(console', console')
      BY <1>0, ConsoleSeqs, PrefixOrder
    <3>4. CASE count' = 0
      BY <3>4 DEF Along
    <3>5. CASE count' = 1
      <4>1. History!Kept'[1] = console'
        BY <3>2, <3>5
      <4>2. \A k \in 1 .. 1 : k = 1 /\ 1 .. k - 1 = {}
        OBVIOUS
      <4> QED BY <3>3, <3>5, <4>1, <4>2 DEF Along
    <3> QED BY <3>2, <3>4, <3>5
  <2>5. CASE ~loaded
    <3>1. UNCHANGED <<console, ringVars>>
      BY <2>2, <2>5 DEF StateFiles
    <3>2. History!Kept' = History!Kept /\ count' = count
      BY <3>1, RingStill DEF ringVars
    <3> QED BY <2>3, <3>1, <3>2 DEF Along
  <2> QED BY <2>4, <2>5
<1>2. CASE RunFrame
  <2>1. pc = "run" /\ console' = Append(console, input)
    BY <1>2 DEF RunFrame
  <2>2. Along(History!Kept, Len(History!Kept), console)
    BY <1>0, <2>1
  <2>3. CASE UNCHANGED ringVars
    <3>1. History!Kept' = History!Kept /\ count' = count
      BY <2>3, RingStill DEF ringVars
    <3>2. Along(History!Kept, Len(History!Kept), console')
      BY <1>0, <2>1, <2>2, AlongOn
    <3> QED BY <1>0, <3>1, <3>2 DEF Along
  <2>4. CASE History!Push(console')
    <3>1. Ring!Stack!Push(console')
      BY <1>0, <2>4, Pushed
    <3> DEFINE K == History!Kept
               L == History!Kept'
    <3>2. PICK S \in Seq(Consoles) :
            L = Append(S, console') /\ (S = K \/ (K # <<>> /\ S = Tail(K)))
      <4>1. \/ L = Append(K, console')
            \/ Len(K) = Capacity /\ L = Append(Tail(K), console')
        BY <3>1, SameRing DEF Ring!Stack!Push
      <4>2. CASE L = Append(K, console')
        BY <1>0, <4>2
      <4>3. CASE Len(K) = Capacity /\ L = Append(Tail(K), console')
        <5>1. K # <<>>
          BY <1>0, <4>3, Sizes, EmptySeq
        <5>2. Tail(K) \in Seq(Consoles)
          BY <1>0, <5>1, HeadTailProperties
        <5> QED BY <4>3, <5>1, <5>2
      <4> QED BY <4>1, <4>2, <4>3
    <3>3. Along(K, Len(K), console) /\ K \in Seq(Consoles)
      BY <1>0, <2>2
    <3> HIDE DEF K, L
    <3>4. Along(L, Len(L), console')
      BY <1>0, <2>1, <3>2, <3>3, AlongPush
    <3>5. Len(L) = count'
      <4>1. History!RingTypeOK'
        BY DEF TypeOK
      <4> QED BY <4>1, KeptSeqNext DEF L
    <3> QED BY <3>4, <3>5 DEF L
  <2> QED BY <1>2, <2>3, <2>4 DEF RunFrame
<1>3. CASE Rewind
  <2>1. pc = "run" /\ (pc' = "stopped" \/ console' = restored')
    BY <1>3 DEF Rewind, Failed
  <2>2. Ring!Stack!Pop
    BY <1>0, <1>3, Popped DEF Rewind
  <2> DEFINE K == History!Kept
             L == History!Kept'
  <2>3. K # <<>> /\ restored' = K[Len(K)] /\ L = SubSeq(K, 1, Len(K) - 1)
    BY <2>2, SameRing DEF Ring!Stack!Pop
  <2>4. Along(K, Len(K), console) /\ K \in Seq(Consoles)
    BY <1>0, <2>1
  <2> HIDE DEF K, L
  <2>5. Along(L, Len(L), restored')
    BY <1>0, <2>3, <2>4, AlongPop
  <2>6. Len(L) = count'
    <3>1. History!RingTypeOK'
      BY DEF TypeOK
    <3> QED BY <3>1, KeptSeqNext DEF L
  <2> QED BY <2>1, <2>5, <2>6 DEF L
<1>4. CASE FrameFails
  BY <1>4 DEF FrameFails, Failed
<1>5. CASE Present
  <2>1. pc = "run" /\ UNCHANGED <<console, ringVars>>
    BY <1>5 DEF Present, rewind
  <2>2. History!Kept' = History!Kept /\ count' = count
    BY <2>1, RingStill DEF ringVars
  <2> QED BY <2>1, <2>2 DEF Along
<1>6. CASE Quiet
  <2>1. UNCHANGED <<console, ringVars>> /\ (pc' = "stopped" \/ pc # "stopped" \/ pc' = pc)
    BY <1>6 DEF Quiet
  <2>2. History!Kept' = History!Kept /\ count' = count
    BY <2>1, RingStill DEF ringVars
  <2> QED BY <2>1, <2>2 DEF Along
<1> QED BY <1>1, <1>2, <1>3, <1>4, <1>5, <1>6, StepKinds

LEMMA InitPast ==
  ASSUME Init
  PROVE  PastInv
<1>1. /\ count \in {0, 1} /\ console = <<>> /\ write_index = count % Capacity
      /\ count = 1 => storage[0] = <<>>
  BY DEF Init
<1>2. CASE count = 0
  BY <1>2 DEF PastInv, Along
<1>3. CASE count = 1
  <2>1. History!Cell(1) = 0
    <3>1. History!Cell(1) = ((1 % Capacity) + Capacity - 1 + 1 - 1) % Capacity
      BY <1>1, <1>3 DEF History!Cell
    <3>2. CASE Capacity = 1
      BY <3>1, <3>2
    <3>3. CASE Capacity # 1
      <4>1. 1 % Capacity = 1 /\ Capacity % Capacity = 0
        BY <3>3, Sizes
      <4> QED BY <3>1, <4>1, Sizes
    <3> QED BY <3>2, <3>3
  <2>2. History!Kept[1] = <<>>
    BY <1>1, <1>3, <2>1 DEF History!Kept
  <2>3. IsPrefix(<<>>, <<>>)
    BY EmptySeq, PrefixOrder
  <2>4. \A k \in 1 .. 1 : k = 1 /\ 1 .. k - 1 = {}
    OBVIOUS
  <2> QED BY <1>1, <1>3, <2>2, <2>3, <2>4 DEF PastInv, Along
<1> QED BY <1>1, <1>2, <1>3

\* HistoryIsPast: whatever rewind can restore lies on the way to the present
\* state, each snapshot before the next, and the ring keeps its bounds.
THEOREM RewindGoesBack == Spec => []HistoryIsPast
<1>1. Init => PastInv
  BY InitPast
<1>2. TypeOK /\ TypeOK' /\ PastInv /\ [Next]_vars => PastInv'
  BY PastStep
<1>3. TypeOK /\ PastInv => HistoryIsPast
  <2>1. ASSUME TypeOK, PastInv, pc # "stopped", NEW k \in 1 .. count
        PROVE  /\ IsPrefix(History!Kept[k], console)
               /\ k > 1 => IsStrictPrefix(History!Kept[k - 1], History!Kept[k])
    <3>1. k > 1 => k - 1 \in 1 .. k - 1
      OBVIOUS
    <3> QED BY <2>1, <3>1 DEF PastInv, Along
  <2> QED BY <2>1 DEF HistoryIsPast
<1> QED BY <1>1, <1>2, <1>3, LoopTypes, PTL DEF Spec
=============================================================================
