------------------------ MODULE RewindHistoryProofs -------------------------
(***************************************************************************)
(* The ring implements the bounded stack, for every capacity and every set *)
(* of snapshots.                                                           *)
(***************************************************************************)
EXTENDS RewindHistory, SequenceTheorems, TLAPS

-----------------------------------------------------------------------------
\* Indices wrap around at most once.
LEMMA Wrap ==
  ASSUME NEW x \in 0 .. 2 * Capacity - 1
  PROVE  x % Capacity = IF x < Capacity THEN x ELSE x - Capacity
BY RingAssumption

\* The snapshots a ring with cells st, c entries and index w holds, and where.
At(c, w, k) == IF w + k - 1 < c THEN w + Capacity - c + k - 1 ELSE w - c + k - 1
Held(st, c, w) == [k \in 1 .. c |-> st[(w + Capacity - c + k - 1) % Capacity]]

LEMMA HeldIsSeq ==
  ASSUME NEW st \in [Cells -> Snapshot], NEW c \in 0 .. Capacity, NEW w \in Cells
  PROVE  /\ \A k \in 1 .. c : At(c, w, k) \in Cells
         /\ Held(st, c, w) \in Seq(Snapshot)
         /\ Len(Held(st, c, w)) = c
         /\ \A k \in 1 .. c : Held(st, c, w)[k] = st[At(c, w, k)]
<1>1. ASSUME NEW k \in 1 .. c
      PROVE  /\ (w + Capacity - c + k - 1) % Capacity = At(c, w, k)
             /\ At(c, w, k) \in Cells
  <2> DEFINE x == w + Capacity - c + k - 1
  <2>1. x \in 0 .. 2 * Capacity - 1
    BY RingAssumption DEF Cells
  <2>2. (x < Capacity) = (w + k - 1 < c)
    BY RingAssumption DEF Cells
  <2>3. x - Capacity = w - c + k - 1
    BY RingAssumption DEF Cells
  <2> HIDE DEF x
  <2>4. x % Capacity = IF x < Capacity THEN x ELSE x - Capacity
    BY <2>1, Wrap
  <2>5. x % Capacity = At(c, w, k)
    BY <2>2, <2>3, <2>4 DEF At, x
  <2>6. At(c, w, k) \in Cells
    BY RingAssumption DEF At, Cells
  <2> QED BY <2>5, <2>6 DEF x
<1>2. \A k \in 1 .. c : Held(st, c, w)[k] = st[At(c, w, k)]
  BY <1>1 DEF Held
<1>3. Held(st, c, w) \in [1 .. c -> Snapshot] /\ c \in Nat
  BY <1>1, RingAssumption DEF Held
<1>4. Held(st, c, w) \in Seq(Snapshot)
  BY <1>3, SeqDef
<1>5. Len(Held(st, c, w)) = c
  BY <1>3, <1>4, LenProperties
<1> QED BY <1>1, <1>2, <1>4, <1>5

LEMMA KeptIsHeld ==
  /\ Kept = Held(storage, count, write_index)
  /\ Kept' = Held(storage', count', write_index')
BY DEF Kept, Held, Cell

-----------------------------------------------------------------------------
\* The index moves one cell forward or back.
LEMMA Steps ==
  ASSUME NEW w \in Cells
  PROVE  /\ (w + 1) % Capacity = IF w = Capacity - 1 THEN 0 ELSE w + 1
         /\ (w + Capacity - 1) % Capacity = IF w = 0 THEN Capacity - 1 ELSE w - 1
<1> DEFINE x == w + 1
           y == w + Capacity - 1
<1>1. x \in 0 .. 2 * Capacity - 1 /\ y \in 0 .. 2 * Capacity - 1
  BY RingAssumption DEF Cells
<1>2. /\ (IF x < Capacity THEN x ELSE x - Capacity) = (IF w = Capacity - 1 THEN 0 ELSE w + 1)
      /\ (IF y < Capacity THEN y ELSE y - Capacity) = (IF w = 0 THEN Capacity - 1 ELSE w - 1)
  BY RingAssumption DEF Cells
<1> HIDE DEF x, y
<1>3. /\ x % Capacity = IF x < Capacity THEN x ELSE x - Capacity
      /\ y % Capacity = IF y < Capacity THEN y ELSE y - Capacity
  BY <1>1, Wrap
<1> QED BY <1>2, <1>3 DEF x, y

LEMMA TypeStep ==
  ASSUME RingTypeOK, [RingNext]_ring
  PROVE  RingTypeOK'
<1> USE RingAssumption DEF RingTypeOK, Cells
<1>1. ASSUME NEW s \in Snapshot, Push(s)
      PROVE  RingTypeOK'
  <2>1. write_index' = IF write_index = Capacity - 1 THEN 0 ELSE write_index + 1
    BY <1>1, Steps DEF Push
  <2>2. write_index' \in Cells
    BY <2>1
  <2> QED BY <1>1, <2>2 DEF Push
<1>2. CASE Pop
  <2>1. write_index' = IF write_index = 0 THEN Capacity - 1 ELSE write_index - 1
    BY <1>2, Steps DEF Pop
  <2>2. write_index' \in Cells
    BY <2>1
  <2> QED BY <1>2, <2>2 DEF Pop
<1>3. CASE Forget
  BY <1>3 DEF Forget
<1>4. CASE UNCHANGED ring
  BY <1>4 DEF ring
<1> QED BY <1>1, <1>2, <1>3, <1>4 DEF RingNext

\* The indices stay inside the ring and the cells hold snapshots.
THEOREM TypeCorrect == RingSpec => []RingTypeOK
<1>1. RingInit => RingTypeOK
  BY RingAssumption DEF RingInit, RingTypeOK, Cells
<1>2. RingTypeOK /\ [RingNext]_ring => RingTypeOK'
  BY TypeStep
<1> QED BY <1>1, <1>2, PTL DEF RingSpec

-----------------------------------------------------------------------------
\* The ring before and after a step, as sequences.
LEMMA BeforeAndAfter ==
  ASSUME RingTypeOK, RingTypeOK'
  PROVE  /\ Kept \in Seq(Snapshot) /\ Len(Kept) = count
         /\ \A k \in 1 .. count :
              Kept[k] = storage[At(count, write_index, k)] /\ At(count, write_index, k) \in Cells
         /\ Kept' \in Seq(Snapshot) /\ Len(Kept') = count'
         /\ \A k \in 1 .. count' :
              /\ Kept'[k] = storage'[At(count', write_index', k)]
              /\ At(count', write_index', k) \in Cells
BY KeptIsHeld, HeldIsSeq DEF RingTypeOK

LEMMA PushIsPush ==
  ASSUME RingTypeOK, NEW s \in Snapshot, Push(s)
  PROVE  Stack!Push(s)
<1>1. RingTypeOK'
  BY TypeStep DEF RingNext
<1>2. write_index' = IF write_index = Capacity - 1 THEN 0 ELSE write_index + 1
  BY Steps DEF Push, RingTypeOK
<1>3. \A c \in Cells : storage'[c] = IF c = write_index THEN s ELSE storage[c]
  BY DEF Push, RingTypeOK
<1>4. CASE count < Capacity
  <2>1. count' = count + 1
    BY <1>4 DEF Push
  <2>2. /\ Append(Kept, s) \in Seq(Snapshot) /\ Len(Append(Kept, s)) = count + 1
        /\ \A k \in 1 .. count : Append(Kept, s)[k] = Kept[k]
        /\ Append(Kept, s)[count + 1] = s
    BY <1>1, BeforeAndAfter, AppendProperties
  <2>3. ASSUME NEW k \in 1 .. count + 1
        PROVE  Kept'[k] = Append(Kept, s)[k]
    <3>1. CASE k = count + 1
      <4>1. At(count', write_index', k) = write_index
        BY <1>2, <1>4, <2>1, <3>1, RingAssumption DEF RingTypeOK, Cells, At
      <4>2. Kept'[k] = s
        BY <1>1, <1>3, <2>1, <4>1, BeforeAndAfter DEF RingTypeOK
      <4> QED BY <2>2, <3>1, <4>2
    <3>2. CASE k # count + 1
      <4>1. /\ k \in 1 .. count
            /\ At(count', write_index', k) = At(count, write_index, k)
            /\ At(count, write_index, k) # write_index
        BY <1>2, <1>4, <2>1, <3>2, RingAssumption DEF RingTypeOK, Cells, At
      <4>2. Kept'[k] = storage[At(count, write_index, k)]
        BY <1>1, <1>3, <2>1, <4>1, BeforeAndAfter
      <4> QED BY <1>1, <2>2, <4>1, <4>2, BeforeAndAfter
    <3> QED BY <3>1, <3>2
  <2>4. Kept' = Append(Kept, s)
    BY <1>1, <2>1, <2>2, <2>3, BeforeAndAfter, SeqEqual
  <2> QED BY <1>1, <1>4, <2>4, BeforeAndAfter DEF Stack!Push, Push
<1>5. CASE count = Capacity
  <2>1. count' = Capacity
    BY <1>5, RingAssumption DEF Push
  <2> DEFINE rest == Tail(Kept)
  <2>2. /\ rest \in Seq(Snapshot) /\ Len(rest) = Capacity - 1
        /\ \A k \in 1 .. Capacity - 1 : rest[k] = Kept[k + 1]
    <3>1. Kept # <<>>
      BY <1>1, <1>5, BeforeAndAfter, EmptySeq, RingAssumption
    <3> QED BY <1>1, <1>5, <3>1, BeforeAndAfter, HeadTailProperties
  <2> HIDE DEF rest
  <2>3. /\ Append(rest, s) \in Seq(Snapshot) /\ Len(Append(rest, s)) = Capacity
        /\ \A k \in 1 .. Capacity - 1 : Append(rest, s)[k] = rest[k]
        /\ Append(rest, s)[Capacity] = s
    <3>1. Len(rest) + 1 = Capacity
      BY <2>2, RingAssumption
    <3> QED BY <2>2, <3>1, AppendProperties
  <2>4. ASSUME NEW k \in 1 .. Capacity
        PROVE  Kept'[k] = Append(rest, s)[k]
    <3>1. CASE k = Capacity
      <4>1. At(count', write_index', k) = write_index
        BY <1>2, <1>5, <2>1, <3>1, RingAssumption DEF RingTypeOK, Cells, At
      <4>2. Kept'[k] = s
        BY <1>1, <1>3, <2>1, <4>1, BeforeAndAfter DEF RingTypeOK
      <4> QED BY <2>3, <3>1, <4>2
    <3>2. CASE k # Capacity
      <4>1. /\ k \in 1 .. Capacity - 1 /\ k + 1 \in 1 .. count
            /\ At(count', write_index', k) = At(count, write_index, k + 1)
            /\ At(count, write_index, k + 1) # write_index
        BY <1>2, <1>5, <2>1, <3>2, RingAssumption DEF RingTypeOK, Cells, At
      <4>2. Kept'[k] = storage[At(count, write_index, k + 1)]
        BY <1>1, <1>3, <2>1, <4>1, BeforeAndAfter
      <4> QED BY <1>1, <2>2, <2>3, <4>1, <4>2, BeforeAndAfter
    <3> QED BY <3>1, <3>2
  <2>5. Kept' = Append(rest, s)
    BY <1>1, <2>1, <2>3, <2>4, BeforeAndAfter, SeqEqual
  <2> QED BY <1>1, <1>5, <2>5, BeforeAndAfter DEF Stack!Push, Push, rest
<1> QED BY <1>4, <1>5, RingAssumption DEF RingTypeOK

LEMMA PopIsPop ==
  ASSUME RingTypeOK, Pop
  PROVE  Stack!Pop
<1>1. RingTypeOK'
  BY TypeStep DEF RingNext
<1>2. count > 0 /\ count' = count - 1 /\ storage' = storage /\ count \in Nat
  BY RingAssumption DEF Pop, RingTypeOK
<1>3. write_index' = IF write_index = 0 THEN Capacity - 1 ELSE write_index - 1
  BY Steps DEF Pop, RingTypeOK
<1>4. write_index' = At(count, write_index, count)
  BY <1>2, <1>3, RingAssumption DEF RingTypeOK, Cells, At
<1>5. restored' = Kept[Len(Kept)]
  BY <1>1, <1>2, <1>4, BeforeAndAfter DEF Pop
<1>6. Kept # <<>>
  BY <1>1, <1>2, BeforeAndAfter, EmptySeq
<1> DEFINE rest == SubSeq(Kept, 1, Len(Kept) - 1)
<1>7. /\ rest \in Seq(Snapshot) /\ Len(rest) = count - 1
      /\ \A k \in 1 .. count - 1 : rest[k] = Kept[k]
  <2>1. Len(Kept) = count
    BY <1>1, BeforeAndAfter
  <2>2. \A k \in 1 .. count - 1 : Kept[k] \in Snapshot
    BY <1>1, <1>2, <2>1, BeforeAndAfter, ElementOfSeq
  <2>3. /\ SubSeq(Kept, 1, count - 1) \in Seq(Snapshot)
        /\ Len(SubSeq(Kept, 1, count - 1)) = IF 1 <= count - 1 THEN count - 1 - 1 + 1 ELSE 0
        /\ \A k \in 1 .. count - 1 - 1 + 1 : SubSeq(Kept, 1, count - 1)[k] = Kept[1 + k - 1]
    BY <1>2, <2>2, SubSeqProperties
  <2> QED BY <1>2, <2>1, <2>3
<1> HIDE DEF rest
<1>8. ASSUME NEW k \in 1 .. count - 1
      PROVE  Kept'[k] = rest[k]
  <2>1. At(count', write_index', k) = At(count, write_index, k)
    BY <1>2, <1>3, RingAssumption DEF RingTypeOK, Cells, At
  <2> QED BY <1>1, <1>2, <1>7, <2>1, BeforeAndAfter
<1>9. Kept' = rest
  BY <1>1, <1>2, <1>7, <1>8, BeforeAndAfter, SeqEqual
<1> QED BY <1>5, <1>6, <1>9 DEF Stack!Pop, rest

LEMMA ForgetIsForget ==
  ASSUME RingTypeOK, Forget
  PROVE  Stack!Forget
<1>1. RingTypeOK'
  BY TypeStep DEF RingNext
<1>2. Kept' \in Seq(Snapshot) /\ Len(Kept') = 0
  BY <1>1, BeforeAndAfter DEF Forget
<1>3. Kept' = <<>>
  BY <1>2, EmptySeq
<1> QED BY <1>3 DEF Stack!Forget, Forget

\* The ring implements the bounded stack.
THEOREM ImplementsBoundedStack == RingSpec => RingRefinement
<1>1. ASSUME RingInit PROVE Stack!Init
  <2>1. RingTypeOK /\ count = 0
    BY <1>1, RingAssumption DEF RingInit, RingTypeOK, Cells
  <2>2. Kept \in Seq(Snapshot) /\ Len(Kept) = 0
    BY <2>1, KeptIsHeld, HeldIsSeq DEF RingTypeOK
  <2> QED BY <1>1, <2>2, EmptySeq DEF RingInit, Stack!Init
<1>2. RingTypeOK /\ [RingNext]_ring => [Stack!Next]_<<Kept, restored>>
  <2> SUFFICES ASSUME RingTypeOK, [RingNext]_ring PROVE [Stack!Next]_<<Kept, restored>>
    OBVIOUS
  <2>1. CASE \E s \in Snapshot : Push(s)
    BY <2>1, PushIsPush DEF Stack!Next
  <2>2. CASE Pop
    BY <2>2, PopIsPop DEF Stack!Next
  <2>3. CASE Forget
    BY <2>3, ForgetIsForget DEF Stack!Next
  <2>4. CASE UNCHANGED ring
    BY <2>4, KeptIsHeld DEF ring
  <2> QED BY <2>1, <2>2, <2>3, <2>4 DEF RingNext
<1> QED BY <1>1, <1>2, TypeCorrect, PTL DEF RingSpec, RingRefinement, Stack!Spec
=============================================================================
