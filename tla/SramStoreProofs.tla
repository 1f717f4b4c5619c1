--------------------------- MODULE SramStoreProofs ---------------------------
(***************************************************************************)
(* Proofs about SramStore for every set of images: type correctness, the   *)
(* inductive invariant Progress, the action properties that rest on it,    *)
(* and the implementation of DurableStore.                                 *)
(***************************************************************************)
EXTENDS SramStore, TLAPS

IInv == TypeOK /\ Progress

\* The definitions of every action and of the shape of its steps.
LEMMA TypeStep ==
  ASSUME TypeOK, [Next]_vars
  PROVE  TypeOK'
<1> USE DEF TypeOK, File, Calls, disk, Goto, Return, Healthy, Fault
<1>1. CASE Boot
  BY <1>1 DEF Boot, SwitchSramRead, ReadExact
<1>2. ASSUME NEW v \in Image, Call(v) PROVE TypeOK'
  BY <1>2 DEF Call
<1>3. CASE SwitchSramWrite
  <2>1. CASE Open      BY <2>1 DEF Open
  <2>2. CASE Fill      BY <2>2 DEF Fill
  <2>3. CASE Discard   BY <2>3 DEF Discard
  <2>4. CASE Validate  BY <2>4 DEF Validate, ValidateBy, ReadExact
  <2>5. CASE DropBackup  BY <2>5 DEF DropBackup
  <2>6. CASE Rotate    BY <2>6 DEF Rotate
  <2>7. CASE DropPrimary BY <2>7 DEF DropPrimary
  <2>8. CASE Promote   BY <2>8 DEF Promote
  <2> QED BY <1>3, <2>1, <2>2, <2>3, <2>4, <2>5, <2>6, <2>7, <2>8 DEF SwitchSramWrite
<1>4. CASE Crash
  BY <1>4 DEF Crash
<1>5. CASE Damage
  BY <1>5 DEF Damage
<1>6. CASE UNCHANGED vars
  BY <1>6 DEF vars
<1> QED BY <1>1, <1>2, <1>3, <1>4, <1>5, <1>6 DEF Next

\* Every variable keeps its type in every state of every behaviour.
THEOREM TypeCorrect == Spec => []TypeOK
<1>1. Init => TypeOK
  BY DEF Init, TypeOK, File, Calls
<1>2. TypeOK /\ [Next]_vars => TypeOK'
  BY TypeStep
<1> QED BY <1>1, <1>2, PTL DEF Spec

\* Each call of a write finds the disk as the calls before it left it; a
\* crash or a damaged card cannot break this, as the next write starts over.
LEMMA ProgressStep ==
  ASSUME IInv, [Next]_vars
  PROVE  Progress'
<1> USE ImageAssumption DEF IInv, TypeOK, Progress, disk, Goto, Return, Healthy, Fault
<1>1. CASE Boot
  BY <1>1 DEF Boot
<1>2. ASSUME NEW v \in Image, Call(v) PROVE Progress'
  BY <1>2 DEF Call
<1>3. CASE SwitchSramWrite
  <2>1. CASE Open      BY <2>1 DEF Open
  <2>2. CASE Fill      BY <2>2 DEF Fill
  <2>3. CASE Discard   BY <2>3 DEF Discard
  <2>4. CASE Validate  BY <2>4 DEF Validate, ValidateBy, ReadExact
  <2>5. CASE DropBackup  BY <2>5 DEF DropBackup
  <2>6. CASE Rotate    BY <2>6 DEF Rotate
  <2>7. CASE DropPrimary BY <2>7 DEF DropPrimary
  <2>8. CASE Promote   BY <2>8 DEF Promote
  <2> QED BY <1>3, <2>1, <2>2, <2>3, <2>4, <2>5, <2>6, <2>7, <2>8 DEF SwitchSramWrite
<1>4. CASE Crash
  BY <1>4 DEF Crash
<1>5. CASE Damage
  BY <1>5 DEF Damage
<1>6. CASE UNCHANGED vars
  BY <1>6 DEF vars
<1> QED BY <1>1, <1>2, <1>3, <1>4, <1>5, <1>6 DEF Next

LEMMA Invariance == Spec => []IInv
<1>1. Init => IInv
  BY DEF Init, IInv, TypeOK, Progress, File, Calls
<1>2. IInv /\ [Next]_vars => IInv'
  BY TypeStep, ProgressStep DEF IInv
<1> QED BY <1>1, <1>2, PTL DEF Spec

\* rename never meets an existing target, in any state the card was left in.
THEOREM RenameTargetsAreFree == Spec => []RenameTargetFree
<1>1. IInv => RenameTargetFree
  BY DEF IInv, Progress, RenameTargetFree
<1> QED BY <1>1, Invariance, PTL

-----------------------------------------------------------------------------
\* What an error-free read returns, without the calls it is made of.
LEMMA StoredIs ==
  Stored = IF primary \in Image THEN primary
           ELSE IF backup \in Image THEN backup ELSE Nothing
BY DEF Stored, SwitchSramRead, ReadExact

\* The only step of a write that changes what a restart reads is Promote,
\* and it changes it to the image being written.
LEMMA WriteStep ==
  ASSUME IInv, SwitchSramWrite
  PROVE  \/ pc' = "idle" /\ reply' /\ Stored' = data
         \/ pc' = "idle" /\ ~reply' /\ Stored' = Stored /\ faulted'
         \/ pc' \in Calls /\ Stored' = Stored
<1> USE ImageAssumption
    DEF IInv, TypeOK, Progress, Calls, Goto, Return, Healthy, Fault
<1>0. Stored' = IF primary' \in Image THEN primary'
                ELSE IF backup' \in Image THEN backup' ELSE Nothing
  BY DEF Stored, SwitchSramRead, ReadExact
<1>1. CASE Open      BY <1>0, <1>1, StoredIs DEF Open
<1>2. CASE Fill      BY <1>0, <1>2, StoredIs DEF Fill
<1>3. CASE Discard   BY <1>0, <1>3, StoredIs DEF Discard
<1>4. CASE Validate
  <2>1. primary' = primary /\ backup' = backup
    BY <1>4 DEF Validate, ValidateBy, disk
  <2>2. pc' \in Calls
    BY <1>4 DEF Validate, ValidateBy
  <2> QED BY <1>0, <2>1, <2>2, StoredIs
<1>5. CASE DropBackup
  <2>1. primary' = primary /\ primary \in Image
    BY <1>5 DEF DropBackup
  <2>2. Stored' = Stored
    BY <1>0, <2>1, StoredIs
  <2>3. pc' = "rotate" \/ (pc' = "idle" /\ reply' = FALSE /\ faulted' = TRUE)
    BY <1>5 DEF DropBackup
  <2> QED BY <2>2, <2>3
<1>6. CASE Rotate
  <2>1. primary \in Image
    BY <1>6 DEF Rotate
  <2>2. Stored' = Stored
    BY <1>0, <1>6, <2>1, StoredIs DEF Rotate
  <2>3. pc' = "promote" \/ (pc' = "idle" /\ reply' = FALSE /\ faulted' = TRUE)
    BY <1>6 DEF Rotate
  <2> QED BY <2>2, <2>3
<1>7. CASE DropPrimary
  <2>1. primary \notin Image
    BY <1>7 DEF DropPrimary
  <2>2. Stored' = Stored
    BY <1>0, <1>7, <2>1, StoredIs DEF DropPrimary
  <2>3. pc' = "promote" \/ (pc' = "idle" /\ reply' = FALSE /\ faulted' = TRUE)
    BY <1>7 DEF DropPrimary
  <2> QED BY <2>2, <2>3
<1>8. CASE Promote
  <2>1. CASE primary' = temp /\ pc' = "idle" /\ reply' = TRUE
    <3>1. Stored' = data
      BY <1>0, <1>8, <2>1 DEF Promote
    <3> QED BY <2>1, <3>1
  <2>2. CASE UNCHANGED <<primary, backup>> /\ pc' = "idle" /\ reply' = FALSE /\ faulted' = TRUE
    <3>1. Stored' = Stored
      BY <1>0, <2>2, StoredIs
    <3> QED BY <2>2, <3>1
  <2> QED BY <1>8, <2>1, <2>2 DEF Promote
<1> QED
  BY <1>1, <1>2, <1>3, <1>4, <1>5, <1>6, <1>7, <1>8 DEF SwitchSramWrite

\* Once a complete copy exists, no step of a write leaves the card without.
THEOREM StoreIsNeverLost == Spec => NeverLost
<1>1. IInv /\ [Next]_vars =>
        [SwitchSramWrite /\ Stored # Nothing => Stored' # Nothing]_vars
  BY WriteStep, ImageAssumption DEF IInv, TypeOK
<1> QED BY <1>1, Invariance, PTL DEF Spec, NeverLost

\* A success answer means the image can be read back, whatever the medium did.
THEOREM AcknowledgedIsStored == Spec => AckedIsStored
<1>1. IInv /\ [Next]_vars =>
        [SwitchSramWrite /\ pc' = "idle" /\ reply' => Stored' = data]_vars
  BY WriteStep DEF Calls
<1> QED BY <1>1, Invariance, PTL DEF Spec, AckedIsStored

\* No wreck on the card makes a write fail: only a failing call does.
THEOREM HealthyWritesCommit == Spec => HealthyWriteCommits
<1>1. IInv /\ [Next]_vars =>
        [SwitchSramWrite /\ pc' = "idle" /\ ~faulted' => reply' /\ Stored' = data]_vars
  BY WriteStep DEF Calls
<1> QED BY <1>1, Invariance, PTL DEF Spec, HealthyWriteCommits

\* A complete backup is given up only for a complete primary.
THEOREM BackupIsGivenUpSafely == Spec => BackupGivenUpSafely
<1>1. IInv /\ [Next]_vars =>
        [SwitchSramWrite /\ backup \in Image /\ backup' # backup => primary \in Image]_vars
  BY DEF IInv, Progress, SwitchSramWrite, Open, Fill, Discard, Validate, ValidateBy, DropBackup,
         Rotate, DropPrimary, Promote, disk
<1> QED BY <1>1, Invariance, PTL DEF Spec, BackupGivenUpSafely

-----------------------------------------------------------------------------
\* The eight-call write implements the one-step store: Promote is Commit,
\* every refusal and every crash in a call is Abandon, the rest stutters.
THEOREM ImplementsDurableStore == Spec => Refinement
<1>1. Init => Abs!Init
  BY StoredIs, ImageAssumption DEF Init, Abs!Init, Calls
<1>2. IInv /\ [Next]_vars => [Abs!Next]_(Abs!vars)
  <2> SUFFICES ASSUME IInv, [Next]_vars PROVE [Abs!Next]_(Abs!vars)
    OBVIOUS
  <2> USE ImageAssumption DEF Abs!Next, Abs!vars, Calls
  <2>0. Stored' = IF primary' \in Image THEN primary'
                  ELSE IF backup' \in Image THEN backup' ELSE Nothing
    BY DEF Stored, SwitchSramRead, ReadExact
  <2>1. CASE Boot
    BY <2>0, <2>1, StoredIs DEF Boot, disk
  <2>2. ASSUME NEW v \in Image, Call(v) PROVE Abs!Ask(v)
    BY <2>0, <2>2, StoredIs DEF Call, Abs!Ask, disk
  <2>3. CASE SwitchSramWrite
    <3>1. pc \in Calls /\ data' = data /\ data \in Image
      BY <2>3 DEF SwitchSramWrite, Open, Fill, Discard, Validate, ValidateBy, DropBackup,
                  Rotate, DropPrimary, Promote, Goto, Return, IInv, TypeOK
    <3> QED BY <2>3, <3>1, WriteStep DEF Abs!Commit, Abs!Abandon
  <2>4. CASE Crash
    BY <2>0, <2>4, StoredIs DEF Crash, disk, Abs!Abandon, IInv, TypeOK
  <2>5. CASE Damage
    BY <2>0, <2>5 DEF Damage, Abs!Tamper
  <2>6. CASE UNCHANGED vars
    BY <2>0, <2>6, StoredIs DEF vars, disk
  <2> QED BY <2>1, <2>2, <2>3, <2>4, <2>5, <2>6 DEF Next
<1> QED BY <1>1, <1>2, Invariance, PTL DEF Spec, Refinement, Abs!Spec
=============================================================================
