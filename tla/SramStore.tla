------------------------------ MODULE SramStore ------------------------------
(***************************************************************************)
(* The checked save file of the Switch host (runner/switch_sram.c): a      *)
(* write goes to path.tmp, is read back, the old primary is rotated to     *)
(* path.bak and the temporary is promoted; a read takes the primary, else  *)
(* the backup.  One action per file-system call that changes the disk, so  *)
(* that the program can be stopped between any two of them.  Every call    *)
(* may fail, and a medium may report success and hold other bytes.         *)
(***************************************************************************)
CONSTANTS Image,      \* byte strings of exactly the requested size
          Absent,     \* no such file
          Torn,       \* a file of another size (empty, truncated, too long)
          Nothing     \* no image: result 0 of SwitchSramRead

ASSUME ImageAssumption ==
  Absent \notin Image /\ Torn \notin Image /\ Nothing \notin Image /\ Absent # Torn

VARIABLES primary,    \* path
          backup,     \* path.bak
          temp,       \* path.tmp
          pc,         \* the next call of SwitchSramWrite, "idle" or "down"
          data,       \* the image SwitchSramWrite was given
          reply,      \* the result of the last SwitchSramWrite
          faulted,    \* some call of this SwitchSramWrite failed or lied
          found,      \* path.bak as SwitchSramWrite found it
          loaded      \* what SwitchSramRead put into memory at the last boot

disk == <<primary, backup, temp>>
vars == <<disk, pc, data, reply, faulted, found, loaded>>

File  == Image \cup {Absent, Torn}
Calls == {"open", "fill", "discard", "validate", "dropBackup", "rotate",
          "dropPrimary", "promote"}

TypeOK ==
  /\ primary \in File /\ backup \in File /\ temp \in File
  /\ pc \in Calls \cup {"idle", "down"}
  /\ data \in Image
  /\ reply \in BOOLEAN /\ faulted \in BOOLEAN /\ found \in File
  /\ loaded \in Image \cup {Nothing}

-----------------------------------------------------------------------------
Goto(next)  == pc' = next /\ UNCHANGED <<data, reply, found, loaded>>
Return(ok)  == pc' = "idle" /\ reply' = ok /\ UNCHANGED <<data, found, loaded>>
Healthy     == UNCHANGED faulted
Fault       == faulted' = TRUE

Init ==
  /\ primary = Absent /\ backup = Absent /\ temp = Absent
  /\ pc = "down" /\ data \in Image
  /\ reply = FALSE /\ faulted = FALSE /\ found = Absent /\ loaded = Nothing

\* ReadExact: 1 for a file of the right size, 0 for none or another size; an
\* I/O error is -1 and changes nothing, so the callers' branches treat it.
ReadExact(file) == IF file \in Image THEN 1 ELSE 0

\* SwitchSramRead, with a read error on either file when the flag says so.
SwitchSramRead(badPrimary, badBackup) ==
  IF ~badPrimary /\ ReadExact(primary) = 1 THEN primary
  ELSE IF ~badBackup /\ ReadExact(backup) = 1 THEN backup
  ELSE Nothing

\* The image a restart recovers when no read fails.
Stored == SwitchSramRead(FALSE, FALSE)

Boot ==
  /\ pc = "down"
  /\ pc' = "idle"
  /\ \E badPrimary, badBackup \in BOOLEAN :
       loaded' = SwitchSramRead(badPrimary, badBackup)
  /\ UNCHANGED <<disk, data, reply, faulted, found>>

Call(v) ==
  /\ pc = "idle"
  /\ pc' = "open" /\ data' = v /\ faulted' = FALSE
  /\ found' = backup
  /\ UNCHANGED <<disk, reply, loaded>>

\* fopen(temp, "wb") truncates what an interrupted call left.
Open ==
  /\ pc = "open"
  /\ UNCHANGED <<primary, backup>>
  /\ \/ temp' = Torn /\ Goto("fill") /\ Healthy
     \/ UNCHANGED temp /\ Return(FALSE) /\ Fault

\* fwrite, fflush and fclose.  A reported failure leaves any bytes behind;
\* a success may still have left other bytes than were asked for.
Fill ==
  /\ pc = "fill"
  /\ UNCHANGED <<primary, backup>>
  /\ \/ temp' = data /\ Goto("validate") /\ Healthy
     \/ temp' \in Image \cup {Torn} /\ Fault
        /\ (Goto("validate") \/ Goto("discard"))

Discard ==
  /\ pc = "discard"
  /\ temp' \in {Absent, temp}          \* the result of remove is ignored
  /\ Return(FALSE)
  /\ UNCHANGED <<primary, backup, faulted>>

\* malloc, the readback and the state of the old primary decide together;
\* the last branch stands for valid_old < 0 and a failed malloc or read.
ValidateBy(readback, rotates) ==
  /\ pc = "validate"
  /\ UNCHANGED disk
  /\ \/ readback /\ Goto(IF rotates THEN "dropBackup" ELSE "dropPrimary") /\ Healthy
     \/ ~readback /\ Goto("discard") /\ Healthy
     \/ Goto("discard") /\ Fault

\* Mutant: the primary is never rotated.
ValidateNoRotation == ValidateBy(temp = data, FALSE)

Validate == ValidateBy(temp = data, ReadExact(primary) = 1)

\* Mutant: ENOENT is taken for a failure.
DropBackupMustExist ==
  /\ pc = "dropBackup"
  /\ UNCHANGED <<primary, temp, faulted>>
  /\ backup' = Absent
  /\ IF backup = Absent THEN Return(FALSE) ELSE Goto("rotate")

\* remove(backup); ENOENT is not a failure.
DropBackup ==
  /\ pc = "dropBackup"
  /\ UNCHANGED <<primary, temp>>
  /\ \/ backup' = Absent /\ Goto("rotate") /\ Healthy
     \/ backup # Absent /\ UNCHANGED backup /\ Return(FALSE) /\ Fault

Rotate ==
  /\ pc = "rotate"
  /\ UNCHANGED temp
  /\ \/ backup' = primary /\ primary' = Absent /\ Goto("promote") /\ Healthy
     \/ UNCHANGED <<primary, backup>> /\ Return(FALSE) /\ Fault

\* A primary of the wrong size is dropped, never rotated.
DropPrimary ==
  /\ pc = "dropPrimary"
  /\ UNCHANGED <<backup, temp>>
  /\ \/ primary' = Absent /\ Goto("promote") /\ Healthy
     \/ primary # Absent /\ UNCHANGED primary /\ Return(FALSE) /\ Fault

Promote ==
  /\ pc = "promote"
  /\ UNCHANGED backup
  /\ \/ primary' = temp /\ temp' = Absent /\ Return(TRUE) /\ Healthy
     \/ UNCHANGED <<primary, temp>> /\ Return(FALSE) /\ Fault

\* The applet is killed or the console loses power between two calls.
Crash ==
  /\ pc # "down"
  /\ pc' = "down"
  /\ UNCHANGED <<disk, data, reply, faulted, found, loaded>>

\* The card is edited, truncated or restored while the program does not run.
Damage ==
  /\ pc = "down"
  /\ \/ primary' \in File /\ UNCHANGED <<backup, temp>>
     \/ backup' \in File /\ UNCHANGED <<primary, temp>>
     \/ temp' \in File /\ UNCHANGED <<primary, backup>>
  /\ UNCHANGED <<pc, data, reply, faulted, found, loaded>>

SwitchSramWrite ==
  Open \/ Fill \/ Discard \/ Validate \/ DropBackup \/ Rotate \/ DropPrimary \/ Promote

Next == Boot \/ (\E v \in Image : Call(v)) \/ SwitchSramWrite \/ Crash \/ Damage

Spec == Init /\ [][Next]_vars

-----------------------------------------------------------------------------
\* What each call of SwitchSramWrite finds on the disk: the strengthening
\* that makes the properties below inductive.
Progress ==
  /\ pc \in {"dropBackup", "rotate", "dropPrimary", "promote"} => temp = data
  /\ pc \in {"dropBackup", "rotate"} => primary \in Image
  /\ pc = "dropPrimary" => primary \notin Image
  /\ pc = "rotate" => backup = Absent
  /\ pc = "promote" => primary = Absent
  /\ pc = "discard" \/ (pc = "validate" /\ temp # data) => faulted

\* rename is only called when its target does not exist: C leaves the other
\* case to the file system, and the one on the card refuses it.
RenameTargetFree ==
  /\ pc = "rotate" => backup = Absent
  /\ pc = "promote" => primary = Absent

\* No step of a write turns a store with a complete copy into one without,
\* whatever fails and whatever state the files were found in.
NeverLost == [][SwitchSramWrite /\ Stored # Nothing => Stored' # Nothing]_vars

\* "Never rotate a truncated primary over a recoverable backup": a complete
\* backup is given up only while the primary is complete.
BackupGivenUpSafely ==
  [][SwitchSramWrite /\ backup \in Image /\ backup' # backup => primary \in Image]_vars

\* From any wreck an earlier call, a crash or a damaged card left (stale
\* temporary, missing primary, torn primary or backup), a write none of
\* whose calls fails commits its image.
HealthyWriteCommits ==
  [][SwitchSramWrite /\ pc' = "idle" /\ ~faulted' => reply' /\ Stored' = data]_vars

\* A write is acknowledged only when its exact image can be read back, also
\* when the card reported success and kept other bytes.
AckedIsStored == [][SwitchSramWrite /\ pc' = "idle" /\ reply' => Stored' = data]_vars

\* "Save failed. Previous backup retained.": a refused write leaves the
\* complete backup it found.
BackupRetained ==
  [][SwitchSramWrite /\ pc' = "idle" /\ ~reply' /\ found \in Image => backup' \in Image]_vars

\* The calls of the write implement the one-step store of DurableStore.
Abs == INSTANCE DurableStore WITH
         stored <- Stored,
         asked  <- IF pc \in Calls THEN data ELSE Nothing
Refinement == Abs!Spec
=============================================================================
