---------------------------- MODULE BoundedStack ----------------------------
(***************************************************************************)
(* What the rewind history promises: the last Capacity snapshots, newest   *)
(* first, each handed back at most once.                                   *)
(***************************************************************************)
EXTENDS Integers, Sequences

CONSTANTS Snapshot, Capacity

VARIABLES stack,    \* the snapshots that can be restored, newest last
          restored  \* the buffer a snapshot is restored to

Init == stack = <<>> /\ restored \in Snapshot

\* A full stack forgets its oldest snapshot.
Push(s) ==
  /\ \/ Len(stack) < Capacity /\ stack' = Append(stack, s)
     \/ Len(stack) = Capacity /\ stack' = Append(Tail(stack), s)
  /\ UNCHANGED restored

Pop ==
  /\ stack # <<>>
  /\ restored' = stack[Len(stack)]
  /\ stack' = SubSeq(stack, 1, Len(stack) - 1)

Forget == stack' = <<>> /\ UNCHANGED restored

Next == (\E s \in Snapshot : Push(s)) \/ Pop \/ Forget

Spec == Init /\ [][Next]_<<stack, restored>>
=============================================================================
