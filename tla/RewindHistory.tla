--------------------------- MODULE RewindHistory ----------------------------
(***************************************************************************)
(* The ring of console snapshots behind rewind (runner/desktop_rewind.c)   *)
(* and the reset sdl_main.c applies to it when a state is loaded.          *)
(***************************************************************************)
EXTENDS Integers, Sequences

CONSTANTS Snapshot,  \* what a snapshot's bytes can be
          Capacity   \* snapshots the ring holds (300 in the code)

ASSUME RingAssumption == Capacity \in Nat \ {0}

VARIABLES storage,      \* history->storage, one cell for each snapshot
          count,        \* history->count
          write_index,  \* history->write_index
          restored      \* the caller's buffer

ring == <<storage, count, write_index, restored>>

Cells == 0 .. Capacity - 1

\* Dkc2RewindHistoryInit: malloc leaves any bytes in the cells.
RingInit ==
  /\ storage \in [Cells -> Snapshot]
  /\ count = 0 /\ write_index = 0
  /\ restored \in Snapshot

\* Mutant: the cell is read before the index steps back.
PopInPlace ==
  /\ count > 0
  /\ write_index' = (write_index + Capacity - 1) % Capacity
  /\ restored' = storage[write_index]
  /\ count' = count - 1
  /\ UNCHANGED storage

Push(s) ==
  /\ storage' = [storage EXCEPT ![write_index] = s]
  /\ write_index' = (write_index + 1) % Capacity
  /\ count' = IF count < Capacity THEN count + 1 ELSE count
  /\ UNCHANGED restored

Pop ==
  /\ count > 0
  /\ write_index' = (write_index + Capacity - 1) % Capacity
  /\ restored' = storage[write_index']
  /\ count' = count - 1
  /\ UNCHANGED storage

\* A successful state load empties the ring.
Forget ==
  /\ count' = 0 /\ write_index' = 0
  /\ UNCHANGED <<storage, restored>>

RingNext == (\E s \in Snapshot : Push(s)) \/ Pop \/ Forget

RingSpec == RingInit /\ [][RingNext]_ring

-----------------------------------------------------------------------------
RingTypeOK ==
  /\ storage \in [Cells -> Snapshot]
  /\ count \in 0 .. Capacity /\ write_index \in Cells
  /\ restored \in Snapshot

\* The cell of the k-th oldest snapshot, and the snapshots oldest first.
Cell(k) == (write_index + Capacity - count + k - 1) % Capacity
Kept == [k \in 1 .. count |-> storage[Cell(k)]]

\* The ring, over its wrap-around and a reset at any index, is the stack of
\* the newest Capacity snapshots; what malloc left in it is never restored.
Stack == INSTANCE BoundedStack WITH stack <- Kept
RingRefinement == Stack!Spec
=============================================================================
