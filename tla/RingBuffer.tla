----------------------------- MODULE RingBuffer -----------------------------
(***************************************************************************)
(* The ring of internal/metrics/ringbuffer.go.  Every method holds the     *)
(* mutex from its first line to its return, so each is one step here;      *)
(* RingLock.tla models the mutex itself.                                   *)
(*                                                                         *)
(* The slots are numbered from 0, as in the code.  A slot that was never   *)
(* written holds Go's zero Snapshot.                                       *)
(***************************************************************************)
EXTENDS Integers, Sequences

CONSTANTS Snapshots,  \* what a collection can yield
          Zero,       \* Go's zero Snapshot
          capacity

ASSUME CapacityAssumption == capacity \in Nat \ {0}

VARIABLES data, writeIdx, count

ringVars == <<data, writeIdx, count>>

Slots == 0..(capacity - 1)

-----------------------------------------------------------------------------
(* Reading                                                                 *)

\* Go's % keeps the sign of its left side; capacity is added so that it is
\* never negative.
Slot(i) == (i + capacity) % capacity

\* Latest, or Zero for nil.
Latest == IF count = 0 THEN Zero ELSE data[Slot(writeIdx - 1)]

\* Variant for the mutation runs: the read starts at the slot after the right one.
HistoryLate(n) ==
  LET m == IF n > count THEN count ELSE n
  IN [i \in 1..m |-> data[(Slot(writeIdx - m) + i) % capacity]]

\* History(n): at most n snapshots, oldest first.
History(n) ==
  LET m == IF n > count THEN count ELSE n
  IN [i \in 1..m |-> data[(Slot(writeIdx - m) + i - 1) % capacity]]

\* All
All == History(count)

-----------------------------------------------------------------------------
(* Writing                                                                 *)

Init ==
  /\ data = [i \in Slots |-> Zero]
  /\ writeIdx = 0
  /\ count = 0

\* Variant for the mutation runs: the count includes the slot that is overwritten.
AddCounting(s) ==
  /\ data' = [data EXCEPT ![writeIdx] = s]
  /\ writeIdx' = (writeIdx + 1) % capacity
  /\ count' = IF count <= capacity THEN count + 1 ELSE count

Add(s) ==
  /\ data' = [data EXCEPT ![writeIdx] = s]
  /\ writeIdx' = (writeIdx + 1) % capacity
  /\ count' = IF count < capacity THEN count + 1 ELSE count

Next == \E s \in Snapshots : Add(s)

Spec == Init /\ [][Next]_ringVars

-----------------------------------------------------------------------------
(* Properties                                                              *)

\* The type of the ring.
TypeOK ==
  /\ data \in [Slots -> Snapshots \cup {Zero}]
  /\ writeIdx \in Slots
  /\ count \in 0..capacity

\* ringbuffer.go:42, 60-63: no reader is handed a slot that was never written,
\* and the newest snapshot ends every history.
HistoriesAreWritten ==
  \A n \in 1..(capacity + 1) :
    /\ \A i \in DOMAIN History(n) : History(n)[i] \in Snapshots
    /\ count > 0 => History(n)[Len(History(n))] = Latest

Window == INSTANCE SnapshotWindow WITH window <- All

\* ringbuffer.go:22-32, 67-73: what the ring holds is the window of the last
\* capacity snapshots, through every wrap of the index.
ImplementsWindow == Window!WindowSpec
=============================================================================
