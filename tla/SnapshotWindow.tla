--------------------------- MODULE SnapshotWindow ---------------------------
(***************************************************************************)
(* What the collector's buffer promises its readers: the last capacity     *)
(* snapshots, oldest first, and nothing else.                              *)
(***************************************************************************)
EXTENDS Naturals, Sequences

CONSTANTS Snapshots, capacity

VARIABLE window

WindowInit == window = <<>>

\* A snapshot enters at the end; when there is no room the oldest one leaves.
Slide(s) ==
  window' = IF Len(window) < capacity THEN Append(window, s)
                                      ELSE Append(Tail(window), s)

WindowNext == \E s \in Snapshots : Slide(s)

WindowSpec == WindowInit /\ [][WindowNext]_window
=============================================================================
