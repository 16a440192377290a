\* Two goroutines that add and one that reads, All included; a ring of two slots.
SPECIFICATION FairLockSpec
CONSTANTS
  Snapshots = {s1, s2}
  Zero = Zero
  capacity = 2
  adder1 = adder1
  adder2 = adder2
  reader1 = reader1
  Threads <- MCThreads
  Ops <- MCOps
  Lengths = {1, 3}
  Nil = Nil
INVARIANT
  ReadsAreWhole
PROPERTIES
  AddsAreAtomic
  OnlyAllBlocks
\* The two locks of All and a waiting writer wait for each other.
CHECK_DEADLOCK FALSE
