----------------------------- MODULE MCRingLock -----------------------------
(* Instances of RingLock: goroutines that add and one that reads. *)
EXTENDS RingLock

CONSTANTS adder1, adder2, reader1

\* Two that add and one that reads, by History or by All.
MCThreads == {adder1, adder2, reader1}
MCOps == [t \in MCThreads |-> IF t = reader1 THEN {"History", "All"} ELSE {"Add"}]
=============================================================================
