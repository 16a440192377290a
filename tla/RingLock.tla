------------------------------ MODULE RingLock ------------------------------
(***************************************************************************)
(* The methods of the ring (internal/metrics/ringbuffer.go) statement by   *)
(* statement under their RWMutex, called by several goroutines.  This is   *)
(* what lets RingBuffer.tla take each method as one step.                  *)
(*                                                                         *)
(* The mutex is Go's sync.RWMutex: a writer that has announced itself is   *)
(* ahead of every reader that comes later, and when it leaves, the readers *)
(* that queued meanwhile all enter before the next writer.                 *)
(***************************************************************************)
EXTENDS RingBuffer

CONSTANTS Threads,
          Ops,      \* thread -> the methods it calls
          Lengths,  \* what History is asked for; Latest reads as History(1)
          Nil

\* A History of a negative length panics in make: no caller asks for one.
ASSUME LockAssumption ==
  /\ Nil \notin Threads \cup {"Add", "History", "All"}
  /\ Ops \in [Threads -> SUBSET {"Add", "History", "All"}]
  /\ Lengths \subseteq Nat

VARIABLES
  pc,       \* thread -> the statement it is at
  op,       \* thread -> the method it is in
  arg,      \* thread -> the snapshot to add, or the length asked for
  at,       \* thread -> the slot a reader starts from
  result,   \* thread -> what a reader has copied
  owner,    \* the writer that announced itself, or Nil
  held,     \* thread -> read locks it holds
  queued,   \* readers that wait for the writer to leave
  whole     \* history: the fields of the ring when a writer last left

lockVars == <<owner, held, queued>>
vars == <<ringVars, pc, op, arg, at, result, lockVars, whole>>

Ring == [data |-> data, writeIdx |-> writeIdx, count |-> count]

Goto(t, label) == pc' = [pc EXCEPT ![t] = label]

-----------------------------------------------------------------------------
(* Entering a method                                                       *)

\* Variants for the mutation runs: Add, or the readers, without the lock.
FirstAddBare(o) == IF o = "Add" THEN "store" ELSE "rlock"
FirstReadBare(o) == IF o = "Add" THEN "lock" ELSE "read"

\* The first statement of a method.
First(o) == IF o = "Add" THEN "lock" ELSE "rlock"

Args(o) == CASE o = "Add"     -> Snapshots
             [] o = "History" -> Lengths
             [] o = "All"     -> {0}

Call(t) ==
  /\ pc[t] = "out"
  /\ \E o \in Ops[t] : \E a \in Args(o) :
       /\ op' = [op EXCEPT ![t] = o]
       /\ arg' = [arg EXCEPT ![t] = a]
       /\ Goto(t, First(o))
  /\ UNCHANGED <<ringVars, at, result, lockVars, whole>>

-----------------------------------------------------------------------------
(* The mutex                                                               *)

\* Lock, first half: one writer at a time announces itself.
Announce(t) ==
  /\ pc[t] = "lock"
  /\ owner = Nil
  /\ owner' = t
  /\ Goto(t, "drain")
  /\ UNCHANGED <<ringVars, op, arg, at, result, held, queued, whole>>

\* Lock, second half: it enters when the last reader has left.
Drained(t) ==
  /\ pc[t] = "drain"
  /\ \A r \in Threads : held[r] = 0
  /\ Goto(t, "store")
  /\ UNCHANGED <<ringVars, op, arg, at, result, lockVars, whole>>

\* Where a reader goes with the lock: All evaluates rb.count before it calls
\* History, which locks again.
Inside(t) == IF op[t] = "All" /\ held[t] = 0 THEN "length" ELSE "read"

RLock(t) ==
  /\ pc[t] = "rlock"
  /\ IF owner = Nil
     THEN /\ held' = [held EXCEPT ![t] = @ + 1]
          /\ Goto(t, Inside(t))
          /\ UNCHANGED queued
     ELSE /\ queued' = queued \cup {t}
          /\ Goto(t, "queued")
          /\ UNCHANGED held
  /\ UNCHANGED <<ringVars, op, arg, at, result, owner, whole>>

Unlock(t) ==
  /\ pc[t] = "unlock"
  /\ owner' = Nil
  /\ held' = [r \in Threads |-> IF r \in queued THEN held[r] + 1 ELSE held[r]]
  /\ queued' = {}
  /\ pc' = [r \in Threads |-> IF r = t THEN "out"
                              ELSE IF r \in queued THEN Inside(r) ELSE pc[r]]
  /\ whole' = Ring
  /\ UNCHANGED <<ringVars, op, arg, at, result>>

\* Variant for the mutation runs: the reader returns without the deferred RUnlock.
RUnlockForgotten(t) ==
  /\ pc[t] = "runlock"
  /\ Goto(t, "out")
  /\ result' = [result EXCEPT ![t] = <<>>]
  /\ UNCHANGED <<ringVars, op, arg, at, lockVars, whole>>

\* The deferred RUnlock; in All there are two of them.
RUnlock(t) ==
  /\ pc[t] = "runlock"
  /\ held' = [held EXCEPT ![t] = @ - 1]
  /\ Goto(t, IF held[t] = 1 THEN "out" ELSE "runlock")
  /\ result' = [result EXCEPT ![t] = <<>>]
  /\ UNCHANGED <<ringVars, op, arg, at, owner, queued, whole>>

-----------------------------------------------------------------------------
(* The bodies                                                              *)

\* Add: the slot ...
Store(t) ==
  /\ pc[t] = "store"
  /\ data' = [data EXCEPT ![writeIdx] = arg[t]]
  /\ Goto(t, "advance")
  /\ UNCHANGED <<writeIdx, count, op, arg, at, result, lockVars, whole>>

\* ... the index ...
Advance(t) ==
  /\ pc[t] = "advance"
  /\ writeIdx' = (writeIdx + 1) % capacity
  /\ Goto(t, "grow")
  /\ UNCHANGED <<data, count, op, arg, at, result, lockVars, whole>>

\* ... and the count.
Grow(t) ==
  /\ pc[t] = "grow"
  /\ count' = IF count < capacity THEN count + 1 ELSE count
  /\ Goto(t, "unlock")
  /\ UNCHANGED <<data, writeIdx, op, arg, at, result, lockVars, whole>>

\* All: the argument of its call of History.
Measure(t) ==
  /\ pc[t] = "length"
  /\ arg' = [arg EXCEPT ![t] = count]
  /\ Goto(t, "rlock")
  /\ UNCHANGED <<ringVars, op, at, result, lockVars, whole>>

\* History and Latest: the length is cut to the count, the start computed ...
Cut(t) ==
  /\ pc[t] = "read"
  /\ LET m == IF arg[t] > count THEN count ELSE arg[t]
     IN /\ arg' = [arg EXCEPT ![t] = m]
        /\ at' = [at EXCEPT ![t] = Slot(writeIdx - m)]
  /\ Goto(t, "copy")
  /\ UNCHANGED <<ringVars, op, result, lockVars, whole>>

\* ... and the slots copied.
Copy(t) ==
  /\ pc[t] = "copy"
  /\ result' = [result EXCEPT ![t] =
                  [i \in 1..arg[t] |-> data[(at[t] + i - 1) % capacity]]]
  /\ Goto(t, "runlock")
  /\ UNCHANGED <<ringVars, op, arg, at, lockVars, whole>>

-----------------------------------------------------------------------------
(* Specification                                                           *)

LockInit ==
  /\ Init
  /\ pc = [t \in Threads |-> "out"]
  /\ op = [t \in Threads |-> Nil]
  /\ arg = [t \in Threads |-> 0]
  /\ at = [t \in Threads |-> 0]
  /\ result = [t \in Threads |-> <<>>]
  /\ owner = Nil
  /\ held = [t \in Threads |-> 0]
  /\ queued = {}
  /\ whole = Ring

Step(t) ==
  \/ Announce(t) \/ Drained(t) \/ Store(t) \/ Advance(t) \/ Grow(t) \/ Unlock(t)
  \/ RLock(t) \/ Measure(t) \/ Cut(t) \/ Copy(t) \/ RUnlock(t)

LockNext == \E t \in Threads : Call(t) \/ Step(t)

LockSpec == LockInit /\ [][LockNext]_vars

\* A goroutine in a method keeps being scheduled, and a writer is not overtaken
\* for ever (the starvation mode of Go's Mutex).  None of them has to call.
FairLockSpec == LockSpec /\ \A t \in Threads : SF_vars(Step(t))

-----------------------------------------------------------------------------
(* Properties                                                              *)

\* ringbuffer.go:34-65: what a reader copies is a history of the ring as the last
\* writer left it, never of a ring with an addition half done.
Then == INSTANCE RingBuffer
          WITH data <- whole.data, writeIdx <- whole.writeIdx, count <- whole.count
ReadsAreWhole ==
  \A t \in Threads :
    pc[t] = "runlock" /\ result[t] # <<>> => result[t] = Then!History(arg[t])

\* ringbuffer.go:22-32: between the exits of two writers the ring takes exactly one
\* step of RingBuffer: no addition is lost or mixed with another.
AddsAreAtomic == Then!Spec

\* A method that was called returns.
CallsReturn == \A t \in Threads : pc[t] # "out" ~> pc[t] = "out"

\* All's second lock waits for a writer that waits for All's first.
AllBlocksItself ==
  \E t \in Threads :
    op[t] = "All" /\ held[t] = 1 /\ pc[t] = "queued" /\ pc[owner] = "drain"

\* ringbuffer.go:5 (thread-safe), 67-73: every call returns, however many goroutines add and
\* read, unless the ring ends in the one deadlock that it has, the two locks of All with
\* a writer in between.
OnlyAllBlocks == CallsReturn \/ <>[]AllBlocksItself
=============================================================================
