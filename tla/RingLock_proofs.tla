--------------------------- MODULE RingLock_proofs ---------------------------
(***************************************************************************)
(* For every set of goroutines, every capacity and every mix of calls: the *)
(* mutex excludes, so what a reader copies is a history of the ring as the *)
(* last writer left it, and from one writer's exit to the next the ring    *)
(* takes one step of RingBuffer.                                           *)
(*                                                                         *)
(* Neither is inductive.  What carries them is where each goroutine stands *)
(* in the lock (LockInv), how far a writer has got from the ring the last  *)
(* one left (WriteInv), and that a reader holds the lock from its first    *)
(* look at the ring to its return (ReadInv).                               *)
(***************************************************************************)
EXTENDS RingLock, TLAPS

Inner == {"store", "advance", "grow", "unlock"}
Writer == {"drain"} \cup Inner
Reading == {"length", "read", "copy", "runlock"}
Labels == {"out", "lock", "rlock", "queued"} \cup Writer \cup Reading
ReadOps == {"History", "All"}

\* Where the goroutines are.
PlaceInv ==
  /\ pc \in [Threads -> Labels]
  /\ op \in [Threads -> {"Add"} \cup ReadOps \cup {Nil}]
  /\ held \in [Threads -> Nat]
  /\ owner \in Threads \cup {Nil}
  /\ queued = {t \in Threads : pc[t] = "queued"}

\* A goroutine is a writer from its announcement to its Unlock, and inside only when no
\* reader is; a reader that looks at the ring holds the lock.
LockInv ==
  /\ PlaceInv
  /\ \A t \in Threads : pc[t] \in Writer <=> owner = t
  /\ \A t \in Threads : pc[t] \in Writer \cup {"lock"} => op[t] = "Add"
  /\ \A t \in Threads : pc[t] \in Inner => \A r \in Threads : held[r] = 0
  /\ \A t \in Threads : pc[t] \in Reading => held[t] > 0
  /\ \A t \in Threads : pc[t] \in Reading \cup {"rlock", "queued"} => op[t] \in ReadOps

-----------------------------------------------------------------------------
(* The lock                                                                *)

LEMMA InsideReads == \A t : Inside(t) \in {"length", "read"}
BY DEF Inside

LEMMA LockInitial == LockInit => LockInv
BY LockAssumption
   DEF LockInit, LockInv, PlaceInv, Labels, Writer, Inner, Reading, ReadOps

\* A goroutine that goes on by itself, the lock and the others left as they are.
LEMMA LockMove ==
  ASSUME LockInv, NEW t \in Threads, NEW label \in Labels,
         pc' = [pc EXCEPT ![t] = label], op' \in [Threads -> {"Add"} \cup ReadOps \cup {Nil}],
         \A r \in Threads \ {t} : op'[r] = op[r],
         UNCHANGED lockVars,
         pc[t] # "queued" /\ label # "queued",
         label \in Writer <=> pc[t] \in Writer,
         label \in Writer \cup {"lock"} => op'[t] = "Add",
         label \in Inner => \A r \in Threads : held[r] = 0,
         label \in Reading => held[t] > 0,
         label \in Reading \cup {"rlock"} => op'[t] \in ReadOps
  PROVE  LockInv'
<1>1. UNCHANGED <<owner, held, queued>>
  BY DEF lockVars
<1>2. PlaceInv'
  <2>1. pc' \in [Threads -> Labels]
    BY DEF LockInv, PlaceInv
  <2>2. queued = {r \in Threads : pc'[r] = "queued"}
    BY DEF LockInv, PlaceInv
  <2> QED
    BY <1>1, <2>1, <2>2 DEF LockInv, PlaceInv
<1>3. \A r \in Threads : r # t => pc'[r] = pc[r] /\ op'[r] = op[r]
  BY DEF LockInv, PlaceInv
<1>4. pc'[t] = label
  BY DEF LockInv, PlaceInv
<1> QED
  BY <1>1, <1>2, <1>3, <1>4 DEF LockInv

LEMMA LockCall ==
  ASSUME LockInv, NEW t \in Threads, Call(t)
  PROVE  LockInv'
<1>1. PICK o \in Ops[t] : op' = [op EXCEPT ![t] = o] /\ Goto(t, First(o)) /\ UNCHANGED lockVars
  BY DEF Call
<1>2. o \in {"Add"} \cup ReadOps /\ First(o) = IF o = "Add" THEN "lock" ELSE "rlock"
  BY LockAssumption DEF ReadOps, First
<1>3. pc[t] = "out" /\ pc' = [pc EXCEPT ![t] = First(o)]
  BY <1>1 DEF Call, Goto
<1>4. op' \in [Threads -> {"Add"} \cup ReadOps \cup {Nil}] /\ op'[t] = o
      /\ \A r \in Threads \ {t} : op'[r] = op[r]
  BY <1>1, <1>2 DEF LockInv, PlaceInv
<1>5. /\ "lock" \in Labels /\ "rlock" \in Labels
      /\ {"out", "lock", "rlock"} \cap (Writer \cup Reading) = {}
      /\ Inner \subseteq Writer
  BY DEF Labels, Writer, Reading, Inner
<1>6. CASE o = "Add"
  BY <1>1, <1>2, <1>3, <1>4, <1>5, <1>6, LockMove
<1>7. CASE o # "Add"
  BY <1>1, <1>2, <1>3, <1>4, <1>5, <1>7, LockMove
<1> QED
  BY <1>6, <1>7

\* The statements of the bodies.
LEMMA LockBody ==
  ASSUME LockInv, NEW t \in Threads,
         Drained(t) \/ Store(t) \/ Advance(t) \/ Grow(t) \/ Measure(t) \/ Cut(t) \/ Copy(t)
  PROVE  LockInv'
<1> DEFINE Move(from, to) == /\ pc[t] = from /\ pc' = [pc EXCEPT ![t] = to]
                             /\ UNCHANGED <<op, lockVars>>
<1>1. op \in [Threads -> {"Add"} \cup ReadOps \cup {Nil}]
  BY DEF LockInv, PlaceInv
<1>2. /\ pc[t] \in Writer => op[t] = "Add"
      /\ pc[t] \in Inner => \A r \in Threads : held[r] = 0
      /\ pc[t] \in Reading => held[t] > 0 /\ op[t] \in ReadOps
  BY DEF LockInv
<1>3. CASE Drained(t)
  <2>1. Move("drain", "store") /\ \A r \in Threads : held[r] = 0
    BY <1>3 DEF Drained, Goto
  <2> QED
    BY <1>1, <1>2, <2>1, LockMove DEF Labels, Writer, Inner, Reading
<1>4. CASE Store(t) \/ Advance(t) \/ Grow(t)
  <2>1. Move("store", "advance") \/ Move("advance", "grow") \/ Move("grow", "unlock")
    BY <1>4 DEF Store, Advance, Grow, Goto
  <2> QED
    BY <1>1, <1>2, <2>1, LockMove DEF Labels, Writer, Inner, Reading
<1>5. CASE Measure(t) \/ Cut(t) \/ Copy(t)
  <2>1. Move("length", "rlock") \/ Move("read", "copy") \/ Move("copy", "runlock")
    BY <1>5 DEF Measure, Cut, Copy, Goto
  <2> QED
    BY <1>1, <1>2, <2>1, LockMove DEF Labels, Writer, Inner, Reading
<1> QED
  BY <1>3, <1>4, <1>5

LEMMA LockAnnounce ==
  ASSUME LockInv, NEW t \in Threads, Announce(t)
  PROVE  LockInv'
<1>1. /\ pc[t] = "lock" /\ owner = Nil /\ owner' = t /\ pc' = [pc EXCEPT ![t] = "drain"]
      /\ UNCHANGED <<op, held, queued>>
  BY DEF Announce, Goto
<1>2. \A r \in Threads : r # t => pc'[r] = pc[r] /\ pc[r] \notin Writer
  BY <1>1, LockAssumption DEF LockInv, PlaceInv
<1>3. pc'[t] = "drain" /\ op[t] = "Add"
  BY <1>1 DEF LockInv, PlaceInv
<1>4. PlaceInv'
  BY <1>1 DEF LockInv, PlaceInv, Labels, Writer
<1> QED
  BY <1>1, <1>2, <1>3, <1>4 DEF LockInv, Writer, Inner, Reading

LEMMA LockRLock ==
  ASSUME LockInv, NEW t \in Threads, RLock(t)
  PROVE  LockInv'
<1>1. pc[t] = "rlock" /\ op[t] \in ReadOps /\ UNCHANGED <<op, owner>> /\ held[t] \in Nat
  BY DEF RLock, LockInv, PlaceInv
<1>2. CASE owner = Nil
  <2>1. /\ held' = [held EXCEPT ![t] = held[t] + 1] /\ pc' = [pc EXCEPT ![t] = Inside(t)]
        /\ queued' = queued /\ Inside(t) \in {"length", "read"}
    BY <1>2, InsideReads DEF RLock, Goto
  <2>2. \A r \in Threads : r # t => pc'[r] = pc[r] /\ held'[r] = held[r]
    BY <2>1 DEF LockInv, PlaceInv
  <2>3. pc'[t] \in {"length", "read"} /\ held'[t] > 0
    BY <1>1, <2>1 DEF LockInv, PlaceInv
  <2>4. \A r \in Threads : pc'[r] \notin Writer
    BY <1>2, <2>2, <2>3, LockAssumption DEF LockInv, Writer, Inner
  <2>5. PlaceInv'
    <3>1. pc' \in [Threads -> Labels] /\ held' \in [Threads -> Nat]
      BY <1>1, <2>1 DEF LockInv, PlaceInv, Labels, Reading
    <3>2. queued = {r \in Threads : pc'[r] = "queued"}
      BY <1>1, <2>2, <2>3 DEF LockInv, PlaceInv
    <3> QED
      BY <1>1, <2>1, <3>1, <3>2 DEF LockInv, PlaceInv
  <2> QED
    BY <1>1, <1>2, <2>2, <2>3, <2>4, <2>5, LockAssumption DEF LockInv, Writer
<1>3. CASE owner # Nil
  <2>1. /\ queued' = queued \cup {t} /\ pc' = [pc EXCEPT ![t] = "queued"] /\ held' = held
    BY <1>3 DEF RLock, Goto
  <2>2. \A r \in Threads : r # t => pc'[r] = pc[r]
    BY <2>1 DEF LockInv, PlaceInv
  <2>3. pc'[t] = "queued"
    BY <2>1 DEF LockInv, PlaceInv
  <2>4. PlaceInv'
    <3>1. pc' \in [Threads -> Labels]
      BY <2>1 DEF LockInv, PlaceInv, Labels
    <3>2. queued' = {r \in Threads : pc'[r] = "queued"}
      BY <2>1, <2>2, <2>3 DEF LockInv, PlaceInv
    <3> QED
      BY <1>1, <2>1, <3>1, <3>2 DEF LockInv, PlaceInv
  <2> QED
    BY <1>1, <2>1, <2>2, <2>3, <2>4 DEF LockInv, Writer, Inner, Reading
<1> QED
  BY <1>2, <1>3

LEMMA LockUnlock ==
  ASSUME LockInv, NEW t \in Threads, Unlock(t)
  PROVE  LockInv'
<1>1. /\ pc[t] = "unlock" /\ owner = t /\ owner' = Nil /\ queued' = {} /\ op' = op
      /\ \A r \in Threads : r # t => pc[r] \notin Writer
  BY DEF Unlock, LockInv, Writer, Inner
<1>2. /\ held' = [r \in Threads |-> IF r \in queued THEN held[r] + 1 ELSE held[r]]
      /\ pc' = [r \in Threads |-> IF r = t THEN "out"
                                  ELSE IF r \in queued THEN Inside(r) ELSE pc[r]]
  BY DEF Unlock
<1>3. \A r \in Threads : r \in queued <=> pc[r] = "queued"
  BY DEF LockInv, PlaceInv
<1>4. pc' \in [Threads -> Labels] /\ held' \in [Threads -> Nat]
  BY <1>2, InsideReads DEF LockInv, PlaceInv, Labels, Reading
<1>5. \A r \in Threads : pc'[r] # "queued"
  BY <1>2, <1>3, InsideReads
<1>6. PlaceInv'
  BY <1>1, <1>4, <1>5 DEF LockInv, PlaceInv
<1>7. ASSUME NEW r \in Threads
      PROVE  /\ pc'[r] \notin Writer
             /\ pc'[r] = "lock" => op[r] = "Add"
             /\ pc'[r] \in Reading => held'[r] > 0
             /\ pc'[r] \in Reading \cup {"rlock", "queued"} => op[r] \in ReadOps
  <2>1. CASE r = t
    BY <1>2, <2>1 DEF Writer, Inner, Reading
  <2>2. CASE r # t /\ pc[r] = "queued"
    <3>1. pc'[r] \in {"length", "read"} /\ held'[r] = held[r] + 1 /\ op[r] \in ReadOps
      BY <1>2, <1>3, <2>2, InsideReads DEF LockInv
    <3>2. held[r] \in Nat
      BY DEF LockInv, PlaceInv
    <3> QED
      BY <3>1, <3>2 DEF Writer, Inner
  <2>3. CASE r # t /\ pc[r] # "queued"
    <3>1. pc'[r] = pc[r] /\ held'[r] = held[r] /\ pc[r] \notin Writer
      BY <1>1, <1>2, <1>3, <2>3
    <3> QED
      BY <3>1 DEF LockInv
  <2> QED
    BY <2>1, <2>2, <2>3
<1> QED
  BY <1>1, <1>6, <1>7, LockAssumption DEF LockInv, Writer, Inner

LEMMA LockRUnlock ==
  ASSUME LockInv, NEW t \in Threads, RUnlock(t)
  PROVE  LockInv'
<1>1. /\ pc[t] = "runlock" /\ held[t] > 0 /\ held[t] \in Nat /\ op[t] \in ReadOps
      /\ held' = [held EXCEPT ![t] = held[t] - 1]
      /\ pc' = [pc EXCEPT ![t] = IF held[t] = 1 THEN "out" ELSE "runlock"]
      /\ UNCHANGED <<op, owner, queued>>
  BY DEF RUnlock, Goto, LockInv, PlaceInv, Reading
<1>2. \A r \in Threads : r # t => pc'[r] = pc[r] /\ held'[r] = held[r]
  BY <1>1 DEF LockInv, PlaceInv
<1>3. pc'[t] = "out" \/ (pc'[t] = "runlock" /\ held'[t] > 0)
  BY <1>1 DEF LockInv, PlaceInv
<1>4. pc' \in [Threads -> Labels] /\ held' \in [Threads -> Nat]
  BY <1>1 DEF LockInv, PlaceInv, Labels, Reading
<1>5. queued = {r \in Threads : pc'[r] = "queued"}
  BY <1>1, <1>2, <1>3 DEF LockInv, PlaceInv
<1>6. PlaceInv'
  BY <1>1, <1>4, <1>5 DEF LockInv, PlaceInv
<1>7. \A r \in Threads : pc[r] \notin Inner
  BY <1>1 DEF LockInv
<1> QED
  BY <1>1, <1>2, <1>3, <1>6, <1>7 DEF LockInv, Writer, Inner, Reading

LEMMA LockStep == LockInv /\ [LockNext]_vars => LockInv'
<1> SUFFICES ASSUME LockInv, [LockNext]_vars PROVE LockInv'
  OBVIOUS
<1>1. ASSUME NEW t \in Threads, Call(t) \/ Step(t) PROVE LockInv'
  BY <1>1, LockCall, LockBody, LockAnnounce, LockRLock, LockUnlock, LockRUnlock DEF Step
<1>2. CASE UNCHANGED vars
  BY <1>2 DEF vars, lockVars, LockInv, PlaceInv
<1> QED
  BY <1>1, <1>2 DEF LockNext

LEMMA LockInvariant == LockSpec => []LockInv
BY LockInitial, LockStep, PTL DEF LockSpec

\* ringbuffer.go:22-24, 35-36: while a writer is inside, no reader is and no other writer.
Exclusion ==
  \A t \in Threads : pc[t] \in Inner =>
    \A r \in Threads : pc[r] \notin Reading /\ (r # t => pc[r] \notin Inner)

\* The RWMutex of the ring excludes, whatever the goroutines and their calls, the
\* second read lock of All included.
THEOREM MutexExcludes == LockSpec => []Exclusion
<1>1. LockInv => Exclusion
  BY DEF LockInv, Exclusion, Writer
<1> QED
  BY <1>1, LockInvariant, PTL

-----------------------------------------------------------------------------
(* How far the writer has got                                              *)

DomainInv ==
  /\ DOMAIN arg = Threads /\ DOMAIN at = Threads /\ DOMAIN result = Threads
  /\ count \in Nat

ArgInv ==
  \A t \in Threads : /\ op[t] = "Add" => arg[t] \in Snapshots
                     /\ op[t] \in ReadOps => arg[t] \in Nat

\* The ring is what the last writer left, plus the statements of the one inside.
Halfway(t) ==
  /\ data = IF pc[t] = "store" THEN whole.data
            ELSE [whole.data EXCEPT ![whole.writeIdx] = arg[t]]
  /\ writeIdx = IF pc[t] \in {"store", "advance"} THEN whole.writeIdx
                ELSE (whole.writeIdx + 1) % capacity
  /\ count = IF pc[t] = "unlock" /\ whole.count < capacity THEN whole.count + 1
             ELSE whole.count

WriteInv ==
  /\ \A t \in Threads : pc[t] \in Inner => Halfway(t)
  /\ (\A t \in Threads : pc[t] \notin Inner) =>
       whole.data = data /\ whole.writeIdx = writeIdx /\ whole.count = count

ReadInv ==
  \A t \in Threads :
    /\ pc[t] = "copy" => arg[t] <= count /\ at[t] = Slot(writeIdx - arg[t])
    /\ pc[t] = "runlock" /\ result[t] # <<>> =>
         /\ arg[t] <= count
         /\ result[t] = [i \in 1..arg[t] |->
                           data[(Slot(writeIdx - arg[t]) + i - 1) % capacity]]

DataInv == DomainInv /\ ArgInv /\ WriteInv /\ ReadInv

LEMMA DataInitial == LockInit => DataInv
<1> SUFFICES ASSUME LockInit PROVE DataInv
  OBVIOUS
<1>1. DomainInv /\ ArgInv
  BY LockAssumption DEF LockInit, Init, DomainInv, ArgInv, ReadOps
<1>2. \A t \in Threads : pc[t] = "out"
  BY DEF LockInit
<1>3. WriteInv /\ ReadInv
  BY <1>2 DEF LockInit, WriteInv, ReadInv, Ring, Inner
<1> QED
  BY <1>1, <1>3 DEF DataInv

LEMMA DomainStep ==
  ASSUME DomainInv, NEW t \in Threads, Call(t) \/ Step(t)
  PROVE  DomainInv'
BY CapacityAssumption
   DEF DomainInv, Call, Step, Announce, Drained, Store, Advance, Grow, Unlock, RLock, Measure,
   Cut, Copy, RUnlock, ringVars

LEMMA ArgStep ==
  ASSUME LockInv, DomainInv, ArgInv, NEW t \in Threads, Call(t) \/ Step(t)
  PROVE  ArgInv'
<1>1. CASE Call(t)
  <2>0. PICK o \in Ops[t] :
          \E a \in Args(o) : op' = [op EXCEPT ![t] = o] /\ arg' = [arg EXCEPT ![t] = a]
    BY <1>1 DEF Call
  <2>1. PICK a \in Args(o) : op' = [op EXCEPT ![t] = o] /\ arg' = [arg EXCEPT ![t] = a]
    BY <2>0
  <2>2. (o = "Add" => a \in Snapshots) /\ (o \in ReadOps => a \in Nat)
    BY <2>1, LockAssumption DEF Args, ReadOps
  <2> QED
    BY <2>1, <2>2 DEF ArgInv, DomainInv, LockInv, PlaceInv
<1>2. CASE Measure(t) \/ Cut(t)
  <2>1. op[t] \in ReadOps /\ op[t] # "Add" /\ op' = op
    BY <1>2 DEF Measure, Cut, LockInv, Reading, ReadOps
  <2>2. arg[t] \in Nat /\ count \in Nat
    BY <2>1 DEF ArgInv, DomainInv
  <2>3. PICK a \in Nat : arg' = [arg EXCEPT ![t] = a]
    BY <1>2, <2>2 DEF Measure, Cut
  <2> QED
    BY <2>1, <2>3 DEF ArgInv, DomainInv
<1>3. CASE UNCHANGED <<op, arg>>
  BY <1>3 DEF ArgInv
<1> QED
  BY <1>1, <1>2, <1>3
     DEF Step, Announce, Drained, Store, Advance, Grow, Unlock, RLock, Copy, RUnlock

\* What no writer inside does leaves the writer and the ring where they are.
LEMMA WriteKept ==
  ASSUME WriteInv, UNCHANGED <<ringVars, whole>>,
         \A r \in Threads : pc[r] \in Inner \/ pc'[r] \in Inner =>
                              pc'[r] = pc[r] /\ arg'[r] = arg[r]
  PROVE  WriteInv'
BY DEF WriteInv, Halfway, ringVars

LEMMA WriteReaders ==
  ASSUME LockInv, DomainInv, WriteInv, NEW t \in Threads,
         Call(t) \/ Announce(t) \/ RLock(t) \/ Measure(t) \/ Cut(t) \/ Copy(t) \/ RUnlock(t)
  PROVE  WriteInv'
<1>1. /\ UNCHANGED <<ringVars, whole>>
      /\ \A r \in Threads \ {t} : arg'[r] = arg[r] /\ pc'[r] = pc[r]
  BY DEF Call, Announce, RLock, Measure, Cut, Copy, RUnlock, Goto, DomainInv, LockInv, PlaceInv
<1>2. pc[t] \notin Inner
  BY DEF Call, Announce, RLock, Measure, Cut, Copy, RUnlock, Inner
<1>3. pc'[t] \notin Inner
  BY InsideReads
     DEF Call, First, Announce, RLock, Measure, Cut, Copy, RUnlock, Goto, Inner, LockInv,
     PlaceInv
<1> QED
  BY <1>1, <1>2, <1>3, WriteKept

\* The owner is the only writer.
LEMMA OnlyWriter ==
  ASSUME LockInv, NEW t \in Threads, pc[t] \in Writer, NEW r \in Threads, r # t
  PROVE  pc[r] \notin Inner
BY DEF LockInv, Writer

LEMMA WriteBody ==
  ASSUME LockInv, DomainInv, WriteInv, NEW t \in Threads,
         Drained(t) \/ Store(t) \/ Advance(t) \/ Grow(t)
  PROVE  WriteInv'
<1>1. pc[t] \in Writer /\ UNCHANGED <<arg, whole>>
  BY DEF Drained, Store, Advance, Grow, Writer, Inner
<1>2. \A r \in Threads : r # t => pc[r] \notin Inner /\ pc'[r] \notin Inner
  <2>1. \A r \in Threads : r # t => pc'[r] = pc[r]
    BY DEF Drained, Store, Advance, Grow, Goto, LockInv, PlaceInv
  <2> QED
    BY <1>1, <2>1, OnlyWriter
<1>3. pc'[t] \in Inner
  BY DEF Drained, Store, Advance, Grow, Goto, Inner, LockInv, PlaceInv
<1>4. CASE Drained(t)
  <2>1. pc[t] = "drain" /\ pc'[t] = "store" /\ UNCHANGED ringVars
    BY <1>4 DEF Drained, Goto, LockInv, PlaceInv
  <2>2. whole.data = data /\ whole.writeIdx = writeIdx /\ whole.count = count
    BY <1>2, <2>1 DEF WriteInv, Inner
  <2>3. Halfway(t)'
    BY <1>1, <2>1, <2>2 DEF Halfway, ringVars
  <2> QED
    BY <1>2, <1>3, <2>3 DEF WriteInv
<1>5. CASE Store(t)
  <2>1. /\ pc[t] = "store" /\ pc'[t] = "advance" /\ UNCHANGED <<writeIdx, count>>
        /\ data' = [data EXCEPT ![writeIdx] = arg[t]]
    BY <1>5 DEF Store, Goto, LockInv, PlaceInv
  <2>2. Halfway(t)
    BY <2>1 DEF WriteInv, Inner
  <2>3. Halfway(t)'
    BY <1>1, <2>1, <2>2 DEF Halfway
  <2> QED
    BY <1>2, <1>3, <2>3 DEF WriteInv
<1>6. CASE Advance(t)
  <2>1. /\ pc[t] = "advance" /\ pc'[t] = "grow" /\ UNCHANGED <<data, count>>
        /\ writeIdx' = (writeIdx + 1) % capacity
    BY <1>6 DEF Advance, Goto, LockInv, PlaceInv
  <2>2. Halfway(t)
    BY <2>1 DEF WriteInv, Inner
  <2>3. Halfway(t)'
    BY <1>1, <2>1, <2>2 DEF Halfway
  <2> QED
    BY <1>2, <1>3, <2>3 DEF WriteInv
<1>7. CASE Grow(t)
  <2>1. /\ pc[t] = "grow" /\ pc'[t] = "unlock" /\ UNCHANGED <<data, writeIdx>>
        /\ count' = IF count < capacity THEN count + 1 ELSE count
    BY <1>7 DEF Grow, Goto, LockInv, PlaceInv
  <2>2. Halfway(t)
    BY <2>1 DEF WriteInv, Inner
  <2>3. Halfway(t)'
    BY <1>1, <2>1, <2>2 DEF Halfway
  <2> QED
    BY <1>2, <1>3, <2>3 DEF WriteInv
<1> QED
  BY <1>4, <1>5, <1>6, <1>7

LEMMA WriteUnlock ==
  ASSUME LockInv, LockInv', WriteInv, NEW t \in Threads, Unlock(t)
  PROVE  WriteInv'
<1>1. UNCHANGED ringVars /\ whole' = Ring
  BY DEF Unlock
<1>2. \A r \in Threads : pc'[r] \notin Inner
  <2>1. pc[t] \in Writer /\ owner' = Nil
    BY DEF Unlock, Writer, Inner
  <2> QED
    BY <2>1, LockAssumption DEF LockInv, Writer
<1> QED
  BY <1>1, <1>2 DEF WriteInv, Ring, ringVars

LEMMA WriteStep ==
  ASSUME LockInv, LockInv', DomainInv, WriteInv, NEW t \in Threads, Call(t) \/ Step(t)
  PROVE  WriteInv'
BY WriteReaders, WriteBody, WriteUnlock DEF Step

-----------------------------------------------------------------------------
(* What the readers see                                                    *)

\* Nobody writes while a reader looks.
LEMMA RingStands ==
  ASSUME LockInv, NEW t \in Threads, Call(t) \/ Step(t), NEW r \in Threads, pc[r] \in Reading
  PROVE  UNCHANGED ringVars
<1>1. pc[t] \notin Inner
  BY DEF LockInv
<1> QED
  BY <1>1 DEF Call, Step, Announce, Drained, Store, Advance, Grow, Unlock, RLock, Measure,
     Cut, Copy, RUnlock, Inner

LEMMA ReadStep ==
  ASSUME LockInv, LockInv', DomainInv, ArgInv, ReadInv, NEW t \in Threads, Call(t) \/ Step(t)
  PROVE  ReadInv'
<1> SUFFICES ASSUME NEW r \in Threads
             PROVE  /\ pc'[r] = "copy" =>
                         arg'[r] <= count' /\ at'[r] = Slot(writeIdx' - arg'[r])
                    /\ pc'[r] = "runlock" /\ result'[r] # <<>> =>
                         /\ arg'[r] <= count'
                         /\ result'[r] = [i \in 1..arg'[r] |->
                              data'[(Slot(writeIdx' - arg'[r]) + i - 1) % capacity]]
  BY DEF ReadInv, Slot
<1>1. CASE r # t
  <2>1. arg'[r] = arg[r] /\ at'[r] = at[r] /\ result'[r] = result[r]
    BY <1>1 DEF DomainInv, Call, Step, Announce, Drained, Store, Advance, Grow, Unlock, RLock,
       Measure, Cut, Copy, RUnlock
  <2>2. pc'[r] \in {"copy", "runlock"} => pc'[r] = pc[r]
    <3>1. CASE Unlock(t)
      BY <1>1, <3>1, InsideReads DEF Unlock
    <3>2. CASE ~Unlock(t)
      BY <1>1, <3>2
         DEF LockInv, PlaceInv, Call, Step, Announce, Drained, Store, Advance, Grow, RLock,
         Measure, Cut, Copy, RUnlock, Goto
    <3> QED
      BY <3>1, <3>2
  <2>3. pc[r] \in {"copy", "runlock"} => UNCHANGED <<data, writeIdx, count>>
    BY RingStands DEF Reading, ringVars
  <2> QED
    BY <2>1, <2>2, <2>3 DEF ReadInv
<1>2. CASE r = t /\ Cut(t)
  <2>1. PICK m : /\ m = IF arg[t] > count THEN count ELSE arg[t]
                 /\ arg'[t] = m /\ at'[t] = Slot(writeIdx - m)
                 /\ pc'[t] = "copy" /\ UNCHANGED <<data, writeIdx, count>>
    BY <1>2 DEF Cut, Goto, DomainInv, LockInv, PlaceInv, ringVars
  <2>2. arg[t] \in Nat /\ count \in Nat
    BY <1>2 DEF Cut, LockInv, Reading, ArgInv, DomainInv
  <2> QED
    BY <1>2, <2>1, <2>2
<1>3. CASE r = t /\ Copy(t)
  <2>1. /\ pc[t] = "copy" /\ pc'[t] = "runlock" /\ UNCHANGED <<arg, data, writeIdx, count>>
        /\ result'[t] = [i \in 1..arg[t] |-> data[(at[t] + i - 1) % capacity]]
    BY <1>3 DEF Copy, Goto, DomainInv, LockInv, PlaceInv, ringVars
  <2>2. arg[t] <= count /\ at[t] = Slot(writeIdx - arg[t])
    BY <2>1 DEF ReadInv
  <2> QED
    BY <1>3, <2>1, <2>2
<1>4. CASE r = t /\ RUnlock(t)
  <2>1. result'[t] = <<>> /\ pc'[t] # "copy"
    BY <1>4 DEF RUnlock, Goto, DomainInv, LockInv, PlaceInv
  <2> QED
    BY <1>4, <2>1
<1>5. CASE r = t /\ ~Cut(t) /\ ~Copy(t) /\ ~RUnlock(t)
  <2>1. pc'[t] \notin {"copy", "runlock"}
    BY <1>5, InsideReads
       DEF LockInv, PlaceInv, Call, First, Step, Announce, Drained, Store, Advance, Grow,
       Unlock, RLock, Measure, Goto
  <2> QED
    BY <1>5, <2>1
<1> QED
  BY <1>1, <1>2, <1>3, <1>4, <1>5

LEMMA DataStep == LockInv /\ LockInv' /\ DataInv /\ [LockNext]_vars => DataInv'
<1> SUFFICES ASSUME LockInv, LockInv', DataInv, [LockNext]_vars PROVE DataInv'
  OBVIOUS
<1>1. ASSUME NEW t \in Threads, Call(t) \/ Step(t) PROVE DataInv'
  BY <1>1, DomainStep, ArgStep, WriteStep, ReadStep DEF DataInv
<1>2. CASE UNCHANGED vars
  BY <1>2 DEF vars, ringVars, DataInv, DomainInv, ArgInv, WriteInv, Halfway, ReadInv, Slot
<1> QED
  BY <1>1, <1>2 DEF LockNext

LEMMA DataInvariant == LockSpec => []DataInv
<1>1. LockInit => DataInv
  BY DataInitial
<1>2. LockInv /\ LockInv' /\ DataInv /\ [LockNext]_vars => DataInv'
  BY DataStep
<1> QED
  BY <1>1, <1>2, LockInvariant, PTL DEF LockSpec

LEMMA CopiesAreWhole == LockInv /\ DataInv => ReadsAreWhole
<1> SUFFICES ASSUME LockInv, DataInv, NEW t \in Threads, pc[t] = "runlock", result[t] # <<>>
             PROVE  result[t] = Then!History(arg[t])
  BY DEF ReadsAreWhole
<1>1. \A r \in Threads : pc[r] \notin Inner
  BY DEF LockInv, Reading
<1>2. whole.data = data /\ whole.writeIdx = writeIdx /\ whole.count = count
  BY <1>1 DEF DataInv, WriteInv
<1>3. /\ arg[t] <= count
      /\ result[t] = [i \in 1..arg[t] |->
                        data[(Slot(writeIdx - arg[t]) + i - 1) % capacity]]
  BY DEF DataInv, ReadInv
<1>4. arg[t] \in Nat /\ count \in Nat
  BY DEF DataInv, ArgInv, DomainInv, LockInv, Reading
<1>5. ~(arg[t] > whole.count)
  BY <1>2, <1>3, <1>4
<1> QED
  BY <1>2, <1>3, <1>5 DEF Then!History, Then!Slot, Slot

\* ringbuffer.go:34-65: what a reader copies, under every interleaving of any number of
\* goroutines, is a history of the ring as the last writer left it.
THEOREM ReadersSeeWholeRings == LockSpec => []ReadsAreWhole
BY CopiesAreWhole, LockInvariant, DataInvariant, PTL

-----------------------------------------------------------------------------
(* The methods are atomic                                                  *)

LEMMA UnlockAdds ==
  ASSUME LockInv, DataInv, NEW t \in Threads, Unlock(t)
  PROVE  Then!Next
<1>1. pc[t] = "unlock" /\ whole' = Ring
  BY DEF Unlock
<1>2. Halfway(t) /\ arg[t] \in Snapshots
  BY <1>1 DEF DataInv, WriteInv, ArgInv, LockInv, Inner, Writer
<1>3. Then!Add(arg[t])
  BY <1>1, <1>2 DEF Halfway, Ring, Then!Add
<1> QED
  BY <1>2, <1>3 DEF Then!Next

\* ringbuffer.go:22-32: seen from one writer's exit to the next, the ring takes exactly
\* one step of RingBuffer: what RingBuffer says of one goroutine holds of any number.
THEOREM AddsAtomic == LockSpec => AddsAreAtomic
<1>1. LockInit => Then!Init
  BY DEF LockInit, Init, Ring, Slots, Then!Init, Then!Slots
<1>2. LockInv /\ DataInv /\ [LockNext]_vars => [Then!Next]_(Then!ringVars)
  <2> SUFFICES ASSUME LockInv, DataInv, [LockNext]_vars
               PROVE  Then!Next \/ UNCHANGED whole
    BY DEF Then!ringVars
  <2>1. ASSUME NEW t \in Threads, Call(t) \/ Step(t) PROVE Then!Next \/ UNCHANGED whole
    <3>1. Unlock(t) \/ UNCHANGED whole
      BY <2>1 DEF Call, Step, Announce, Drained, Store, Advance, Grow, RLock, Measure, Cut,
         Copy, RUnlock
    <3> QED
      BY <3>1, UnlockAdds
  <2> QED
    BY <2>1 DEF LockNext, vars
<1> QED
  BY <1>1, <1>2, LockInvariant, DataInvariant, PTL DEF LockSpec, AddsAreAtomic, Then!Spec
=============================================================================
