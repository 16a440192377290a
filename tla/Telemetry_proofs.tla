-------------------------- MODULE Telemetry_proofs --------------------------
(***************************************************************************)
(* From the ring to the chart, for every capacity, every set of snapshots  *)
(* and every width of the counters: the ring keeps its type and is the     *)
(* window of the last capacity snapshots, by itself and as the collector   *)
(* fills it; no reader is handed a slot that was never written; the chart  *)
(* is the end of the window; and a rate is what the link carried.          *)
(*                                                                         *)
(* The type is not inductive for the refinement: while the ring is filling *)
(* the index must also be the count, or the first slot would not be the    *)
(* oldest.  A rate needs what the counter has done since it was read last  *)
(* (CounterInv).                                                           *)
(***************************************************************************)
EXTENDS Telemetry, SequenceTheorems, WellFoundedInduction, TLAPS

-----------------------------------------------------------------------------
(* The index arithmetic                                                    *)

\* A remainder by the capacity is a slot.
LEMMA ModIsSlot ==
  \A a \in Int : a % capacity \in Slots
BY CapacityAssumption, SMT DEF Slots

\* Below two capacities the remainder takes away at most one of them.
LEMMA ModWraps ==
  /\ \A a \in 0..(capacity - 1) : a % capacity = a
  /\ \A a \in capacity..(2 * capacity - 1) : a % capacity = a - capacity
BY CapacityAssumption, SMT

-----------------------------------------------------------------------------
(* Type correctness                                                        *)

\* While the ring is filling, the next slot to write is the first one not written;
\* every slot before the count holds a snapshot.
Filling == count < capacity => writeIdx = count
Written == \A i \in Slots : i < count => data[i] \in Snapshots

IInv == TypeOK /\ Filling /\ Written

LEMMA InitEstablishes == Init => IInv
BY CapacityAssumption, SMT DEF Init, IInv, TypeOK, Filling, Written, Slots

LEMMA AddPreserves == ASSUME IInv, NEW s \in Snapshots, Add(s) PROVE IInv'
<1>1. data' \in [Slots -> Snapshots \cup {Zero}]
  BY DEF IInv, TypeOK, Add
<1>2. writeIdx' \in Slots
  BY ModIsSlot, SMT DEF IInv, TypeOK, Add, Slots
<1>3. count' \in 0..capacity
  BY CapacityAssumption, SMT DEF IInv, TypeOK, Add
<1>4. Filling'
  BY CapacityAssumption, ModWraps, SMT DEF IInv, TypeOK, Filling, Add, Slots
<1>5. Written'
  BY CapacityAssumption, SMT DEF IInv, TypeOK, Filling, Written, Add, Slots
<1> QED BY <1>1, <1>2, <1>3, <1>4, <1>5 DEF IInv, TypeOK

LEMMA Inductive == Spec => []IInv
<1>1. Init => IInv
  BY InitEstablishes
<1>2. IInv /\ [Next]_ringVars => IInv'
  <2> SUFFICES ASSUME IInv, [Next]_ringVars PROVE IInv'
    OBVIOUS
  <2>1. CASE Next
    BY <2>1, AddPreserves DEF Next
  <2>2. CASE UNCHANGED ringVars
    BY <2>2 DEF IInv, TypeOK, Filling, Written, ringVars, Slots
  <2> QED BY <2>1, <2>2
<1> QED BY <1>1, <1>2, PTL DEF Spec

\* ringbuffer.go:5-12: the index stays a slot and the count within the capacity.
THEOREM TypeCorrect == Spec => []TypeOK
<1>1. IInv => TypeOK
  BY DEF IInv
<1> QED BY <1>1, Inductive, PTL

-----------------------------------------------------------------------------
(* What the readers are given                                              *)

\* The slot a history of m of the stored snapshots takes its i-th from.
LEMMA HistorySlot ==
  ASSUME IInv, NEW m \in 0..count, NEW i \in 1..m
  PROVE  /\ (Slot(writeIdx - m) + i - 1) % capacity \in Slots
         /\ (Slot(writeIdx - m) + i - 1) % capacity =
              IF writeIdx - m + i - 1 >= 0 THEN writeIdx - m + i - 1
                                           ELSE writeIdx - m + i - 1 + capacity
<1>1. /\ writeIdx - m + capacity \in 0..(2 * capacity - 1)
      /\ Slot(writeIdx - m) = (writeIdx - m + capacity) % capacity
  BY CapacityAssumption, SMT DEF IInv, TypeOK, Slots, Slot
<1>2. Slot(writeIdx - m) = IF writeIdx - m >= 0 THEN writeIdx - m
                                                ELSE writeIdx - m + capacity
  BY <1>1, CapacityAssumption, ModWraps, SMT DEF IInv, TypeOK, Slots
<1>3. Slot(writeIdx - m) + i - 1 \in 0..(2 * capacity - 1)
  BY <1>2, CapacityAssumption, SMT DEF IInv, TypeOK, Slots
<1> DEFINE a == Slot(writeIdx - m) + i - 1
<1>4. a % capacity = IF a < capacity THEN a ELSE a - capacity
  <2> HIDE DEF a
  <2>1. a \in 0..(2 * capacity - 1)
    BY <1>3 DEF a
  <2> QED BY <2>1, CapacityAssumption, ModWraps, SMT
<1>5. a % capacity \in Slots
  BY <1>3, ModIsSlot
<1> QED BY <1>2, <1>4, <1>5, CapacityAssumption, SMT DEF IInv, TypeOK, Slots

LEMMA HistoriesWritten == IInv => HistoriesAreWritten
<1> SUFFICES ASSUME IInv, NEW n \in 1..(capacity + 1)
             PROVE  /\ \A i \in DOMAIN History(n) : History(n)[i] \in Snapshots
                    /\ count > 0 => History(n)[Len(History(n))] = Latest
  BY DEF HistoriesAreWritten
<1> DEFINE m == IF n > count THEN count ELSE n
           h == [i \in 1..m |-> data[(Slot(writeIdx - m) + i - 1) % capacity]]
<1>1. History(n) = h
  BY DEF History
<1>2. m \in 0..count /\ (count > 0 => m > 0)
  BY CapacityAssumption, SMT DEF IInv, TypeOK
<1>3. ASSUME NEW i \in 1..m PROVE h[i] \in Snapshots
  <2> DEFINE x == (Slot(writeIdx - m) + i - 1) % capacity
  <2> HIDE DEF m
  <2>1. x \in Slots /\ x = IF writeIdx - m + i - 1 >= 0 THEN writeIdx - m + i - 1
                                           ELSE writeIdx - m + i - 1 + capacity
    BY <1>2, HistorySlot
  <2>2. x < count
    <3> HIDE DEF x
    <3> QED BY <1>2, <2>1, CapacityAssumption, SMT DEF IInv, TypeOK, Filling, Slots
  <2>3. h[i] = data[x]
    OBVIOUS
  <2> QED BY <2>1, <2>2, <2>3 DEF IInv, Written
<1>4. ASSUME count > 0 PROVE h[Len(h)] = Latest
  <2> HIDE DEF m
  <2>1. m \in 1..m /\ Len(h) = m
    BY <1>2, <1>4, SMT DEF IInv, TypeOK
  <2>2. (Slot(writeIdx - m) + m - 1) % capacity =
          IF writeIdx - 1 >= 0 THEN writeIdx - 1 ELSE writeIdx - 1 + capacity
    BY <1>2, <2>1, HistorySlot, CapacityAssumption, SMT DEF IInv, TypeOK, Slots
  <2>3. Slot(writeIdx - 1) = IF writeIdx - 1 >= 0 THEN writeIdx - 1
                                                  ELSE writeIdx - 1 + capacity
    BY CapacityAssumption, ModWraps, SMT DEF IInv, TypeOK, Slots, Slot
  <2> QED BY <2>1, <2>2, <2>3, <1>4, SMT DEF Latest, IInv, TypeOK
<1>5. DOMAIN h = 1..m
  OBVIOUS
<1> QED BY <1>1, <1>3, <1>4, <1>5

\* ringbuffer.go:42, 60-63: no reader, whatever the capacity, is handed a slot that
\* was never written, and the newest snapshot ends every history.
THEOREM ReadersSeeSnapshots == Spec => []HistoriesAreWritten
BY HistoriesWritten, Inductive, PTL

-----------------------------------------------------------------------------
(* The ring is the window                                                  *)

\* Everything stored, slot by slot.
SlotBySlot ==
  /\ All \in Seq(Snapshots \cup {Zero}) /\ Len(All) = count
  /\ \A i \in 1..count :
       All[i] = data[IF count < capacity \/ writeIdx + i - 1 >= capacity
                     THEN writeIdx + i - 1 - count ELSE writeIdx + i - 1]

LEMMA AllSlots == IInv => SlotBySlot
<1> SUFFICES ASSUME IInv PROVE SlotBySlot
  OBVIOUS
<1>1. All = [i \in 1..count |-> data[(Slot(writeIdx - count) + i - 1) % capacity]]
  BY SMT DEF All, History, IInv, TypeOK
<1>2. count \in Nat /\ count \in 0..count
  BY CapacityAssumption, SMT DEF IInv, TypeOK
<1>3. ASSUME NEW i \in 1..count
      PROVE  /\ (Slot(writeIdx - count) + i - 1) % capacity \in Slots
             /\ (Slot(writeIdx - count) + i - 1) % capacity =
                  IF count < capacity \/ writeIdx + i - 1 >= capacity
                  THEN writeIdx + i - 1 - count ELSE writeIdx + i - 1
  <2> DEFINE x == (Slot(writeIdx - count) + i - 1) % capacity
  <2>1. x \in Slots /\ x = IF writeIdx - count + i - 1 >= 0 THEN writeIdx - count + i - 1
                                           ELSE writeIdx - count + i - 1 + capacity
    BY <1>2, HistorySlot
  <2> HIDE DEF x
  <2>2. x = IF count < capacity \/ writeIdx + i - 1 >= capacity
            THEN writeIdx + i - 1 - count ELSE writeIdx + i - 1
    BY <1>2, <2>1, CapacityAssumption, SMT DEF IInv, TypeOK, Filling, Slots
  <2> QED BY <2>1, <2>2 DEF x
<1>4. \A i \in 1..count :
        data[(Slot(writeIdx - count) + i - 1) % capacity] \in Snapshots \cup {Zero}
  BY <1>3 DEF IInv, TypeOK
<1>5. All \in Seq(Snapshots \cup {Zero}) /\ Len(All) = count
  BY <1>1, <1>2, <1>4, SMT
<1> QED BY <1>1, <1>3, <1>5 DEF SlotBySlot

LEMMA AddSlides ==
  ASSUME IInv, NEW s \in Snapshots, Add(s)
  PROVE  All' = IF Len(All) < capacity THEN Append(All, s) ELSE Append(Tail(All), s)
<1> DEFINE S == Snapshots \cup {Zero}
           w == IF Len(All) < capacity THEN Append(All, s) ELSE Append(Tail(All), s)
<1>1. IInv'
  BY AddPreserves
<1>2. /\ All \in Seq(S) /\ Len(All) = count
      /\ \A i \in 1..count :
           All[i] = data[IF count < capacity \/ writeIdx + i - 1 >= capacity
                         THEN writeIdx + i - 1 - count ELSE writeIdx + i - 1]
  BY AllSlots DEF SlotBySlot
<1>3. /\ All' \in Seq(S) /\ Len(All') = count'
      /\ \A i \in 1..count' :
           All'[i] = data'[IF count' < capacity \/ writeIdx' + i - 1 >= capacity
                           THEN writeIdx' + i - 1 - count' ELSE writeIdx' + i - 1]
  <2>1. SlotBySlot'
    BY <1>1, AllSlots, PTL
  <2> QED BY <2>1 DEF SlotBySlot
<1> HIDE DEF S
<1>4. s \in S
  BY DEF S
<1>5. CASE count < capacity
  <2>1. /\ writeIdx = count /\ count' = count + 1 /\ count \in Nat
        /\ IF count + 1 < capacity THEN writeIdx' = count + 1
                                   ELSE writeIdx' = 0 /\ count + 1 = capacity
    BY <1>5, CapacityAssumption, ModWraps, SMT DEF IInv, TypeOK, Filling, Add, Slots
  <2>2. w = Append(All, s) /\ w \in Seq(S) /\ Len(w) = count + 1
    BY <1>2, <1>4, <1>5, AppendProperties
  <2>3. ASSUME NEW i \in 1..(count + 1) PROVE All'[i] = w[i]
    <3>1. All'[i] = data'[i - 1]
      BY <1>3, <2>1, <1>5, CapacityAssumption, SMT
    <3>2. CASE i = count + 1
      <4>1. data'[count] = s
        BY <2>1 DEF Add, IInv, TypeOK
      <4>2. i - 1 = count
        BY <3>2, <2>1, SMT
      <4> QED BY <3>1, <3>2, <4>1, <4>2, <1>2, <1>4, <2>2, AppendProperties
    <3>3. CASE i # count + 1
      <4>1. i \in 1..count /\ i - 1 \in Slots /\ i - 1 # writeIdx
        BY <3>3, <2>1, <1>5, CapacityAssumption, SMT DEF Slots
      <4>2. All[i] = data[i - 1]
        BY <4>1, <1>2, <1>5, <2>1, SMT
      <4>3. data'[i - 1] = data[i - 1]
        BY <4>1 DEF Add, IInv, TypeOK
      <4> QED BY <3>1, <4>1, <4>2, <4>3, <1>2, <1>4, <2>2, AppendProperties
    <3> QED BY <3>2, <3>3
  <2> HIDE DEF w
  <2>4. All' = w
    BY <1>3, <2>1, <2>2, <2>3, SeqEqual
  <2> QED BY <2>4 DEF w
<1>6. CASE ~(count < capacity)
  <2>1. /\ count = capacity /\ count' = capacity /\ capacity \in Nat \ {0}
        /\ writeIdx \in 0..(capacity - 1)
        /\ writeIdx' = IF writeIdx + 1 < capacity THEN writeIdx + 1 ELSE 0
    BY <1>6, CapacityAssumption, ModWraps, SMT DEF IInv, TypeOK, Add, Slots
  <2>2. All # <<>>
    BY <1>2, <2>1
  <2>3. /\ Tail(All) \in Seq(S) /\ Len(Tail(All)) = capacity - 1
        /\ \A i \in 1..(capacity - 1) : Tail(All)[i] = All[i + 1]
    BY <1>2, <2>1, <2>2, HeadTailProperties, SMT
  <2>4. w = Append(Tail(All), s) /\ w \in Seq(S) /\ Len(w) = capacity
    BY <1>2, <1>4, <2>1, <2>3, AppendProperties, SMT
  <2>5. ASSUME NEW i \in 1..capacity PROVE All'[i] = w[i]
    <3> DEFINE x == IF writeIdx' + i - 1 >= capacity THEN writeIdx' + i - 1 - capacity
                                                     ELSE writeIdx' + i - 1
    <3>1. All'[i] = data'[x]
      BY <1>3, <2>1, SMT
    <3>2. CASE i = capacity
      <4>1. x = writeIdx
        BY <3>2, <2>1, SMT
      <4>2. data'[writeIdx] = s
        BY DEF Add, IInv, TypeOK
      <4>3. w[i] = s
        BY <3>2, <2>1, <2>3, <2>4, <1>4, AppendProperties, SMT
      <4> QED BY <3>1, <4>1, <4>2, <4>3
    <3>3. CASE i # capacity
      <4>1. x \in Slots /\ x # writeIdx /\ i \in 1..(capacity - 1) /\ i + 1 \in 1..capacity
        BY <3>3, <2>1, SMT DEF Slots
      <4>2. x = IF writeIdx + (i + 1) - 1 >= capacity THEN writeIdx + (i + 1) - 1 - capacity
                                                     ELSE writeIdx + (i + 1) - 1
        BY <3>3, <2>1, SMT
      <4> HIDE DEF x
      <4>3. All[i + 1] = data[x]
        BY <4>1, <4>2, <1>2, <2>1, SMT
      <4>4. data'[x] = data[x]
        BY <4>1 DEF Add, IInv, TypeOK
      <4>5. w[i] = Tail(All)[i]
        BY <4>1, <2>3, <2>4, <1>4, AppendProperties, SMT
      <4> QED BY <3>1, <4>1, <4>3, <4>4, <4>5, <2>3
    <3> QED BY <3>2, <3>3
  <2> HIDE DEF w
  <2>6. All' = w
    BY <1>3, <2>1, <2>4, <2>5, SeqEqual
  <2> QED BY <2>6 DEF w
<1> QED BY <1>5, <1>6

\* ringbuffer.go:22-32, 67-73: for every capacity, the ring is the window of the
\* last capacity snapshots: a snapshot that is added enters at the end, and the
\* oldest one leaves exactly when there is no room.
THEOREM RingIsWindow == Spec => ImplementsWindow
<1>1. Init => Window!WindowInit
  <2> SUFFICES ASSUME Init PROVE All = <<>>
    BY DEF Window!WindowInit
  <2>1. IInv /\ count = 0
    BY InitEstablishes DEF Init
  <2>2. All \in Seq(Snapshots \cup {Zero}) /\ Len(All) = 0
    BY <2>1, AllSlots DEF SlotBySlot
  <2> QED BY <2>2, EmptySeq
<1>2. IInv /\ [Next]_ringVars => [Window!WindowNext]_All
  <2> SUFFICES ASSUME IInv, [Next]_ringVars PROVE [Window!WindowNext]_All
    OBVIOUS
  <2>1. CASE Next
    BY <2>1, AddSlides DEF Next, Window!WindowNext, Window!Slide
  <2>2. CASE UNCHANGED ringVars
    BY <2>2 DEF ringVars, All, History, Slot
  <2> QED BY <2>1, <2>2
<1> QED BY <1>1, <1>2, Inductive, PTL DEF Spec, ImplementsWindow, Window!WindowSpec

-----------------------------------------------------------------------------
(* The counters                                                            *)

LEMMA TelValues ==
  /\ Width \in Nat \ {0} /\ Speed \in Nat /\ MaxAge \in Nat /\ ChartWidth \in Nat
  /\ Speed * MaxAge < Width
  /\ HistoryPoints \in Nat /\ ChartPoints \in Nat /\ 2 <= ChartPoints
  /\ ChartPoints <= HistoryPoints
BY TelemetryAssumption

\* A counter, and the difference of two, round Width.
LEMMA CounterWraps ==
  /\ \A a \in Int : a % Width \in Rates
  /\ \A a \in 0..(Width - 1) : a % Width = a
  /\ \A a \in Width..(2 * Width - 1) : a % Width = a - Width
  /\ \A a \in (1 - Width)..(-1) : a % Width = a + Width
BY TelValues, SMT DEF Rates

\* A counter that goes round on the way is as good as one that goes round at the end.
LEMMA CounterGoesOn ==
  ASSUME NEW p \in 0..(Width - 1), NEW s \in 0..(Width - 1), NEW b \in Nat,
         s + b \in 0..(Width - 1)
  PROVE  (((p + s) % Width) + b) % Width = (p + (s + b)) % Width
<1>1. CASE p + s \in 0..(Width - 1)
  <2>1. (p + s) % Width = p + s
    BY <1>1, CounterWraps
  <2>2. ((p + s) % Width) + b = p + (s + b)
    BY <2>1, TelValues
  <2> QED
    BY <2>2, Zenon
<1>2. CASE p + s \notin 0..(Width - 1)
  <2> DEFINE x == p + s
             y == p + (s + b)
  <2>1. /\ x \in Width..(2 * Width - 1) /\ y \in Width..(2 * Width - 1)
        /\ x - Width + b = y - Width /\ y - Width \in 0..(Width - 1)
    BY <1>2, TelValues
  <2> HIDE DEF x, y
  <2>2. x % Width = x - Width
    BY <2>1, CounterWraps
  <2>3. y % Width = y - Width
    BY <2>1, CounterWraps
  <2>4. (y - Width) % Width = y - Width
    BY <2>1, CounterWraps
  <2> QED
    BY <2>1, <2>2, <2>3, <2>4 DEF x, y
<1> QED
  BY <1>1, <1>2

LEMMA QuotientBelow == \A a \in Nat, b \in Nat \ {0} : a \div b \in 0..a
BY SMT

\* What a link carries in one tick more, at most.
LEMMA OneTickMore ==
  ASSUME NEW age \in Nat, NEW s \in Nat, NEW b \in 0..Speed, s <= Speed * age, age < MaxAge
  PROVE  /\ s + b <= Speed * (age + 1) /\ s + b < Width
<1>1. Speed * (age + 1) = Speed * age + Speed
  BY TelValues, SMT
<1>2. Speed * (age + 1) <= Speed * MaxAge
  BY TelValues, SMT
<1>3. Speed * age \in Nat /\ Speed * (age + 1) \in Nat /\ Speed * MaxAge \in Nat
  BY TelValues, SMT
<1> QED
  BY <1>1, <1>2, <1>3, TelValues, SMT

CounterType ==
  /\ listed \in BOOLEAN /\ back \in BOOLEAN
  /\ total \in Rates
  /\ prev \in [bytes : Rates, age : Nat] \cup {Unread}
  /\ sent \in Nat

\* Since its last reading the counter has moved by what the link carried, and that is
\* less than a round.
CounterInv ==
  Seen /\ ~back => /\ sent <= Speed * prev.age /\ sent < Width
                   /\ total = (prev.bytes + sent) % Width

TelInv == IInv /\ CounterType /\ CounterInv

LEMMA SeenEntry == CounterType => /\ Seen <=> prev \in [bytes : Rates, age : Nat]
                                  /\ Seen => prev.bytes \in Rates /\ prev.age \in Nat
BY DEF CounterType, Seen, Unread

LEMMA RateIsARate == CounterType => Rate \in Rates
<1> SUFFICES ASSUME CounterType PROVE Rate \in Rates
  OBVIOUS
<1> DEFINE d == (total - prev.bytes) % Width
<1>1. CASE Seen /\ prev.age > 0
  <2>1. prev.age \in Nat \ {0} /\ total - prev.bytes \in Int
    BY <1>1, SeenEntry, TelValues DEF CounterType, Rates
  <2>2. d \in 0..(Width - 1)
    BY <2>1, CounterWraps DEF Rates
  <2> HIDE DEF d
  <2>3. d \in Nat /\ d \div prev.age \in 0..d
    BY <2>1, <2>2, QuotientBelow
  <2>4. d \div prev.age \in 0..(Width - 1)
    BY <2>2, <2>3, TelValues
  <2> QED
    BY <1>1, <2>4 DEF Rate, Rates, d
<1>2. CASE ~(Seen /\ prev.age > 0)
  BY <1>2, TelValues DEF Rate, Rates
<1> QED
  BY <1>1, <1>2

LEMMA CollectAdds == CounterType /\ Collect => \E s \in Snapshots : Add(s)
<1> SUFFICES ASSUME CounterType, Collect PROVE \E s \in Snapshots : Add(s)
  OBVIOUS
<1>1. PICK cpu \in {0} \cup Loads : ReadCounter(cpu) \/ ReadNoCounter(cpu)
  BY DEF Collect
<1>2. Snapshots = [cpu : {0} \cup Loads, net : {NoNetwork} \cup Rates]
  BY TelemetryAssumption
<1>3. [cpu |-> cpu, net |-> Rate] \in Snapshots
  BY <1>2, RateIsARate
<1>4. [cpu |-> cpu, net |-> NoNetwork] \in Snapshots
  BY <1>2
<1> QED
  BY <1>1, <1>3, <1>4 DEF ReadCounter, ReadNoCounter

LEMMA TelInitial == TelInit => TelInv
<1> SUFFICES ASSUME TelInit PROVE TelInv
  OBVIOUS
<1>1. IInv
  BY InitEstablishes DEF TelInit
<1>2. 0 \in Rates
  BY TelValues DEF Rates
<1>3. CounterType
  BY <1>2 DEF TelInit, CounterType
<1>4. CounterInv
  BY DEF TelInit, CounterInv, Seen
<1> QED
  BY <1>1, <1>3, <1>4 DEF TelInv

LEMMA TickKeeps ==
  ASSUME CounterType, CounterInv, Tick
  PROVE  CounterType' /\ CounterInv'
<1>1. PICK b \in 0..Speed : /\ total' = (total + b) % Width
                            /\ sent' = IF Seen /\ ~back THEN sent + b ELSE 0
  BY TelValues DEF Tick
<1>2. /\ prev' = IF Seen THEN [prev EXCEPT !.age = @ + 1] ELSE prev
      /\ UNCHANGED <<listed, back>> /\ prev.age < MaxAge
  BY DEF Tick
<1>3. b \in Nat /\ total \in Nat /\ sent \in Nat /\ total + b \in Int
  BY <1>1, TelValues DEF CounterType, Rates
<1>4. total' \in Rates /\ sent' \in Nat
  BY <1>1, <1>3, CounterWraps
<1>5. CASE ~Seen
  BY <1>2, <1>4, <1>5 DEF CounterType, CounterInv, Seen
<1>6. CASE Seen
  <2>1. /\ prev \in [bytes : Rates, age : Nat]
        /\ prev' = [bytes |-> prev.bytes, age |-> prev.age + 1]
    BY <1>2, <1>6, SeenEntry
  <2>2. prev' \in [bytes : Rates, age : Nat] /\ prev'.bytes = prev.bytes
        /\ prev'.age = prev.age + 1 /\ prev.age \in Nat /\ prev.bytes \in Rates
    BY <2>1
  <2>3. CounterType'
    BY <1>2, <1>4, <2>2 DEF CounterType
  <2>4. CASE back
    BY <1>2, <2>3, <2>4 DEF CounterInv
  <2>5. CASE ~back
    <3>1. /\ sent <= Speed * prev.age /\ sent < Width /\ sent' = sent + b
          /\ total = (prev.bytes + sent) % Width
      BY <1>1, <1>6, <2>5 DEF CounterInv
    <3>2. sent' <= Speed * (prev.age + 1) /\ sent' < Width
      BY <1>1, <1>2, <1>3, <2>2, <3>1, OneTickMore
    <3>3. total' = (prev.bytes + sent') % Width
      <4>1. /\ prev.bytes \in 0..(Width - 1) /\ sent \in 0..(Width - 1)
            /\ sent + b \in 0..(Width - 1)
        BY <1>3, <2>2, <3>1, <3>2, TelValues DEF Rates
      <4>2. total' = (prev.bytes + (sent + b)) % Width
        BY <1>1, <1>3, <3>1, <4>1, CounterGoesOn
      <4> QED
        BY <3>1, <4>2
    <3> QED
      BY <2>2, <2>3, <3>2, <3>3 DEF CounterInv
  <2> QED
    BY <2>4, <2>5, <2>3
<1> QED
  BY <1>5, <1>6

LEMMA ReadKeeps ==
  ASSUME CounterType, NEW cpu, ReadCounter(cpu)
  PROVE  CounterType' /\ CounterInv'
<1>1. /\ prev' = [bytes |-> total, age |-> 0] /\ sent' = 0 /\ back' = FALSE
      /\ UNCHANGED <<listed, total>> /\ total \in Rates
  BY DEF ReadCounter, Remember, CounterType
<1>2. CounterType'
  BY <1>1 DEF CounterType
<1>3. total % Width = total /\ Speed * 0 = 0 /\ total + 0 = total /\ 0 < Width
  BY <1>1, CounterWraps, TelValues DEF Rates
<1> QED
  BY <1>1, <1>2, <1>3 DEF CounterInv

LEMMA TelStep == TelInv /\ [TelNext]_telVars => TelInv'
<1> SUFFICES ASSUME TelInv, [TelNext]_telVars PROVE TelInv'
  OBVIOUS
<1>1. CASE Tick
  <2>1. UNCHANGED ringVars
    BY <1>1 DEF Tick
  <2>2. IInv'
    BY <2>1 DEF TelInv, IInv, TypeOK, Filling, Written, ringVars, Slots
  <2> QED
    BY <1>1, <2>2, TickKeeps DEF TelInv
<1>2. CASE Reset \/ Return
  <2>1. UNCHANGED <<data, writeIdx, count, prev>> /\ 0 \in Rates
    BY <1>2, TelValues DEF Reset, Return, ringVars, Rates
  <2>2. IInv'
    BY <2>1 DEF TelInv, IInv, TypeOK, Filling, Written, Slots
  <2>3. CASE Reset
    <3>1. listed' \in BOOLEAN /\ total' = 0 /\ sent' = 0 /\ back' = Seen
      BY <2>3 DEF Reset
    <3>2. CounterType'
      BY <2>1, <3>1 DEF TelInv, CounterType, Seen
    <3>3. CounterInv'
      BY <2>1, <3>1 DEF CounterInv, Seen
    <3> QED
      BY <2>2, <3>2, <3>3 DEF TelInv
  <2>4. CASE Return
    BY <2>2, <2>4 DEF Return, TelInv, CounterType, CounterInv, Seen
  <2> QED
    BY <1>2, <2>3, <2>4
<1>3. CASE Collect
  <2>1. IInv'
    BY <1>3, CollectAdds, AddPreserves DEF TelInv
  <2>2. ASSUME NEW cpu, ReadCounter(cpu) PROVE CounterType' /\ CounterInv'
    BY <2>2, ReadKeeps DEF TelInv
  <2>3. ASSUME NEW cpu, ReadNoCounter(cpu) PROVE CounterType' /\ CounterInv'
    BY <2>3 DEF ReadNoCounter, netVars, TelInv, CounterType, CounterInv, Seen
  <2> QED
    BY <1>3, <2>1, <2>2, <2>3 DEF Collect, TelInv
<1>4. CASE UNCHANGED telVars
  BY <1>4 DEF telVars, netVars, ringVars, TelInv, IInv, TypeOK, Filling, Written, Slots,
     CounterType, CounterInv, Seen
<1> QED
  BY <1>1, <1>2, <1>3, <1>4 DEF TelNext

LEMMA TelInvariant == TelSpec => []TelInv
BY TelInitial, TelStep, PTL DEF TelSpec

-----------------------------------------------------------------------------
(* The ring as the collector fills it                                      *)

\* collector.go:74-86 with ringbuffer.go: what the collector does to the ring, through
\* every reading and failure, is what RingBuffer allows, and so all that is proved
\* of RingBuffer holds of the collector's ring.
THEOREM CollectorUsesTheRing == TelSpec => Spec
<1>1. TelInit => Init
  BY DEF TelInit
<1>2. TelInv /\ [TelNext]_telVars => [Next]_ringVars
  BY CollectAdds DEF TelInv, TelNext, Tick, Reset, Return, telVars, Next
<1> QED
  BY <1>1, <1>2, TelInvariant, PTL DEF TelSpec, Spec

\* sse.go:88-116 over ringbuffer.go:42, 60-63: a page is never given a slot that was
\* never written.
THEOREM PagesSeeSnapshots == TelSpec => []HistoriesAreWritten
BY CollectorUsesTheRing, ReadersSeeSnapshots, PTL

\* The history a page draws is the window of the last capacity snapshots.
THEOREM HistoryIsWindow == TelSpec => ImplementsWindow
BY CollectorUsesTheRing, RingIsWindow, PTL

-----------------------------------------------------------------------------
(* The rates                                                               *)

LEMMA AddIsLatest ==
  ASSUME IInv, NEW s \in Snapshots, Add(s)
  PROVE  Latest' = s
<1>1. /\ writeIdx \in Slots /\ data' = [data EXCEPT ![writeIdx] = s]
      /\ writeIdx' = (writeIdx + 1) % capacity
      /\ data \in [Slots -> Snapshots \cup {Zero}]
  BY DEF Add, IInv, TypeOK
<1>2. count' # 0
  BY CapacityAssumption, SMT DEF Add, IInv, TypeOK
<1>3. (writeIdx' - 1 + capacity) % capacity = writeIdx
  BY <1>1, CapacityAssumption, ModWraps, SMT DEF Slots
<1>4. Latest' = data'[(writeIdx' - 1 + capacity) % capacity]
  BY <1>2 DEF Latest, Slot
<1> QED
  BY <1>1, <1>3, <1>4

\* The bytes the counter says went by are those that did.
LEMMA DifferenceIsSent ==
  ASSUME CounterType, CounterInv, Seen, ~back
  PROVE  (total - prev.bytes) % Width = sent
<1>1. /\ prev.bytes \in 0..(Width - 1) /\ sent \in 0..(Width - 1)
      /\ total = (prev.bytes + sent) % Width
  BY SeenEntry, TelValues DEF CounterType, CounterInv, Rates
<1>2. total = IF prev.bytes + sent < Width THEN prev.bytes + sent
                                           ELSE prev.bytes + sent - Width
  BY <1>1, CounterWraps, TelValues
<1>3. CASE prev.bytes + sent < Width
  BY <1>1, <1>2, <1>3, CounterWraps, TelValues
<1>4. CASE ~(prev.bytes + sent < Width)
  <2>1. total - prev.bytes \in (1 - Width)..(-1) /\ total - prev.bytes + Width = sent
    BY <1>1, <1>2, <1>4, TelValues
  <2> QED
    BY <2>1, CounterWraps
<1> QED
  BY <1>3, <1>4

-----------------------------------------------------------------------------
(* The units of a rate                                                     *)

\* A set that has 0 and the successors of its numbers has them all.
LEMMA FromZero ==
  ASSUME NEW S, 0 \in S, \A n \in Nat : n \in S => n + 1 \in S
  PROVE  Nat \subseteq S
<1> SUFFICES ASSUME Nat \ S # {} PROVE FALSE
  OBVIOUS
<1>1. PICK m \in Nat \ S : \A n \in Nat \ S : ~(<<n, m>> \in OpToRel(<, Nat))
  <2>1. Nat \ S \subseteq Nat
    OBVIOUS
  <2> QED
    BY <2>1, NatLessThanWellFounded, WFMin
<1>2. \A n \in Nat \ S : ~(n < m)
  BY <1>1 DEF OpToRel
<1>3. m \in Nat /\ m \notin S
  OBVIOUS
<1>4. m - 1 \in Nat /\ m - 1 < m /\ (m - 1) + 1 = m
  BY <1>3
<1>5. m - 1 \in S
  BY <1>2, <1>4
<1> QED
  BY <1>3, <1>4, <1>5

LEMMA UnitValues == Unit \in Nat /\ 2 <= Unit /\ UnitNames \in Nat
BY TelemetryAssumption

\* The two recursions have a solution: each of its prefixes has one, and the next
\* value needs no more than a prefix.
LEMMA UnitSizes ==
  /\ UnitSize[0] = 1
  /\ \A k \in 0..UnitNames : UnitSize[k + 1] = Unit * UnitSize[k]
<1> DEFINE Solves(f, n) == f = [k \in 0..n |-> IF k = 0 THEN 1 ELSE Unit * f[k - 1]]
           S == {n \in Nat : \E f : Solves(f, n)}
<1>1. 0 \in S
  <2>1. Solves([k \in 0..0 |-> 1], 0)
    OBVIOUS
  <2> QED
    BY <2>1
<1>2. ASSUME NEW n \in Nat, n \in S PROVE n + 1 \in S
  <2>1. PICK f : Solves(f, n)
    BY <1>2
  <2>2. PICK g : g = [k \in 0..(n + 1) |-> IF k = 0 THEN 1 ELSE Unit * f[k - 1]]
    OBVIOUS
  <2>3. \A k \in 0..n : g[k] = f[k]
    <3>1. \A k \in 0..n : f[k] = IF k = 0 THEN 1 ELSE Unit * f[k - 1]
      BY <2>1
    <3> QED
      BY <2>2, <3>1
  <2>4. \A k \in 0..(n + 1) : k # 0 => g[k - 1] = f[k - 1]
    <3>1. \A k \in 0..(n + 1) : k # 0 => k - 1 \in 0..n
      OBVIOUS
    <3> QED
      BY <2>3, <3>1, Zenon
  <2>5. Solves(g, n + 1)
    BY <2>2, <2>4
  <2> QED
    BY <2>5
<1>3. Nat \subseteq S
  <2> HIDE DEF S
  <2> QED
    BY <1>1, <1>2, FromZero
<1>4. \E f : Solves(f, UnitNames + 1)
  <2>1. UnitNames + 1 \in S
    <3> HIDE DEF S
    <3> QED
      BY <1>3, UnitValues
  <2> QED
    BY <2>1
<1>5. Solves(UnitSize, UnitNames + 1)
  BY <1>4, Zenon DEF UnitSize
<1>6. \A k \in 0..(UnitNames + 1) :
        UnitSize[k] = IF k = 0 THEN 1 ELSE Unit * UnitSize[k - 1]
  BY <1>5, Zenon
<1>7. ASSUME NEW k \in 0..UnitNames PROVE UnitSize[k + 1] = Unit * UnitSize[k]
  <2>1. k + 1 \in 0..(UnitNames + 1) /\ k + 1 # 0 /\ (k + 1) - 1 = k
    BY UnitValues
  <2> QED
    BY <1>6, <2>1
<1>8. 0 \in 0..(UnitNames + 1)
  BY UnitValues
<1> QED
  BY <1>6, <1>7, <1>8

LEMMA RoundsOfTheLoop ==
  \A n \in 0..Width : Rounds[n] = IF n < Unit THEN 0 ELSE 1 + Rounds[n \div Unit]
<1> DEFINE Solves(f, m) == f = [n \in 0..m |-> IF n < Unit THEN 0 ELSE 1 + f[n \div Unit]]
           S == {m \in Nat : \E f : Solves(f, m)}
<1>1. 0 \in S
  <2>1. Solves([n \in 0..0 |-> 0], 0)
    BY UnitValues
  <2> QED
    BY <2>1
<1>2. ASSUME NEW m \in Nat, m \in S PROVE m + 1 \in S
  <2>1. PICK f : Solves(f, m)
    BY <1>2
  <2>2. PICK g : g = [n \in 0..(m + 1) |-> IF n < Unit THEN 0 ELSE 1 + f[n \div Unit]]
    OBVIOUS
  <2>3. \A n \in 0..m : g[n] = f[n]
    <3>1. \A n \in 0..m : f[n] = IF n < Unit THEN 0 ELSE 1 + f[n \div Unit]
      BY <2>1
    <3> QED
      BY <2>2, <3>1
  <2>4. \A n \in 0..(m + 1) : ~(n < Unit) => n \div Unit \in 0..m
    BY UnitValues, SMT
  <2>5. \A n \in 0..(m + 1) : ~(n < Unit) => g[n \div Unit] = f[n \div Unit]
    BY <2>3, <2>4, Zenon
  <2>6. Solves(g, m + 1)
    BY <2>2, <2>5
  <2> QED
    BY <2>6
<1>3. Nat \subseteq S
  <2> HIDE DEF S
  <2> QED
    BY <1>1, <1>2, FromZero
<1>4. \E f : Solves(f, Width)
  <2>1. Width \in S
    <3> HIDE DEF S
    <3> QED
      BY <1>3, TelValues
  <2> QED
    BY <2>1
<1>5. Solves(Rounds, Width)
  BY <1>4, Zenon DEF Rounds
<1> QED
  BY <1>5, Zenon

LEMMA QuotientOfProduct ==
  ASSUME NEW n \in Nat, NEW s \in Nat, n < Unit * s
  PROVE  n \div Unit \in Nat /\ n \div Unit < s
BY UnitValues, SMT

\* Below the k-th unit the loop has no more than k rounds.
LEMMA RoundsBelow ==
  \A k \in 0..UnitNames : /\ UnitSize[k + 1] \in Nat
                          /\ \A n \in 0..Width : n < UnitSize[k + 1] => Rounds[n] \in 0..k
<1> DEFINE Below(k) == /\ UnitSize[k + 1] \in Nat
                       /\ \A n \in 0..Width : n < UnitSize[k + 1] => Rounds[n] \in 0..k
           S == {k \in Nat : k <= UnitNames => Below(k)}
<1>1. 0 \in S
  <2>1. UnitSize[0 + 1] = Unit
    <3>1. UnitSize[0 + 1] = Unit * UnitSize[0]
      BY UnitSizes, UnitValues
    <3> QED
      BY <3>1, UnitSizes, UnitValues
  <2>2. \A n \in 0..Width : n < Unit => Rounds[n] = 0
    BY RoundsOfTheLoop
  <2> QED
    BY <2>1, <2>2, UnitValues
<1>2. ASSUME NEW k \in Nat, k \in S PROVE k + 1 \in S
  <2> SUFFICES ASSUME k + 1 <= UnitNames PROVE Below(k + 1)
    OBVIOUS
  <2>1. Below(k)
    BY <1>2, UnitValues
  <2>2. UnitSize[(k + 1) + 1] = Unit * UnitSize[k + 1]
    <3>1. k + 1 \in 0..UnitNames
      BY UnitValues
    <3> QED
      BY <3>1, UnitSizes
  <2>3. UnitSize[(k + 1) + 1] \in Nat
    BY <2>1, <2>2, UnitValues, SMT
  <2>4. ASSUME NEW n \in 0..Width, n < UnitSize[(k + 1) + 1]
        PROVE  Rounds[n] \in 0..(k + 1)
    <3>1. CASE n < Unit
      BY <3>1, RoundsOfTheLoop
    <3>2. CASE ~(n < Unit)
      <4>1. n \div Unit \in Nat /\ n \div Unit < UnitSize[k + 1]
        BY <2>1, <2>2, <2>4, QuotientOfProduct
      <4>2. n \div Unit \in 0..Width
        BY UnitValues, TelValues, QuotientBelow
      <4>3. Rounds[n \div Unit] \in 0..k
        BY <2>1, <4>1, <4>2
      <4>4. Rounds[n] = 1 + Rounds[n \div Unit]
        BY <3>2, RoundsOfTheLoop
      <4> QED
        BY <4>3, <4>4
    <3> QED
      BY <3>1, <3>2
  <2> QED
    BY <2>3, <2>4
<1>3. Nat \subseteq S
  <2> HIDE DEF S
  <2> QED
    BY <1>1, <1>2, FromZero
<1> QED
  BY <1>3, UnitValues

\* A rate that the link can carry has a unit.
LEMMA TrueRateFormats ==
  ASSUME NEW b \in 0..Width, b <= Speed PROVE Formats(b)
<1>1. CASE b < Unit
  BY <1>1 DEF Formats
<1>2. CASE ~(b < Unit)
  <2>1. UnitSize[UnitNames + 1] = Unit * UnitSize[UnitNames] /\ b < UnitSize[UnitNames + 1]
    <3>1. UnitNames \in 0..UnitNames
      BY UnitValues
    <3>2. UnitSize[UnitNames + 1] \in Nat
      BY <3>1, RoundsBelow
    <3>3. Speed < UnitSize[UnitNames + 1]
      BY TelemetryAssumption
    <3>4. b < UnitSize[UnitNames + 1]
      BY <3>2, <3>3, TelValues
    <3> QED
      BY <3>1, <3>4, UnitSizes
  <2>2. UnitNames # 0
    BY <1>2, <2>1, UnitSizes, UnitValues
  <2>3. UnitNames - 1 \in 0..UnitNames /\ (UnitNames - 1) + 1 = UnitNames
    BY <2>2, UnitValues
  <2>4. UnitSize[UnitNames] \in Nat
    BY <2>3, RoundsBelow
  <2>5. b \div Unit \in 0..Width /\ b \div Unit < UnitSize[UnitNames]
    BY <2>1, <2>4, QuotientOfProduct, UnitValues, TelValues, QuotientBelow
  <2>6. Rounds[b \div Unit] \in 0..(UnitNames - 1)
    BY <2>3, <2>5, RoundsBelow
  <2> QED
    BY <2>6, UnitValues DEF Formats
<1> QED
  BY <1>1, <1>2

-----------------------------------------------------------------------------
(* The cards show what the link carried                                    *)

LEMMA ShareOfSpeed ==
  ASSUME NEW age \in Nat \ {0}, NEW s \in Nat, s <= Speed * age
  PROVE  s \div age <= Speed
BY TelValues, SMT

LEMMA ReadingIsTrue ==
  ASSUME TelInv, NEW cpu \in {0} \cup Loads, ReadCounter(cpu), Seen, ~back
  PROVE  /\ Latest'.net = IF prev.age = 0 THEN 0 ELSE sent \div prev.age
         /\ CardsRender'
<1>1. Rate \in Rates
  BY RateIsARate DEF TelInv
<1>2. [cpu |-> cpu, net |-> Rate] \in Snapshots
  BY <1>1, TelemetryAssumption
<1>3. Latest' = [cpu |-> cpu, net |-> Rate]
  BY <1>2, AddIsLatest DEF ReadCounter, TelInv
<1>4. /\ (total - prev.bytes) % Width = sent /\ prev.age \in Nat
      /\ sent \in Nat /\ sent <= Speed * prev.age
  BY DifferenceIsSent, SeenEntry DEF TelInv, CounterType, CounterInv
<1>5. prev.age > 0 <=> prev.age # 0
  BY <1>4
<1>6. Rate = IF prev.age = 0 THEN 0 ELSE sent \div prev.age
  BY <1>4, <1>5 DEF Rate
<1>7. Rate <= Speed
  BY <1>4, <1>6, ShareOfSpeed, TelValues
<1>8. Formats(Rate)
  BY <1>1, <1>7, TrueRateFormats, TelValues DEF Rates
<1>9. CardsRender'
  <2>1. Latest'.net = Rate
    BY <1>3
  <2>2. Formats(Latest'.net)
    BY <1>8, <2>1, Zenon
  <2> QED
    BY <2>2, Zenon DEF CardsRender, Formats
<1> QED
  BY <1>3, <1>6, <1>9

\* reader.go:124-142 with sse.go:213-225: for every width of the counters and every speed
\* of the link that has a unit, a rate is the bytes the link carried over the seconds they
\* took, across failed readings and the wrap, unless the counter went back; and the
\* cards that show it render.
THEOREM RatesTrue == TelSpec => RatesAreTrue
<1>1. TelInv /\ [TelNext]_telVars
        => [ReadCounter(0) \/ (\E cpu \in Loads : ReadCounter(cpu)) =>
              \/ back
              \/ ~Seen
              \/ /\ Latest'.net = IF prev.age = 0 THEN 0 ELSE sent \div prev.age
                 /\ CardsRender']_telVars
  BY ReadingIsTrue
<1> QED
  BY <1>1, TelInvariant, PTL DEF TelSpec, RatesAreTrue

-----------------------------------------------------------------------------
(* The chart                                                               *)

LEMMA WholeDivision == \A k \in Nat \ {0}, w \in Nat : (k * w) \div k = w
BY SMT

\* The i-th of the last points is the i-th from the end of the ring.
LEMMA LastPointsOfAll ==
  ASSUME IInv, count > 0
  PROVE  LET h == LastPoints(History(HistoryPoints))
         IN /\ Len(h) = IF count < ChartPoints THEN count ELSE ChartPoints
            /\ DOMAIN h = 1..Len(h)
            /\ \A i \in 1..Len(h) : h[i] = All[count - Len(h) + i]
<1> DEFINE m == IF HistoryPoints > count THEN count ELSE HistoryPoints
           g == History(HistoryPoints)
           h == LastPoints(g)
<1>1. /\ count \in Nat /\ m \in Nat /\ 1 <= m /\ m <= count
      /\ IF count < ChartPoints THEN m = count ELSE ChartPoints <= m
  BY TelValues, CapacityAssumption DEF IInv, TypeOK
<1>2. /\ g = [i \in 1..m |-> data[(Slot(writeIdx - m) + i - 1) % capacity]]
      /\ All = [i \in 1..count |-> data[(Slot(writeIdx - count) + i - 1) % capacity]]
  BY <1>1 DEF History, All
<1> HIDE DEF m
<1>3. ASSUME NEW i \in 1..m PROVE g[i] = All[count - m + i] /\ g[i] \in Snapshots \cup {Zero}
  <2> DEFINE j == count - m + i
  <2>1. j \in 1..count /\ count \in 0..count /\ m \in 0..count
    BY <1>1
  <2>2. writeIdx - m + i - 1 = writeIdx - count + j - 1 /\ writeIdx \in Int
    BY <1>1 DEF IInv, TypeOK, Slots
  <2>3. /\ (Slot(writeIdx - m) + i - 1) % capacity \in Slots
        /\ (Slot(writeIdx - m) + i - 1) % capacity =
              IF writeIdx - m + i - 1 >= 0 THEN writeIdx - m + i - 1
                                           ELSE writeIdx - m + i - 1 + capacity
    BY <2>1, HistorySlot
  <2>4. (Slot(writeIdx - count) + j - 1) % capacity =
              IF writeIdx - count + j - 1 >= 0 THEN writeIdx - count + j - 1
                                           ELSE writeIdx - count + j - 1 + capacity
    BY <2>1, HistorySlot
  <2>5. (Slot(writeIdx - m) + i - 1) % capacity = (Slot(writeIdx - count) + j - 1) % capacity
    BY <2>2, <2>3, <2>4
  <2> HIDE DEF j
  <2>6. g[i] = data[(Slot(writeIdx - m) + i - 1) % capacity] /\ All[j] = g[i]
    BY <1>2, <2>1, <2>5
  <2> QED
    BY <2>3, <2>6 DEF j, IInv, TypeOK
<1>4. g \in Seq(Snapshots \cup {Zero}) /\ Len(g) = m
  <2>1. g \in [1..m -> Snapshots \cup {Zero}]
    BY <1>2, <1>3
  <2> HIDE DEF g
  <2> QED
    BY <1>1, <2>1, SMT
<1> HIDE DEF g
<1>5. CASE m > ChartPoints
  <2>1. h = SubSeq(g, m - ChartPoints + 1, m)
    BY <1>4, <1>5 DEF LastPoints
  <2>2. /\ m - ChartPoints + 1 \in 1..m /\ m \in 0..m /\ ~(count < ChartPoints)
        /\ m - (m - ChartPoints + 1) + 1 = ChartPoints /\ ChartPoints \in Nat
    BY <1>1, <1>5, TelValues
  <2>3. /\ Len(h) = ChartPoints /\ DOMAIN h = 1..ChartPoints
        /\ \A i \in 1..ChartPoints : h[i] = g[m - ChartPoints + i]
    <3>1. h = [i \in 1..ChartPoints |-> g[m - ChartPoints + i]]
      BY <1>4, <2>1, <2>2
    <3> QED
      BY <2>2, <3>1
  <2>4. ASSUME NEW i \in 1..ChartPoints PROVE h[i] = All[count - ChartPoints + i]
    <3>1. m - ChartPoints + i \in 1..m
          /\ count - m + (m - ChartPoints + i) = count - ChartPoints + i
      BY <1>1, <1>5, <2>2
    <3> QED
      BY <1>3, <2>3, <3>1
  <2> QED
    BY <2>2, <2>3, <2>4 DEF g
<1>6. CASE ~(m > ChartPoints)
  <2>1. h = g
    BY <1>4, <1>6 DEF LastPoints
  <2>2. m = IF count < ChartPoints THEN count ELSE ChartPoints
    BY <1>1, <1>6, TelValues
  <2>3. DOMAIN g = 1..m
    BY <1>4
  <2> QED
    BY <1>3, <1>4, <2>1, <2>2, <2>3 DEF g
<1> QED
  BY <1>5, <1>6

LEMMA ChartIsTheEnd == IInv => ChartShowsTheNewest
<1> SUFFICES ASSUME IInv, count > 0
             PROVE  /\ Chart # <<>> /\ Len(Chart) <= count
                    /\ \A i \in DOMAIN Chart : Chart[i].y = All[count - Len(Chart) + i].cpu
                    /\ Chart[Len(Chart)].y = Latest.cpu
                    /\ count > 1 => Chart[1].x = 0 /\ Chart[Len(Chart)].x = ChartWidth
  BY DEF ChartShowsTheNewest
<1> DEFINE h == LastPoints(History(HistoryPoints))
           n == Len(h)
           c == [i \in 1..n |-> [x |-> IF n = 1 THEN NaN ELSE ((i - 1) * ChartWidth) \div (n - 1),
                                 y |-> h[i].cpu]]
<1>1. /\ n = IF count < ChartPoints THEN count ELSE ChartPoints
      /\ DOMAIN h = 1..n
      /\ \A i \in 1..n : h[i] = All[count - n + i]
  BY LastPointsOfAll
<1>2. Chart = c
  BY <1>1 DEF Chart
<1> HIDE DEF h
<1>3. /\ n \in Nat \ {0} /\ n <= count /\ count \in Nat /\ count - n + n = count
      /\ count > 1 => n - 1 \in Nat \ {0} /\ n # 1
  BY <1>1, TelValues, CapacityAssumption DEF IInv, TypeOK
<1> HIDE DEF n
<1>4. c # <<>> /\ Len(c) = n /\ DOMAIN c = 1..n /\ 1 \in 1..n /\ n \in 1..n
  BY <1>3
<1>5. All[count] = Latest
  <2>1. count \in 1..(capacity + 1) /\ count > 0
    BY <1>3, CapacityAssumption DEF IInv, TypeOK
  <2>2. All[Len(All)] = Latest
    BY <2>1, HistoriesWritten DEF HistoriesAreWritten, All
  <2>3. Len(All) = count
    BY AllSlots DEF SlotBySlot
  <2> QED
    BY <2>2, <2>3
<1>6. \A i \in 1..n : c[i].y = All[count - n + i].cpu
  BY <1>1
<1>7. c[n].y = Latest.cpu
  BY <1>3, <1>4, <1>5, <1>6
<1>8. count > 1 => c[1].x = 0 /\ c[n].x = ChartWidth
  <2> SUFFICES ASSUME count > 1 PROVE c[1].x = 0 /\ c[n].x = ChartWidth
    OBVIOUS
  <2>1. (1 - 1) * ChartWidth = 0 /\ 0 \div (n - 1) = 0
    BY <1>3, TelValues, SMT
  <2>2. ((n - 1) * ChartWidth) \div (n - 1) = ChartWidth
    BY <1>3, TelValues, WholeDivision
  <2> QED
    BY <1>3, <1>4, <2>1, <2>2
<1> QED
  BY <1>2, <1>3, <1>4, <1>6, <1>7, <1>8

\* sse.go:168, 283-289, 306: whatever the capacity of the ring, the chart holds the newest
\* loads, in order and none left out, and ends with the load of the newest snapshot, at
\* its right edge from two samples on.
THEOREM ChartIsTrue == TelSpec => []ChartShowsTheNewest
<1>1. TelInv => ChartShowsTheNewest
  BY ChartIsTheEnd DEF TelInv
<1> QED
  BY <1>1, TelInvariant, PTL

-----------------------------------------------------------------------------
(* The stream                                                              *)

\* The browser's reading of a payload goes line by line.
LEMMA ParseLineByLine ==
  ASSUME NEW payload, Len(payload) \in Nat
  PROVE  \E f : /\ f[0] = Clean(<<>>)
                /\ \A n \in 1..Len(payload) : f[n] = ParseLine(f[n - 1], payload[n])
                /\ Parse(payload) = f[Len(payload)]
<1> DEFINE Solves(f, m) ==
             f = [n \in 0..m |-> IF n = 0 THEN Clean(<<>>) ELSE ParseLine(f[n - 1], payload[n])]
           S == {m \in Nat : \E f : Solves(f, m)}
<1>1. 0 \in S
  <2>1. Solves([n \in 0..0 |-> Clean(<<>>)], 0)
    OBVIOUS
  <2> QED
    BY <2>1
<1>2. ASSUME NEW m \in Nat, m \in S PROVE m + 1 \in S
  <2>1. PICK f : Solves(f, m)
    BY <1>2
  <2>2. PICK g : g = [n \in 0..(m + 1) |->
                        IF n = 0 THEN Clean(<<>>) ELSE ParseLine(f[n - 1], payload[n])]
    OBVIOUS
  <2>3. \A n \in 0..m : g[n] = f[n]
    <3>1. \A n \in 0..m : f[n] = IF n = 0 THEN Clean(<<>>) ELSE ParseLine(f[n - 1], payload[n])
      BY <2>1
    <3> QED
      BY <2>2, <3>1
  <2>4. \A n \in 0..(m + 1) : n # 0 => g[n - 1] = f[n - 1]
    <3>1. \A n \in 0..(m + 1) : n # 0 => n - 1 \in 0..m
      OBVIOUS
    <3> QED
      BY <2>3, <3>1, Zenon
  <2>5. Solves(g, m + 1)
    BY <2>2, <2>4
  <2> QED
    BY <2>5
<1>3. Nat \subseteq S
  <2> HIDE DEF S
  <2> QED
    BY <1>1, <1>2, FromZero
<1> DEFINE after == CHOOSE f : Solves(f, Len(payload))
<1>4. Solves(after, Len(payload))
  <2>1. \E f : Solves(f, Len(payload))
    BY <1>3
  <2> QED
    BY <2>1, Zenon
<1>5. Parse(payload) = after[Len(payload)]
  BY Zenon DEF Parse
<1> HIDE DEF after
<1>6. /\ after[0] = Clean(<<>>)
      /\ \A n \in 1..Len(payload) : after[n] = ParseLine(after[n - 1], payload[n])
  BY <1>4
<1> QED
  BY <1>5, <1>6

\* The two parts of a sequence.
LEMMA Joined ==
  ASSUME NEW S, NEW s \in Seq(S), NEW t \in Seq(S), NEW r, r = s \o t
  PROVE  /\ r \in Seq(S) /\ Len(r) = Len(s) + Len(t)
         /\ \A i \in 1..Len(s) : r[i] = s[i]
         /\ \A i \in 1..Len(t) : r[Len(s) + i] = t[i]
<1>1. Len(s) \in Nat /\ Len(t) \in Nat
  BY LenProperties
<1>2. /\ r \in Seq(S) /\ Len(r) = Len(s) + Len(t)
      /\ \A i \in 1..(Len(s) + Len(t)) : r[i] = IF i <= Len(s) THEN s[i] ELSE t[i - Len(s)]
  BY ConcatProperties
<1>3. \A i \in 1..Len(s) : r[i] = s[i]
  BY <1>1, <1>2
<1>4. ASSUME NEW i \in 1..Len(t) PROVE r[Len(s) + i] = t[i]
  <2>1. /\ Len(s) + i \in 1..(Len(s) + Len(t)) /\ ~(Len(s) + i <= Len(s))
        /\ (Len(s) + i) - Len(s) = i
    BY <1>1
  <2> QED
    BY <1>2, <2>1
<1> QED
  BY <1>2, <1>3, <1>4

LEMMA ShortSequences ==
  ASSUME NEW S, NEW x \in S, NEW y \in S
  PROVE  /\ <<x>> \in Seq(S) /\ Len(<<x>>) = 1 /\ <<x>>[1] = x
         /\ <<x, y>> \in Seq(S) /\ Len(<<x, y>>) = 2 /\ <<x, y>>[1] = x /\ <<x, y>>[2] = y
OBVIOUS

LEMMA FunctionIsSequence ==
  ASSUME NEW S, NEW n \in Nat, NEW s \in [1..n -> S]
  PROVE  s \in Seq(S) /\ Len(s) = n
OBVIOUS

StreamLines(T) == [field : {"event", "data", "blank", "none"}, value : T]

LEMMA LinesOfText ==
  ASSUME NEW T, NEW v \in T
  PROVE  /\ Field("event", v) \in StreamLines(T) /\ Field("data", v) \in StreamLines(T)
         /\ Line(v) \in StreamLines(T) /\ Line(v).field \in {"blank", "none"}
         /\ Line(NoText).field = "blank"
<1>1. \A f \in {"event", "data", "blank", "none"} : Field(f, v) \in StreamLines(T)
  BY DEF Field, StreamLines
<1>2. \A f, x : Field(f, x).field = f
  BY DEF Field
<1> QED
  BY <1>1, <1>2, Zenon DEF Line

LEMMA EventLines ==
  ASSUME NEW T, NoText \in T, NEW name \in T, NEW html \in Seq(T), html # <<>>
  PROVE  LET w == WriteEvent(name, html)
         IN /\ Len(html) \in Nat \ {0}
            /\ w \in Seq(StreamLines(T)) /\ Len(w) = Len(html) + 2
            /\ w[1] = Field("event", name) /\ w[2] = Field("data", Head(html))
            /\ \A i \in 3..Len(w) : w[i].field \in {"blank", "none"}
            /\ w[Len(w)].field = "blank"
<1> DEFINE h == Len(html)
<1>1. h \in Nat \ {0} /\ Head(html) \in T /\ \A i \in 1..(h - 1) : html[i + 1] \in T
  BY SMT
<1>2. PICK L : L = StreamLines(T)
  OBVIOUS
<1>3. PICK a \in Seq(L) : /\ a = <<Field("event", name), Field("data", Head(html))>>
                          /\ Len(a) = 2
                          /\ a[1] = Field("event", name) /\ a[2] = Field("data", Head(html))
  <2>1. PICK x \in L, y \in L : x = Field("event", name) /\ y = Field("data", Head(html))
    BY <1>1, <1>2, LinesOfText
  <2>2. PICK a : a = <<x, y>>
    OBVIOUS
  <2>3. a \in Seq(L) /\ Len(a) = 2 /\ a[1] = x /\ a[2] = y
    BY <2>2, ShortSequences
  <2> QED
    BY <2>1, <2>2, <2>3
<1>4. PICK b \in Seq(L) : /\ b = [i \in 1..(h - 1) |-> Line(html[i + 1])]
                          /\ Len(b) = h - 1
                          /\ \A i \in 1..Len(b) : b[i].field \in {"blank", "none"}
  <2>1. \A i \in 1..(h - 1) : Line(html[i + 1]) \in L /\ Line(html[i + 1]).field \in {"blank", "none"}
    BY <1>1, <1>2, LinesOfText
  <2>2. PICK b : b = [i \in 1..(h - 1) |-> Line(html[i + 1])]
    OBVIOUS
  <2>3. h - 1 \in Nat
    BY <1>1
  <2>4. b \in [1..(h - 1) -> L] /\ \A i \in 1..(h - 1) : b[i].field \in {"blank", "none"}
    BY <2>1, <2>2
  <2>5. b \in Seq(L) /\ Len(b) = h - 1
    BY <2>3, <2>4, FunctionIsSequence
  <2> QED
    BY <2>2, <2>4, <2>5
<1>5. PICK c \in Seq(L) : c = <<Line(NoText)>> /\ Len(c) = 1 /\ c[1].field = "blank"
  <2>1. PICK x \in L : x = Line(NoText) /\ x.field = "blank"
    BY <1>2, LinesOfText
  <2> QED
    BY <2>1, ShortSequences
<1>6. PICK ab : ab = a \o b
  OBVIOUS
<1>7. PICK w : w = ab \o c
  OBVIOUS
<1>8. WriteEvent(name, html) = w
  BY <1>3, <1>4, <1>5, <1>6, <1>7, Zenon DEF WriteEvent
<1> HIDE DEF h
<1>9. /\ ab \in Seq(L) /\ Len(ab) = 2 + (h - 1)
      /\ \A i \in 1..2 : ab[i] = a[i]
      /\ \A i \in 1..(h - 1) : ab[2 + i] = b[i]
  <2>1. /\ ab \in Seq(L) /\ Len(ab) = Len(a) + Len(b)
        /\ \A i \in 1..Len(a) : ab[i] = a[i]
        /\ \A i \in 1..Len(b) : ab[Len(a) + i] = b[i]
    BY <1>6, Joined
  <2> QED
    BY <1>3, <1>4, <2>1
<1>10. /\ w \in Seq(L) /\ Len(w) = Len(ab) + 1
       /\ \A i \in 1..Len(ab) : w[i] = ab[i]
       /\ w[Len(ab) + 1] = c[1]
  <2>1. /\ w \in Seq(L) /\ Len(w) = Len(ab) + Len(c)
        /\ \A i \in 1..Len(ab) : w[i] = ab[i]
        /\ \A i \in 1..Len(c) : w[Len(ab) + i] = c[i]
    <3>1. ab \in Seq(L)
      BY <1>9
    <3> QED
      BY <1>7, <3>1, Joined
  <2> QED
    BY <1>5, <2>1
<1>11. Len(ab) = h + 1 /\ Len(w) = h + 2
  BY <1>1, <1>9, <1>10
<1>12. w[1] = a[1] /\ w[2] = a[2]
  <2>1. 1 \in 1..Len(ab) /\ 2 \in 1..Len(ab)
    BY <1>1, <1>11
  <2> QED
    BY <1>9, <1>10, <2>1
<1>13. w[h + 2] = c[1]
  <2>1. Len(ab) + 1 = h + 2
    BY <1>1, <1>11
  <2> QED
    BY <1>10, <2>1
<1>14. ASSUME NEW i \in 3..(h + 2) PROVE w[i].field \in {"blank", "none"}
  <2>1. CASE i = h + 2
    BY <1>5, <1>13, <2>1
  <2>2. CASE i # h + 2
    <3>1. PICK j \in 1..(h - 1) : i = 2 + j /\ i \in 1..Len(ab)
      <4>1. i - 2 \in 1..(h - 1) /\ i = 2 + (i - 2) /\ i \in 1..Len(ab)
        BY <1>1, <1>11, <2>2
      <4> QED
        BY <4>1
    <3>2. w[i] = b[j] /\ j \in 1..Len(b)
      BY <1>4, <1>9, <1>10, <3>1
    <3> QED
      BY <1>4, <3>2
  <2> QED
    BY <2>1, <2>2
<1>15. /\ w[1] = Field("event", name) /\ w[2] = Field("data", Head(html))
       /\ w[Len(w)].field = "blank"
       /\ \A i \in 3..Len(w) : w[i].field \in {"blank", "none"}
  BY <1>3, <1>5, <1>11, <1>12, <1>13, <1>14
<1>16. h \in Nat \ {0} /\ w \in Seq(StreamLines(T)) /\ Len(w) = h + 2
  BY <1>1, <1>2, <1>10, <1>11
<1> QED
  BY <1>8, <1>15, <1>16, Zenon DEF h

\* An event that begins where nothing is pending ends there, and is one event more.
LEMMA EventIsRead ==
  ASSUME NEW T, NoText \in T, NEW name \in T, NEW html \in Seq(T), html # <<>>,
         NEW Events, NEW e \in Seq(Events),
         NEW f, NEW o \in Nat, f[o] = Clean(e),
         \A i \in 1..(Len(html) + 2) : f[o + i] = ParseLine(f[o + i - 1], WriteEvent(name, html)[i])
  PROVE  f[o + (Len(html) + 2)] = Clean(Append(e, [name |-> name, data |-> <<Head(html)>>]))
<1> DEFINE w == WriteEvent(name, html)
           n == Len(html) + 2
           ev == [name |-> name, data |-> <<Head(html)>>]
           open == [type |-> name, data |-> <<Head(html)>>, events |-> e]
           closed == Clean(Append(e, ev))
           S == {k \in Nat : k + 2 <= n => f[o + (k + 2)] \in {open, closed}}
<1>1. /\ Len(html) \in Nat /\ Len(html) >= 1
      /\ n \in Nat /\ n >= 3
  BY EventLines
<1>2. /\ w[1] = Field("event", name) /\ w[2] = Field("data", Head(html))
      /\ \A i \in 3..n : w[i].field \in {"blank", "none"}
      /\ w[n].field = "blank"
  BY EventLines
<1>3. \A i \in 1..n : f[o + i] = ParseLine(f[o + i - 1], w[i])
  OBVIOUS
<1> HIDE DEF w, n
<1>4. 0 \in S
  <2>1. f[o + 1] = [type |-> name, data |-> <<>>, events |-> e]
    <3>1. 1 \in 1..n /\ o + 1 - 1 = o
      BY <1>1
    <3>2. f[o + 1] = ParseLine(Clean(e), Field("event", name))
      BY <1>2, <1>3, <3>1
    <3> QED
      BY <3>2 DEF ParseLine, Clean, Field
  <2>2. f[o + 2] = open
    <3>1. 2 \in 1..n /\ o + 2 - 1 = o + 1
      BY <1>1
    <3>2. f[o + 2] = ParseLine([type |-> name, data |-> <<>>, events |-> e], Field("data", Head(html)))
      BY <1>2, <1>3, <2>1, <3>1
    <3>3. Append(<<>>, Head(html)) = <<Head(html)>>
      OBVIOUS
    <3> QED
      BY <3>2, <3>3 DEF ParseLine, Field
  <2> QED
    BY <2>2
<1>5. \A l : l.field \in {"blank", "none"} =>
         /\ ParseLine(open, l) = IF l.field = "blank" THEN closed ELSE open
         /\ ParseLine(closed, l) = closed
  BY DEF ParseLine, Clean
<1> HIDE DEF open, closed
<1>6. ASSUME NEW k \in Nat, k \in S PROVE k + 1 \in S
  <2> SUFFICES ASSUME (k + 1) + 2 <= n PROVE f[o + ((k + 1) + 2)] \in {open, closed}
    OBVIOUS
  <2>1. (k + 1) + 2 \in 3..n /\ (k + 1) + 2 \in 1..n
        /\ o + ((k + 1) + 2) - 1 = o + (k + 2) /\ k + 2 <= n
    BY <1>1
  <2>2. f[o + (k + 2)] \in {open, closed}
    BY <1>6, <2>1
  <2>3. f[o + ((k + 1) + 2)] = ParseLine(f[o + (k + 2)], w[(k + 1) + 2])
    BY <1>3, <2>1
  <2>4. w[(k + 1) + 2].field \in {"blank", "none"}
    BY <1>2, <2>1
  <2>5. /\ ParseLine(open, w[(k + 1) + 2]) \in {open, closed}
        /\ ParseLine(closed, w[(k + 1) + 2]) = closed
    <3>1. PICK l : l = w[(k + 1) + 2]
      OBVIOUS
    <3>2. l.field \in {"blank", "none"}
      BY <2>4, <3>1
    <3>3. /\ ParseLine(open, l) = IF l.field = "blank" THEN closed ELSE open
          /\ ParseLine(closed, l) = closed
      BY <1>5, <3>2
    <3> QED
      BY <3>1, <3>3
  <2> QED
    BY <2>2, <2>3, <2>5, Zenon
<1>7. Nat \subseteq S
  <2> HIDE DEF S
  <2> QED
    BY <1>4, <1>6, FromZero
<1>8. f[o + n] = closed
  <2>1. n - 3 \in Nat /\ (n - 3) + 2 = n - 1 /\ n - 1 <= n
    BY <1>1
  <2>2. f[o + (n - 1)] \in {open, closed}
    BY <1>7, <2>1
  <2>3. n \in 1..n /\ o + n - 1 = o + (n - 1)
    BY <1>1
  <2>4. f[o + n] = ParseLine(f[o + (n - 1)], w[n])
    BY <1>3, <2>3
  <2> QED
    BY <1>2, <1>5, <2>2, <2>4
<1> QED
  BY <1>8 DEF n, closed

\* The lines of w stand in all, after the first o of them.
StandsAfter(all, o, w) == \A i \in 1..Len(w) : all[o + i] = w[i]

\* f are the browser's states while it reads the lines of all.
Reads(f, all, len) == \A i \in 1..len : f[i] = ParseLine(f[i - 1], all[i])

\* After n lines the browser has the events of e and is between two events.
HasRead(f, n, e) == f[n] = Clean(e)

\* The event that comes of a text.
EventOf(name, html) == [name |-> name, data |-> <<Head(html)>>]

\* Four sequences in a row: where the entries of each are.
LEMMA FourJoined ==
  ASSUME NEW L, NEW w1, NEW w2, NEW w3, NEW w4,
         w1 \in Seq(L), w2 \in Seq(L), w3 \in Seq(L), w4 \in Seq(L)
  PROVE  LET all == w1 \o w2 \o w3 \o w4
             n1 == Len(w1)
             n2 == Len(w2)
             n3 == Len(w3)
             n4 == Len(w4)
         IN /\ Len(all) = n1 + n2 + n3 + n4
            /\ StandsAfter(all, 0, w1) /\ StandsAfter(all, n1, w2)
            /\ StandsAfter(all, n1 + n2, w3) /\ StandsAfter(all, n1 + n2 + n3, w4)
<1>0. PICK n1 \in Nat, n2 \in Nat, n3 \in Nat, n4 \in Nat :
        n1 = Len(w1) /\ n2 = Len(w2) /\ n3 = Len(w3) /\ n4 = Len(w4)
  BY LenProperties
<1>1. PICK b : b = w1 \o w2
  OBVIOUS
<1>2. PICK c : c = b \o w3
  OBVIOUS
<1>3. PICK all : all = c \o w4
  OBVIOUS
<1>4. all = w1 \o w2 \o w3 \o w4
  BY <1>1, <1>2, <1>3, Zenon
<1>5. b \in Seq(L)
  BY <1>0, <1>1, Joined
<1>6. /\ Len(b) = n1 + n2
      /\ \A i \in 1..n1 : b[i] = w1[i]
      /\ \A i \in 1..n2 : b[n1 + i] = w2[i]
  BY <1>0, <1>1, Joined
<1>7. c \in Seq(L)
  BY <1>2, <1>5, Joined
<1>8. /\ Len(c) = Len(b) + Len(w3)
      /\ \A i \in 1..Len(b) : c[i] = b[i]
      /\ \A i \in 1..Len(w3) : c[Len(b) + i] = w3[i]
  BY <1>2, <1>5, Joined
<1>9. /\ Len(all) = Len(c) + Len(w4)
      /\ \A i \in 1..Len(c) : all[i] = c[i]
      /\ \A i \in 1..Len(w4) : all[Len(c) + i] = w4[i]
  BY <1>3, <1>7, Joined
<1>10. Len(c) = n1 + n2 + n3 /\ Len(all) = n1 + n2 + n3 + n4
  BY <1>0, <1>6, <1>8, <1>9
<1>11. ASSUME NEW i \in 1..n1 PROVE all[0 + i] = w1[i]
  <2>1. 0 + i = i /\ i \in 1..(n1 + n2) /\ i \in 1..(n1 + n2 + n3)
    OBVIOUS
  <2>2. all[i] = c[i] /\ c[i] = b[i] /\ b[i] = w1[i]
    BY <1>6, <1>8, <1>9, <1>10, <2>1
  <2> QED
    BY <2>1, <2>2
<1>12. ASSUME NEW i \in 1..n2 PROVE all[n1 + i] = w2[i]
  <2>1. PICK j : j = n1 + i
    OBVIOUS
  <2>2. j \in 1..(n1 + n2) /\ j \in 1..(n1 + n2 + n3)
    BY <2>1
  <2>3. all[j] = c[j] /\ c[j] = b[j]
    BY <1>6, <1>8, <1>9, <1>10, <2>2
  <2>4. b[n1 + i] = w2[i]
    BY <1>6
  <2> QED
    BY <2>1, <2>3, <2>4
<1>13. ASSUME NEW i \in 1..n3 PROVE all[n1 + n2 + i] = w3[i]
  <2>1. PICK j : j = n1 + n2 + i
    OBVIOUS
  <2>2. j \in 1..(n1 + n2 + n3)
    BY <2>1
  <2>3. all[j] = c[j]
    BY <1>9, <1>10, <2>2
  <2>4. c[n1 + n2 + i] = w3[i]
    BY <1>0, <1>6, <1>8
  <2> QED
    BY <2>1, <2>3, <2>4
<1>14. \A i \in 1..n4 : all[n1 + n2 + n3 + i] = w4[i]
  BY <1>0, <1>9, <1>10
<1>15. /\ Len(all) = n1 + n2 + n3 + n4
       /\ StandsAfter(all, 0, w1) /\ StandsAfter(all, n1, w2)
       /\ StandsAfter(all, n1 + n2, w3) /\ StandsAfter(all, n1 + n2 + n3, w4)
  BY <1>0, <1>10, <1>11, <1>12, <1>13, <1>14 DEF StandsAfter
<1> QED
  BY <1>0, <1>4, <1>15

\* An event that stands in the stream after the first o lines has gone through.
LEMMA EventInStream ==
  ASSUME NEW T, NEW name, NEW html, NEW Events, NEW e, NEW all, NEW len, NEW f, NEW o,
         NoText \in T, name \in T, html \in Seq(T), html # <<>>, e \in Seq(Events),
         len \in Nat, Reads(f, all, len), o \in Nat, HasRead(f, o, e),
         StandsAfter(all, o, WriteEvent(name, html)),
         o + Len(WriteEvent(name, html)) <= len
  PROVE  HasRead(f, o + Len(WriteEvent(name, html)), Append(e, EventOf(name, html)))
<1>1. PICK n \in Nat : n = Len(html) + 2 /\ n = Len(WriteEvent(name, html))
  BY EventLines
<1>2. ASSUME NEW i \in 1..n
      PROVE  f[o + i] = ParseLine(f[o + i - 1], WriteEvent(name, html)[i])
  <2>1. o + i \in 1..len
    BY <1>1
  <2> QED
    BY <1>1, <2>1 DEF Reads, StandsAfter
<1>3. \A i \in 1..(Len(html) + 2) : f[o + i] = ParseLine(f[o + i - 1], WriteEvent(name, html)[i])
  BY <1>1, <1>2
<1>4. f[o] = Clean(e)
  BY DEF HasRead
<1>5. f[o + (Len(html) + 2)] = Clean(Append(e, [name |-> name, data |-> <<Head(html)>>]))
  BY <1>3, <1>4, EventIsRead, Zenon
<1> QED
  BY <1>1, <1>5 DEF HasRead, EventOf

LEMMA FourAppended ==
  ASSUME NEW S, NEW v1 \in S, NEW v2 \in S, NEW v3 \in S, NEW v4 \in S,
         NEW e1, e1 = Append(<<>>, v1), NEW e2, e2 = Append(e1, v2),
         NEW e3, e3 = Append(e2, v3), NEW e4, e4 = Append(e3, v4)
  PROVE  /\ e1 \in Seq(S) /\ e2 \in Seq(S) /\ e3 \in Seq(S) /\ e4 \in Seq(S)
         /\ Len(e4) = 4 /\ e4[1] = v1 /\ e4[2] = v2 /\ e4[3] = v3 /\ e4[4] = v4
<1>1. e1 \in Seq(S) /\ Len(e1) = 1 /\ e1[1] = v1
  OBVIOUS
<1>2. e2 \in Seq(S) /\ Len(e2) = 2 /\ e2[1] = v1 /\ e2[2] = v2
  BY <1>1, AppendProperties
<1>3. e3 \in Seq(S) /\ Len(e3) = 3 /\ e3[1] = v1 /\ e3[2] = v2 /\ e3[3] = v3
  BY <1>2, AppendProperties
<1>4. /\ e4 \in Seq(S) /\ Len(e4) = 4
      /\ e4[1] = v1 /\ e4[2] = v2 /\ e4[3] = v3 /\ e4[4] = v4
  BY <1>3, AppendProperties
<1> QED
  BY <1>1, <1>2, <1>3, <1>4

LEMMA FourEntries ==
  ASSUME NEW S, NEW e \in Seq(S), Len(e) = 4,
         NEW g, DOMAIN g = 1..4, g = [i \in 1..4 |-> g[i]],
         e[1] = g[1], e[2] = g[2], e[3] = g[3], e[4] = g[4]
  PROVE  e = g
<1>1. e = [i \in 1..4 |-> e[i]]
  OBVIOUS
<1>2. \A i \in 1..4 : i = 1 \/ i = 2 \/ i = 3 \/ i = 4
  OBVIOUS
<1>3. \A i \in 1..4 : e[i] = g[i]
  BY <1>2
<1> QED
  BY <1>1, <1>3

Partials == {"metrics", "docker", "systemd", "charts"}

\* sse.go:132-158: whatever texts the partials have, a browser takes the payload apart
\* into one event of each, in order, whose data is the first line of the text; nothing is
\* left over.
THEOREM FourEvents ==
  ASSUME NEW Text, NEW partials,
         \A name \in {"metrics", "docker", "systemd", "charts"} :
           partials[name] \in Seq(Text) \ {<<>>}
  PROVE  Parse(BuildPayload(partials)) =
           Clean([i \in 1..4 |-> [name |-> EventNames[i],
                                  data |-> <<Head(partials[EventNames[i]])>>]])
<1>1. PICK T : T = Text \cup Partials \cup {NoText}
  OBVIOUS
<1>2. NoText \in T /\ Text \subseteq T
  BY <1>1
<1>3. "metrics" \in T /\ "docker" \in T /\ "systemd" \in T /\ "charts" \in T
  BY <1>1 DEF Partials
<1>4. ASSUME NEW name \in Partials
      PROVE  partials[name] \in Seq(T) /\ partials[name] # <<>>
  <2>1. partials[name] \in Seq(Text) /\ partials[name] # <<>>
    BY DEF Partials
  <2> QED
    BY <1>2, <2>1, SeqMonotonic
<1>5. PICK h1 \in Seq(T), h2 \in Seq(T), h3 \in Seq(T), h4 \in Seq(T) :
        /\ h1 = partials["metrics"] /\ h1 # <<>>
        /\ h2 = partials["docker"] /\ h2 # <<>>
        /\ h3 = partials["systemd"] /\ h3 # <<>>
        /\ h4 = partials["charts"] /\ h4 # <<>>
  BY <1>4 DEF Partials
<1>6. PICK L : L = StreamLines(T)
  OBVIOUS
<1>7. ASSUME NEW name \in T, NEW html \in Seq(T), html # <<>>
      PROVE  /\ WriteEvent(name, html) \in Seq(L)
             /\ Len(WriteEvent(name, html)) = Len(html) + 2
             /\ Len(html) + 2 \in Nat
  BY <1>2, <1>6, <1>7, EventLines
<1>8. PICK n1 \in Nat, w1 \in Seq(L) :
        n1 = Len(h1) + 2 /\ w1 = WriteEvent("metrics", h1) /\ n1 = Len(w1)
  BY <1>3, <1>5, <1>7
<1>9. PICK n2 \in Nat, w2 \in Seq(L) :
        n2 = Len(h2) + 2 /\ w2 = WriteEvent("docker", h2) /\ n2 = Len(w2)
  BY <1>3, <1>5, <1>7
<1>10. PICK n3 \in Nat, w3 \in Seq(L) :
         n3 = Len(h3) + 2 /\ w3 = WriteEvent("systemd", h3) /\ n3 = Len(w3)
  BY <1>3, <1>5, <1>7
<1>11. PICK n4 \in Nat, w4 \in Seq(L) :
         n4 = Len(h4) + 2 /\ w4 = WriteEvent("charts", h4) /\ n4 = Len(w4)
  BY <1>3, <1>5, <1>7
<1>12. PICK all : all = w1 \o w2 \o w3 \o w4
  OBVIOUS
<1>13. all = BuildPayload(partials)
  BY <1>5, <1>8, <1>9, <1>10, <1>11, <1>12, Zenon DEF BuildPayload
<1>14. /\ Len(all) = n1 + n2 + n3 + n4
       /\ StandsAfter(all, 0, w1) /\ StandsAfter(all, n1, w2)
       /\ StandsAfter(all, n1 + n2, w3) /\ StandsAfter(all, n1 + n2 + n3, w4)
  <2>1. n1 = Len(w1) /\ n2 = Len(w2) /\ n3 = Len(w3) /\ n4 = Len(w4)
    BY <1>8, <1>9, <1>10, <1>11
  <2>2. LET s == w1 \o w2 \o w3 \o w4
        IN /\ Len(s) = Len(w1) + Len(w2) + Len(w3) + Len(w4)
           /\ StandsAfter(s, 0, w1) /\ StandsAfter(s, Len(w1), w2)
           /\ StandsAfter(s, Len(w1) + Len(w2), w3)
           /\ StandsAfter(s, Len(w1) + Len(w2) + Len(w3), w4)
    BY FourJoined
  <2> QED
    BY <1>12, <2>1, <2>2
<1>15. PICK len \in Nat : len = Len(all) /\ len = n1 + n2 + n3 + n4
  BY <1>14
<1>16. PICK f : HasRead(f, 0, <<>>) /\ Reads(f, all, len) /\ Parse(all) = f[len]
  BY <1>15, ParseLineByLine DEF Reads, HasRead
<1>17. PICK v1, v2, v3, v4 :
         /\ v1 = EventOf("metrics", h1) /\ v2 = EventOf("docker", h2)
         /\ v3 = EventOf("systemd", h3) /\ v4 = EventOf("charts", h4)
  OBVIOUS
<1>18. PICK e1, e2, e3, e4 :
         /\ e1 = Append(<<>>, v1) /\ e2 = Append(e1, v2)
         /\ e3 = Append(e2, v3) /\ e4 = Append(e3, v4)
  OBVIOUS
<1>19. PICK Events : Events = {v1, v2, v3, v4}
  OBVIOUS
<1>20. /\ <<>> \in Seq(Events) /\ e1 \in Seq(Events) /\ e2 \in Seq(Events)
       /\ e3 \in Seq(Events) /\ e4 \in Seq(Events)
       /\ Len(e4) = 4 /\ e4[1] = v1 /\ e4[2] = v2 /\ e4[3] = v3 /\ e4[4] = v4
  <2>1. v1 \in Events /\ v2 \in Events /\ v3 \in Events /\ v4 \in Events
    BY <1>19
  <2>2. <<>> \in Seq(Events)
    OBVIOUS
  <2> QED
    BY <1>18, <2>1, <2>2, FourAppended
<1>21. ASSUME NEW name, NEW html, NEW e, NEW o,
              name \in T, html \in Seq(T), html # <<>>, e \in Seq(Events),
              o \in Nat, HasRead(f, o, e), StandsAfter(all, o, WriteEvent(name, html)),
              o + Len(WriteEvent(name, html)) <= len
       PROVE  HasRead(f, o + Len(WriteEvent(name, html)), Append(e, EventOf(name, html)))
  BY <1>2, <1>16, <1>21, EventInStream
<1>22. HasRead(f, n1, e1)
  <2>1. 0 \in Nat /\ 0 + n1 = n1 /\ 0 + n1 <= len
    BY <1>15
  <2>2. HasRead(f, 0 + n1, Append(<<>>, EventOf("metrics", h1)))
    BY <1>3, <1>5, <1>8, <1>14, <1>16, <1>20, <1>21, <2>1
  <2> QED
    BY <1>17, <1>18, <2>1, <2>2
<1>23. HasRead(f, n1 + n2, e2)
  <2>1. n1 + n2 <= len
    BY <1>15
  <2>2. HasRead(f, n1 + n2, Append(e1, EventOf("docker", h2)))
    BY <1>3, <1>5, <1>9, <1>14, <1>20, <1>21, <1>22, <2>1
  <2> QED
    BY <1>17, <1>18, <2>2
<1>24. HasRead(f, n1 + n2 + n3, e3)
  <2>1. n1 + n2 \in Nat /\ n1 + n2 + n3 <= len
    BY <1>15
  <2>2. HasRead(f, n1 + n2 + n3, Append(e2, EventOf("systemd", h3)))
    BY <1>3, <1>5, <1>10, <1>14, <1>20, <1>21, <1>23, <2>1
  <2> QED
    BY <1>17, <1>18, <2>2
<1>25. HasRead(f, n1 + n2 + n3 + n4, e4)
  <2>1. n1 + n2 + n3 \in Nat /\ n1 + n2 + n3 + n4 <= len
    BY <1>15
  <2>2. HasRead(f, n1 + n2 + n3 + n4, Append(e3, EventOf("charts", h4)))
    BY <1>3, <1>5, <1>11, <1>14, <1>20, <1>21, <1>24, <2>1
  <2> QED
    BY <1>17, <1>18, <2>2
<1>26. e4 = [i \in 1..4 |-> EventOf(EventNames[i], partials[EventNames[i]])]
  <2>1. PICK g : g = [i \in 1..4 |-> EventOf(EventNames[i], partials[EventNames[i]])]
    OBVIOUS
  <2>2. EventNames[1] = "metrics" /\ EventNames[2] = "docker"
        /\ EventNames[3] = "systemd" /\ EventNames[4] = "charts"
    BY DEF EventNames
  <2>3. /\ DOMAIN g = 1..4 /\ g = [i \in 1..4 |-> g[i]]
        /\ \A i \in 1..4 : g[i] = EventOf(EventNames[i], partials[EventNames[i]])
    BY <2>1
  <2>4. 1 \in 1..4 /\ 2 \in 1..4 /\ 3 \in 1..4 /\ 4 \in 1..4
    OBVIOUS
  <2>5. v1 = g[1] /\ v2 = g[2] /\ v3 = g[3] /\ v4 = g[4]
    BY <1>5, <1>17, <2>2, <2>3, <2>4
  <2> QED
    BY <1>20, <2>1, <2>3, <2>5, FourEntries
<1>27. Parse(BuildPayload(partials)) = Clean(e4)
  BY <1>13, <1>15, <1>16, <1>25 DEF HasRead
<1> QED
  BY <1>26, <1>27, Zenon DEF EventOf

\* sse.go:132-158: whatever the cards do, the payload is taken apart into its four events
\* and leaves nothing behind.
THEOREM StreamKeepsStep == TelSpec => []EventsKeepStep
<1>1. EventsKeepStep
  <2> DEFINE Text == {NoText, "cards", "charts", "table"}
  <2>1. \A name \in {"metrics", "docker", "systemd", "charts"} :
          Rendered[name] \in Seq(Text) \ {<<>>}
    BY DEF Rendered, NotRendered
  <2> DEFINE e == [i \in 1..4 |-> [name |-> EventNames[i], data |-> <<Head(Rendered[EventNames[i]])>>]]
  <2>2. Parse(BuildPayload(Rendered)) = Clean(e)
    <3> HIDE DEF Text
    <3> QED
      BY <2>1, FourEvents
  <2>3. Clean(e).events = e /\ Clean(e) = Clean(Clean(e).events)
    BY DEF Clean
  <2>4. DOMAIN e = 1..4 /\ \A i \in 1..4 : e[i].name = EventNames[i]
    OBVIOUS
  <2>5. EventNames = [i \in 1..4 |-> EventNames[i]]
    BY DEF EventNames
  <2> HIDE DEF e
  <2> QED
    BY <2>2, <2>3, <2>4, <2>5 DEF EventsKeepStep
<1> QED
  BY <1>1, PTL
=============================================================================
