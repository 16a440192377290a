--------------------------- MODULE Dashboard_proofs ---------------------------
(***************************************************************************)
(* Proofs about the live dashboard, for any clients, capacity and number   *)
(* of samples.  OrderInv says what a queue holds while its handler and the *)
(* broadcaster move independently: queues are sorted, what the broadcaster *)
(* has in hand is no older than any of them, and only the first early[c]   *)
(* payloads may be older than what the page of c shows.                    *)
(***************************************************************************)
EXTENDS Dashboard, TLAPS

LEMMA Reads ==
  ASSUME TypeOK, NEW p \in Payload
  PROVE  /\ ReadLatest(p) \in Payload /\ ReadLatest(p).latest = sample
         /\ ReadHistory(p) \in Payload /\ ReadHistory(p).history = sample
         /\ ReadHistory(p).latest = p.latest
BY DEF TypeOK, Payload, ReadLatest, ReadHistory

LEMMA TailOf ==
  ASSUME NEW s \in Seq(Payload), s # <<>>
  PROVE  /\ Len(s) \in Nat \ {0} /\ Head(s) = s[1] /\ s[1] \in Payload
         /\ Tail(s) \in Seq(Payload) /\ Len(Tail(s)) = Len(s) - 1
         /\ \A i \in 1..Len(Tail(s)) : i + 1 \in 1..Len(s) /\ Tail(s)[i] = s[i + 1]
OBVIOUS

LEMMA AppendOf ==
  ASSUME NEW s \in Seq(Payload), NEW p \in Payload
  PROVE  /\ Len(s) \in Nat /\ Len(Append(s, p)) = Len(s) + 1 /\ Append(s, p)[Len(s) + 1] = p
         /\ \A i \in 1..Len(s) : Append(s, p)[i] = s[i] /\ s[i] \in Payload
OBVIOUS

LEMMA BlankIsAPayload == Blank \in Payload /\ Blank.latest = 0 /\ Blank.history = 0
BY DashboardAssumption DEF Blank, Payload

\* Every variable has its type, whatever the clients do.
THEOREM TypeCorrect == Spec => []TypeOK
<1>1. Init => TypeOK
  BY DashboardAssumption, BlankIsAPayload DEF Init, TypeOK
<1>2. TypeOK /\ [Next]_vars => TypeOK'
  <2> SUFFICES ASSUME TypeOK, [Next]_vars PROVE TypeOK'
    OBVIOUS
  <2> USE DashboardAssumption DEF TypeOK
  <2>1. CASE Collect
    BY <2>1 DEF Collect, handlerVars, broadcastVars
  <2>2. CASE Wake \/ BroadcastLatest \/ BroadcastHistory \/ BeginBroadcast \/ EndBroadcast
    BY <2>2, Reads, BlankIsAPayload
      DEF Wake, BroadcastLatest, BroadcastHistory, BeginBroadcast, EndBroadcast, handlerVars
  <2>3. ASSUME NEW c \in Clients, Send(c) PROVE TypeOK'
    <3>1. ch[c] \in Seq(Payload) /\ Append(ch[c], payload) \in Seq(Payload)
          /\ Len(Append(ch[c], payload)) = Len(ch[c]) + 1 /\ Len(ch[c]) \in Nat
      OBVIOUS
    <3>2. ch' \in [Clients -> Seq(Payload)] /\ \A d \in Clients : Len(ch'[d]) <= Capacity
      BY <2>3, <3>1 DEF Send, Queue
    <3>3. QED
      BY <2>3, <3>2 DEF Send, handlerVars
  <2>4. ASSUME NEW c \in Clients, AddClient(c) PROVE TypeOK'
    BY <2>4 DEF AddClient, broadcastVars
  <2>5. ASSUME NEW c \in Clients, HangUp(c) PROVE TypeOK'
    BY <2>5 DEF HangUp, handlerVars, broadcastVars
  <2>6. ASSUME NEW c \in Clients, RenderLatest(c) PROVE TypeOK'
    BY <2>6, Reads DEF RenderLatest, broadcastVars
  <2>7. ASSUME NEW c \in Clients, RenderHistory(c) PROVE TypeOK'
    <3>1. Len(ch[c]) \in Nat
      OBVIOUS
    <3>2. early' \in [Clients -> 0..(Capacity + 1)]
      BY <2>7, <3>1 DEF RenderHistory
    <3>3. draft' \in [Clients -> Payload] /\ pc' \in [Clients -> {"out", "latest", "history", "write", "loop"}]
      BY <2>7, Reads DEF RenderHistory
    <3>4. QED
      BY <2>7, <3>2, <3>3 DEF RenderHistory, broadcastVars
  <2>8. ASSUME NEW c \in Clients, Deliver(c) PROVE TypeOK'
    BY <2>8, BlankIsAPayload DEF Deliver, broadcastVars
  <2>9. ASSUME NEW c \in Clients, Receive(c) PROVE TypeOK'
    <3>1. ch[c] \in Seq(Payload) /\ ch[c] # <<>>
      BY <2>9 DEF Receive
    <3>2. Head(ch[c]) \in Payload /\ Tail(ch[c]) \in Seq(Payload) /\ Len(Tail(ch[c])) <= Capacity
      BY <3>1
    <3>3. early' \in [Clients -> 0..(Capacity + 1)]
      BY <2>9 DEF Receive
    <3>4. QED
      BY <2>9, <3>2, <3>3 DEF Receive, broadcastVars
  <2>10. ASSUME NEW c \in Clients, RemoveClient(c) PROVE TypeOK'
    BY <2>10, BlankIsAPayload DEF RemoveClient, broadcastVars
  <2>11. CASE UNCHANGED vars
    BY <2>11 DEF vars
  <2>12. QED
    BY <2>1, <2>2, <2>3, <2>4, <2>5, <2>6, <2>7, <2>8, <2>9, <2>10, <2>11
      DEF Next, Broadcast, HandlerStep
<1>3. QED
  BY <1>1, <1>2, PTL DEF Spec

-----------------------------------------------------------------------------
(* The broker's map                                                        *)

\* The broker knows the clients that run a handler, and the loop those it knew when
\* it took the lock.
Known ==
  /\ registered = {c \in Clients : pc[c] # "out"}
  /\ todo \subseteq registered
  /\ bpc # "send" => todo = {}

LEMMA KnownStep == TypeOK /\ Known /\ [Next]_vars => Known'
<1> SUFFICES ASSUME TypeOK, Known, [Next]_vars PROVE Known'
  OBVIOUS
<1> USE DEF TypeOK, Known
<1>1. CASE Collect
  BY <1>1 DEF Collect, handlerVars, broadcastVars
<1>2. CASE Wake \/ BroadcastLatest \/ BroadcastHistory \/ BeginBroadcast \/ EndBroadcast
  BY <1>2 DEF Wake, BroadcastLatest, BroadcastHistory, BeginBroadcast, EndBroadcast, handlerVars
<1>3. ASSUME NEW c \in Clients, Send(c) PROVE Known'
  BY <1>3 DEF Send, handlerVars
<1>4. ASSUME NEW c \in Clients, AddClient(c) PROVE Known'
  BY <1>4 DEF AddClient, Unlocked, broadcastVars
<1>5. ASSUME NEW c \in Clients, HangUp(c) PROVE Known'
  BY <1>5 DEF HangUp, handlerVars, broadcastVars
<1>6. ASSUME NEW c \in Clients, RenderLatest(c) \/ RenderHistory(c) \/ Deliver(c) \/ Receive(c)
      PROVE  Known'
  BY <1>6 DEF RenderLatest, RenderHistory, Deliver, Receive, broadcastVars
<1>7. ASSUME NEW c \in Clients, RemoveClient(c) PROVE Known'
  BY <1>7 DEF RemoveClient, Unlocked, broadcastVars
<1>8. CASE UNCHANGED vars
  BY <1>8 DEF vars
<1>9. QED
  BY <1>1, <1>2, <1>3, <1>4, <1>5, <1>6, <1>7, <1>8 DEF Next, Broadcast, HandlerStep

LEMMA KnownAlways == Spec => []Known
<1>1. Init => Known
  BY DEF Init, Known
<1>2. QED
  BY <1>1, KnownStep, TypeCorrect, PTL DEF Spec

\* However clients leave while a broadcast runs, it sends on no channel that was
\* closed (sse.go:56-74).
THEOREM SendsOnOpenChannels == Spec => []NoSendOnClosed
<1>1. Known => NoSendOnClosed
  BY DEF Known, NoSendOnClosed
<1>2. QED
  BY <1>1, KnownAlways, PTL

-----------------------------------------------------------------------------
(* What a payload was rendered from                                        *)

\* A payload read in the past, and one whose charts were read after its gauges.
Past(p) == p.latest <= sample
Made(p) == Past(p) /\ p.latest <= p.history

MadeFor(c) ==
  /\ Past(draft[c]) /\ Made(shown[c])
  /\ pc[c] = "write" => Made(draft[c])
  /\ \A i \in 1..Len(ch[c]) : Made(ch[c][i])

MadeInv ==
  /\ Past(payload)
  /\ bpc \in {"render", "send"} => Made(payload)
  /\ \A c \in Clients : MadeFor(c)

\* A step that is none of c's business.
LEMMA MadeKept ==
  ASSUME NEW c \in Clients, MadeFor(c), sample' = sample, ch'[c] = ch[c],
         draft'[c] = draft[c], shown'[c] = shown[c], pc'[c] = pc[c]
  PROVE  MadeFor(c)'
BY DEF MadeFor, Past, Made

\* The samples only grow more.
LEMMA MadeLater ==
  ASSUME TypeOK, MadeInv, Collect
  PROVE  MadeInv'
<1>1. /\ UNCHANGED <<ch, pc, draft, shown, bpc, payload>>
      /\ sample \in Nat /\ sample' = sample + 1
  BY DashboardAssumption DEF Collect, handlerVars, broadcastVars, TypeOK
<1>2. \A p \in Payload : (Past(p) => Past(p)') /\ (Made(p) => Made(p)')
  <2>1. \A p \in Payload : p.latest \in Nat
    BY DashboardAssumption DEF Payload
  <2>2. QED
    BY <1>1, <2>1 DEF Past, Made
<1>3. Past(payload)' /\ (bpc' \in {"render", "send"} => Made(payload)')
  <2>1. payload \in Payload
    BY DEF TypeOK
  <2>2. QED
    BY <1>1, <1>2, <2>1 DEF MadeInv
<1>4. ASSUME NEW c \in Clients PROVE MadeFor(c)'
  <2>1. /\ draft[c] \in Payload /\ shown[c] \in Payload
        /\ \A i \in 1..Len(ch[c]) : ch[c][i] \in Payload
    BY DEF TypeOK
  <2>2. MadeFor(c)
    BY DEF MadeInv
  <2>3. QED
    BY <1>1, <1>2, <2>1, <2>2 DEF MadeFor
<1>5. QED
  BY <1>3, <1>4 DEF MadeInv

LEMMA MadeByBroadcaster ==
  ASSUME TypeOK, MadeInv,
         Wake \/ BroadcastLatest \/ BroadcastHistory \/ BeginBroadcast \/ EndBroadcast
  PROVE  MadeInv'
<1>1. UNCHANGED <<sample, ch, pc, draft, shown>>
  BY DEF Wake, BroadcastLatest, BroadcastHistory, BeginBroadcast, EndBroadcast, handlerVars
<1>2. \A c \in Clients : MadeFor(c)'
  BY <1>1, MadeKept DEF MadeInv
<1>3. payload \in Payload /\ Blank.latest = 0 /\ sample \in Nat /\ Past(payload)
  BY BlankIsAPayload, DashboardAssumption DEF TypeOK, MadeInv
<1>4. Past(payload)' /\ (bpc' \in {"render", "send"} => Made(payload)')
  <2>1. CASE Wake \/ EndBroadcast
    BY <1>1, <1>3, <2>1 DEF Wake, EndBroadcast, Past, MadeInv
  <2>2. CASE BroadcastLatest
    BY <1>1, <1>3, <2>2, Reads DEF BroadcastLatest, Past
  <2>3. CASE BroadcastHistory
    BY <1>1, <1>3, <2>3, Reads DEF BroadcastHistory, Past, Made
  <2>4. CASE BeginBroadcast
    BY <1>1, <2>4 DEF BeginBroadcast, MadeInv, Past, Made
  <2>5. QED
    BY <2>1, <2>2, <2>3, <2>4
<1>5. QED
  BY <1>2, <1>4 DEF MadeInv

LEMMA MadeBySend ==
  ASSUME TypeOK, MadeInv, NEW c \in Clients, Send(c)
  PROVE  MadeInv'
<1>1. /\ UNCHANGED <<sample, pc, draft, shown, bpc, payload>>
      /\ ch[c] \in Seq(Payload) /\ payload \in Payload /\ Made(payload)
  BY DEF Send, handlerVars, TypeOK, MadeInv
<1>2. ASSUME NEW d \in Clients, d # c PROVE MadeFor(d)'
  <2>1. ch'[d] = ch[d]
    BY <1>2 DEF Send, Queue, TypeOK
  <2>2. QED
    BY <1>1, <2>1, MadeKept DEF MadeInv
<1>3. MadeFor(c)'
  <2>1. MadeFor(c)
    BY DEF MadeInv
  <2>2. ch'[c] = ch[c] \/ ch'[c] = Append(ch[c], payload)
    BY DEF Send, Queue, TypeOK
  <2>3. CASE ch'[c] = ch[c]
    BY <1>1, <2>1, <2>3, MadeKept
  <2>4. CASE ch'[c] = Append(ch[c], payload)
    <3>1. \A i \in 1..Len(ch'[c]) : i \in 1..Len(ch[c]) \/ i = Len(ch[c]) + 1
      BY <1>1, <2>4, AppendOf
    <3>2. \A i \in 1..Len(ch'[c]) : Made(ch'[c][i])
      BY <1>1, <2>1, <2>4, <3>1, AppendOf DEF MadeFor
    <3>3. \A i \in 1..Len(ch'[c]) : Made(ch[c][i])'
      BY <1>1, <3>2 DEF Made, Past
    <3>4. QED
      BY <1>1, <2>1, <3>3 DEF MadeFor, Made, Past
  <2>5. QED
    BY <2>2, <2>3, <2>4
<1>4. QED
  BY <1>1, <1>2, <1>3 DEF MadeInv, Past, Made

LEMMA MadeByHandler ==
  ASSUME TypeOK, MadeInv, NEW c \in Clients,
         AddClient(c) \/ HangUp(c) \/ HandlerStep(c) \/ Deliver(c)
  PROVE  MadeInv'
<1>1. UNCHANGED <<sample, bpc, payload>>
  BY DEF AddClient, HangUp, HandlerStep, RenderLatest, RenderHistory, Receive, RemoveClient,
    Deliver, broadcastVars
<1>2. ASSUME NEW d \in Clients, d # c PROVE MadeFor(d)'
  <2>1. ch'[d] = ch[d] /\ draft'[d] = draft[d] /\ shown'[d] = shown[d] /\ pc'[d] = pc[d]
    BY <1>2 DEF AddClient, HangUp, HandlerStep, RenderLatest, RenderHistory, Receive,
      RemoveClient, Deliver, handlerVars, TypeOK
  <2>2. QED
    BY <1>1, <2>1, MadeKept DEF MadeInv
<1>3. MadeFor(c) /\ draft[c] \in Payload /\ sample \in Nat
  BY DashboardAssumption DEF MadeInv, TypeOK
<1>4. MadeFor(c)'
  <2>1. CASE HangUp(c)
    BY <1>1, <1>3, <2>1, MadeKept DEF HangUp, handlerVars
  <2>2. CASE AddClient(c) \/ RemoveClient(c)
    <3>1. /\ ch'[c] = <<>> /\ pc'[c] # "write" /\ shown'[c] \in {shown[c], Blank}
          /\ draft'[c] \in {draft[c], Blank}
      BY <2>2 DEF AddClient, RemoveClient, TypeOK
    <3>2. QED
      BY <1>1, <1>3, <3>1, BlankIsAPayload DEF MadeFor, Past, Made
  <2>3. CASE RenderLatest(c)
    <3>1. /\ ch' = ch /\ shown' = shown /\ pc'[c] # "write"
          /\ draft'[c] = ReadLatest(draft[c])
      BY <2>3 DEF RenderLatest, TypeOK
    <3>2. QED
      BY <1>1, <1>3, <3>1, Reads DEF MadeFor, Past, Made
  <2>4. CASE RenderHistory(c)
    <3>1. ch' = ch /\ shown' = shown /\ draft'[c] = ReadHistory(draft[c])
      BY <2>4 DEF RenderHistory, TypeOK
    <3>2. QED
      BY <1>1, <1>3, <3>1, Reads DEF MadeFor, Past, Made
  <2>5. CASE Receive(c)
    <3>1. /\ ch[c] \in Seq(Payload) /\ ch[c] # <<>> /\ ch'[c] = Tail(ch[c])
          /\ shown' = shown /\ draft'[c] = Head(ch[c])
      BY <2>5 DEF Receive, TypeOK
    <3>2. Made(Head(ch[c])) /\ \A i \in 1..Len(Tail(ch[c])) : Made(Tail(ch[c])[i])
      BY <1>3, <3>1, TailOf DEF MadeFor
    <3>3. QED
      BY <1>1, <1>3, <3>1, <3>2 DEF MadeFor, Past, Made
  <2>6. CASE Deliver(c)
    <3>1. /\ ch' = ch /\ pc[c] = "write" /\ pc'[c] = "loop" /\ shown'[c] = draft[c]
          /\ draft'[c] \in {draft[c], Blank}
      BY <2>6 DEF Deliver, TypeOK
    <3>2. QED
      BY <1>1, <1>3, <3>1, BlankIsAPayload DEF MadeFor, Past, Made
  <2>7. QED
    BY <2>1, <2>2, <2>3, <2>4, <2>5, <2>6 DEF HandlerStep
<1>5. QED
  BY <1>1, <1>2, <1>4 DEF MadeInv, Past, Made

LEMMA MadeStep == TypeOK /\ MadeInv /\ [Next]_vars => MadeInv'
<1>1. ASSUME MadeInv, UNCHANGED vars PROVE MadeInv'
  BY <1>1 DEF vars, MadeInv, MadeFor, Past, Made
<1>2. QED
  BY <1>1, MadeLater, MadeByBroadcaster, MadeBySend, MadeByHandler DEF Next, Broadcast

LEMMA MadeAlways == Spec => []MadeInv
<1>1. Init => MadeInv
  BY BlankIsAPayload DEF Init, MadeInv, MadeFor, Past, Made
<1>2. QED
  BY <1>1, MadeStep, TypeCorrect, PTL DEF Spec

\* The charts of a page are never behind its gauges, which gatherDashboardData reads
\* first (sse.go:166-168).
THEOREM ChartsKeepUp == Spec => []ChartsNotBehind
<1>1. TypeOK /\ MadeInv => ChartsNotBehind
  BY DEF TypeOK, Payload, MadeInv, MadeFor, Made, ChartsNotBehind
<1>2. QED
  BY <1>1, MadeAlways, TypeCorrect, PTL

-----------------------------------------------------------------------------
(* The order of a client's payloads                                        *)

\* The broadcast in progress may still be queued for c.
Pending(c) == bpc \in {"history", "render"} \/ c \in todo

\* What the page of c shows, or is about to.
Base(c) == (IF pc[c] = "write" THEN draft[c] ELSE shown[c]).latest

Sorted(c) == \A i, j \in 1..Len(ch[c]) : i <= j => ch[c][i].latest <= ch[c][j].latest
PendingIsNewest(c) == Pending(c) => \A i \in 1..Len(ch[c]) : ch[c][i].latest <= payload.latest
QueueIsAhead(c) ==
  pc[c] \in {"write", "loop"} =>
    \A i \in 1..Len(ch[c]) : i > early[c] => Base(c) <= ch[c][i].latest
PendingIsAhead(c) ==
  pc[c] \in {"write", "loop"} /\ Pending(c) /\ Len(ch[c]) >= early[c] => Base(c) <= payload.latest

Order(c) == Sorted(c) /\ PendingIsNewest(c) /\ QueueIsAhead(c) /\ PendingIsAhead(c)
OrderInv == \A c \in Clients : Order(c)

\* What a step must leave alone for the order of c's payloads to be none of its business.
Untouched(c) == UNCHANGED <<ch[c], pc[c], draft[c], shown[c], early[c]>>

LEMMA OrderKept ==
  ASSUME NEW c \in Clients, Order(c), Untouched(c), payload' = payload, Pending(c)' => Pending(c)
  PROVE  Order(c)'
BY DEF Order, Sorted, PendingIsNewest, QueueIsAhead, PendingIsAhead, Base, Untouched

\* A client with an empty queue whose handler has shown nothing yet.
LEMMA OrderOfNone ==
  ASSUME NEW c \in Clients, ch'[c] = <<>>, pc'[c] \notin {"write", "loop"}
  PROVE  Order(c)'
BY DEF Order, Sorted, PendingIsNewest, QueueIsAhead, PendingIsAhead

\* A step of the client's own that is not to be seen in its queue nor on its page.
LEMMA OrderWaits ==
  ASSUME NEW c \in Clients, Order(c), ch'[c] = ch[c], pc'[c] \notin {"write", "loop"},
         UNCHANGED <<bpc, payload, todo>>
  PROVE  Order(c)'
BY DEF Order, Sorted, PendingIsNewest, QueueIsAhead, PendingIsAhead, Pending

LEMMA BroadcasterKeepsOrder ==
  ASSUME TypeOK, Known, MadeInv, OrderInv,
         Wake \/ BroadcastLatest \/ BroadcastHistory \/ BeginBroadcast \/ EndBroadcast
  PROVE  OrderInv'
<1> USE DEF TypeOK, OrderInv
<1>1. UNCHANGED <<sample, ch, handlerVars>>
  BY DEF Wake, BroadcastLatest, BroadcastHistory, BeginBroadcast, EndBroadcast
<1>2. \A c \in Clients : Untouched(c)
  BY <1>1 DEF Untouched, handlerVars
<1>3. CASE Wake \/ EndBroadcast
  <2>1. \A c \in Clients : ~Pending(c)'
    BY <1>3 DEF Wake, EndBroadcast, Pending, Known
  <2>2. QED
    BY <1>2, <2>1 DEF Order, Sorted, PendingIsNewest, QueueIsAhead, PendingIsAhead, Base, Untouched
<1>4. CASE BroadcastLatest
  <2>1. payload'.latest = sample
    BY <1>4, Reads DEF BroadcastLatest
  <2>2. ASSUME NEW c \in Clients PROVE Order(c)'
    <3>1. (\A i \in 1..Len(ch[c]) : ch[c][i].latest <= sample) /\ Base(c) <= sample
      BY DEF MadeInv, MadeFor, Made, Past, Base
    <3>2. QED
      BY <1>2, <2>1, <3>1
        DEF Order, Sorted, PendingIsNewest, QueueIsAhead, PendingIsAhead, Base, Untouched
  <2>3. QED
    BY <2>2
<1>5. CASE BroadcastHistory
  <2>1. payload'.latest = payload.latest /\ \A c \in Clients : Pending(c)
    BY <1>5, Reads DEF BroadcastHistory, Pending
  <2>2. QED
    BY <1>2, <2>1 DEF Order, Sorted, PendingIsNewest, QueueIsAhead, PendingIsAhead, Base, Untouched
<1>6. CASE BeginBroadcast
  <2>1. payload' = payload /\ \A c \in Clients : Pending(c)
    BY <1>6 DEF BeginBroadcast, Pending
  <2>2. QED
    BY <1>2, <2>1, OrderKept
<1>7. QED
  BY <1>3, <1>4, <1>5, <1>6

LEMMA SendKeepsOrder ==
  ASSUME TypeOK, Known, MadeInv, OrderInv, NEW c \in Clients, Send(c)
  PROVE  OrderInv'
<1> USE DEF TypeOK, OrderInv
<1>1. /\ ~Pending(c)' /\ Pending(c) /\ payload' = payload /\ UNCHANGED handlerVars
      /\ \A d \in Clients : Pending(d)' => Pending(d)
  BY DEF Send, Pending
<1>2. ASSUME NEW d \in Clients, d # c PROVE Order(d)'
  <2>1. Untouched(d)
    BY <1>1, <1>2 DEF Send, Queue, Untouched, handlerVars
  <2>2. QED
    BY <1>1, <2>1, OrderKept
<1>3. ASSUME ch'[c] = ch[c] PROVE Order(c)'
  <2>1. Untouched(c)
    BY <1>1, <1>3 DEF handlerVars, Untouched
  <2>2. QED
    BY <1>1, <2>1, OrderKept
<1>4. ASSUME ch'[c] = Append(ch[c], payload) PROVE Order(c)'
  <2> DEFINE n == Len(ch[c])
  <2>1. /\ n \in Nat /\ Len(ch'[c]) = n + 1 /\ ch'[c][n + 1].latest = payload.latest
        /\ \A i \in 1..n : ch'[c][i].latest = ch[c][i].latest
        /\ payload.latest \in Nat
    BY <1>4, AppendOf DEF Payload
  <2>2. \A i \in 1..n : ch[c][i].latest <= payload.latest
    BY <1>1 DEF Order, PendingIsNewest
  <2>3. \A i, j \in 1..n : i <= j => ch[c][i].latest <= ch[c][j].latest
    BY DEF Order, Sorted
  <2> HIDE DEF n
  <2>4. \A i \in 1..(n + 1) : i \in 1..n \/ i = n + 1
    BY <2>1
  <2>5. Sorted(c)'
    <3>1. SUFFICES ASSUME NEW i \in 1..(n + 1), NEW j \in 1..(n + 1), i <= j
                   PROVE  ch'[c][i].latest <= ch'[c][j].latest
      BY <2>1 DEF Sorted
    <3>2. CASE j = n + 1
      BY <2>1, <2>2, <2>4, <3>2
    <3>3. CASE j \in 1..n
      <4>1. i \in 1..n
        BY <2>1, <3>1, <3>3
      <4>2. QED
        BY <2>1, <2>3, <3>1, <3>3, <4>1
    <3>4. QED
      BY <2>4, <3>2, <3>3
  <2>6. PendingIsNewest(c)' /\ PendingIsAhead(c)'
    BY <1>1 DEF PendingIsNewest, PendingIsAhead
  <2>7. QueueIsAhead(c)'
    <3>1. pc'[c] = pc[c] /\ Base(c)' = Base(c) /\ early'[c] = early[c] /\ early[c] \in Nat
      BY <1>1 DEF handlerVars, Base
    <3>2. SUFFICES ASSUME pc[c] \in {"write", "loop"}, NEW i \in 1..(n + 1), i > early[c]
                   PROVE  Base(c) <= ch'[c][i].latest
      BY <2>1, <3>1 DEF QueueIsAhead
    <3>3. CASE i = n + 1
      <4>1. n >= early[c]
        BY <2>1, <3>1, <3>2, <3>3
      <4>2. QED
        BY <1>1, <2>1, <3>2, <3>3, <4>1 DEF n, Order, PendingIsAhead
    <3>4. CASE i \in 1..n
      BY <2>1, <3>2, <3>4 DEF n, Order, QueueIsAhead
    <3>5. QED
      BY <2>4, <3>3, <3>4
  <2>8. QED
    BY <2>5, <2>6, <2>7 DEF Order
<1>5. ch'[c] = ch[c] \/ ch'[c] = Append(ch[c], payload)
  BY DEF Send, Queue
<1>6. QED
  BY <1>2, <1>3, <1>4, <1>5

LEMMA HandlerKeepsOrder ==
  ASSUME TypeOK, Known, MadeInv, OrderInv, NEW c \in Clients,
         AddClient(c) \/ HangUp(c) \/ HandlerStep(c) \/ Deliver(c)
  PROVE  OrderInv'
<1> USE DEF TypeOK, OrderInv
<1>1. UNCHANGED broadcastVars /\ \A d \in Clients : Pending(d)' = Pending(d)
  BY DEF AddClient, HangUp, HandlerStep, RenderLatest, RenderHistory, Receive, RemoveClient,
    Deliver, broadcastVars, Pending
<1>2. ASSUME NEW d \in Clients, d # c PROVE Order(d)'
  <2>1. Untouched(d)
    BY <1>2 DEF AddClient, HangUp, HandlerStep, RenderLatest, RenderHistory, Receive,
      RemoveClient, Deliver, Untouched, handlerVars
  <2>2. QED
    BY <1>1, <2>1, OrderKept DEF broadcastVars
<1>3. ASSUME AddClient(c) \/ RemoveClient(c) PROVE Order(c)'
  BY <1>3, OrderOfNone DEF AddClient, RemoveClient
<1>4. ASSUME RenderLatest(c) PROVE Order(c)'
  BY <1>1, <1>4, OrderWaits DEF RenderLatest, broadcastVars
<1>5. ASSUME HangUp(c) PROVE Order(c)'
  <2>1. Untouched(c)
    BY <1>5 DEF HangUp, Untouched, handlerVars
  <2>2. QED
    BY <1>1, <2>1, OrderKept DEF broadcastVars
<1>6. ASSUME RenderHistory(c) PROVE Order(c)'
  <2>1. /\ ch' = ch /\ payload' = payload /\ Len(ch[c]) \in Nat
        /\ early'[c] \in Nat /\ early'[c] >= Len(ch[c])
        /\ Pending(c) => early'[c] > Len(ch[c])
    BY <1>6 DEF RenderHistory, broadcastVars, Pending
  <2>2. QueueIsAhead(c)' /\ PendingIsAhead(c)'
    BY <1>1, <2>1 DEF QueueIsAhead, PendingIsAhead
  <2>3. Sorted(c)' /\ PendingIsNewest(c)'
    BY <1>1, <2>1 DEF Order, Sorted, PendingIsNewest
  <2>4. QED
    BY <2>2, <2>3 DEF Order
<1>7. ASSUME Deliver(c) PROVE Order(c)'
  <2>1. /\ ch' = ch /\ payload' = payload /\ early' = early
        /\ pc[c] = "write" /\ pc'[c] = "loop" /\ Base(c)' = Base(c)
    BY <1>7 DEF Deliver, broadcastVars, Base
  <2>2. QED
    BY <1>1, <2>1 DEF Order, Sorted, PendingIsNewest, QueueIsAhead, PendingIsAhead
<1>8. ASSUME Receive(c) PROVE Order(c)'
  <2> DEFINE n == Len(ch[c])
  <2>1. /\ n \in Nat \ {0} /\ Len(ch'[c]) = n - 1 /\ 1 \in 1..n
        /\ \A i \in 1..(n - 1) : i + 1 \in 1..n /\ ch'[c][i].latest = ch[c][i + 1].latest
    <3>1. ch[c] \in Seq(Payload) /\ ch[c] # <<>> /\ ch'[c] = Tail(ch[c])
      BY <1>8 DEF Receive
    <3>2. QED
      BY <3>1, TailOf
  <2>2. /\ pc[c] = "loop" /\ pc'[c] = "write" /\ Base(c)' = ch[c][1].latest
        /\ payload' = payload /\ Base(c) = shown[c].latest
        /\ early[c] \in Nat /\ early'[c] = IF early[c] = 0 THEN 0 ELSE early[c] - 1
    BY <1>8, TailOf DEF Receive, broadcastVars, Base
  <2>3. /\ \A i, j \in 1..n : i <= j => ch[c][i].latest <= ch[c][j].latest
        /\ Pending(c) => \A i \in 1..n : ch[c][i].latest <= payload.latest
    BY DEF Order, Sorted, PendingIsNewest
  <2> HIDE DEF n
  <2>4. \A i, j \in 1..(n - 1) : i <= j => i + 1 <= j + 1
    BY <2>1
  <2>5. Sorted(c)'
    BY <2>1, <2>3, <2>4 DEF Sorted
  <2>6. PendingIsNewest(c)'
    BY <1>1, <2>1, <2>2, <2>3 DEF PendingIsNewest
  <2>7. \A i \in 1..(n - 1) : 1 <= i + 1
    BY <2>1
  <2>8. QueueIsAhead(c)'
    <3>1. \A i \in 1..(n - 1) : ch[c][1].latest <= ch'[c][i].latest
      BY <2>1, <2>3, <2>7
    <3>2. QED
      BY <2>1, <2>2, <3>1 DEF QueueIsAhead
  <2>9. PendingIsAhead(c)'
    BY <1>1, <2>1, <2>2, <2>3 DEF PendingIsAhead
  <2>10. QED
    BY <2>5, <2>6, <2>8, <2>9 DEF Order
<1>9. QED
  BY <1>2, <1>3, <1>4, <1>5, <1>6, <1>7, <1>8 DEF HandlerStep

LEMMA OrderStep == TypeOK /\ Known /\ MadeInv /\ OrderInv /\ [Next]_vars => OrderInv'
<1> SUFFICES ASSUME TypeOK, Known, MadeInv, OrderInv, [Next]_vars PROVE OrderInv'
  OBVIOUS
<1>1. CASE Collect
  <2>1. UNCHANGED <<ch, handlerVars, broadcastVars>>
    BY <1>1 DEF Collect
  <2>2. \A c \in Clients : Untouched(c) /\ payload' = payload /\ Pending(c)' = Pending(c)
    BY <2>1 DEF Untouched, handlerVars, broadcastVars, Pending
  <2>3. QED
    BY <2>2, OrderKept DEF OrderInv
<1>2. CASE UNCHANGED vars
  <2>1. \A c \in Clients : Untouched(c) /\ payload' = payload /\ Pending(c)' = Pending(c)
    BY <1>2 DEF vars, Untouched, Pending
  <2>2. QED
    BY <2>1, OrderKept DEF OrderInv
<1>3. QED
  BY <1>1, <1>2, BroadcasterKeepsOrder, SendKeepsOrder, HandlerKeepsOrder DEF Next, Broadcast

LEMMA OrderAlways == Spec => []OrderInv
<1>1. Init => OrderInv
  BY DEF Init, OrderInv, Order, Sorted, PendingIsNewest, QueueIsAhead, PendingIsAhead, Pending
<1>2. QED
  BY <1>1, OrderStep, TypeCorrect, KnownAlways, MadeAlways, PTL DEF Spec

\* A page goes back in time only onto one of the payloads that were queued, or under
\* way, when its own first payload was rendered: every later one is newer than what
\* the page shows, whatever full queues dropped (sse.go:64-74, 90-130).
THEOREM PagesGoForward == Spec => OnlyEarlyPayloadsGoBack
<1> DEFINE Step == \A c \in Clients : Receive(c) /\ Older(Head(ch[c]), shown[c]) => early[c] > 0
<1>1. TypeOK /\ OrderInv => Step
  <2> SUFFICES ASSUME TypeOK, OrderInv, NEW c \in Clients, Receive(c), Older(Head(ch[c]), shown[c])
               PROVE  early[c] > 0
    OBVIOUS
  <2>1. /\ ch[c] \in Seq(Payload) /\ ch[c] # <<>> /\ pc[c] = "loop"
        /\ early[c] \in Nat /\ shown[c] \in Payload
    BY DEF Receive, TypeOK
  <2>2. 1 \in 1..Len(ch[c]) /\ Head(ch[c]) = ch[c][1] /\ ch[c][1] \in Payload
    BY <2>1, TailOf
  <2>3. 1 > early[c] => shown[c].latest <= ch[c][1].latest
    BY <2>1, <2>2 DEF OrderInv, Order, QueueIsAhead, Base
  <2>4. QED
    BY <2>1, <2>2, <2>3 DEF Older, Payload
<1>2. TypeOK /\ OrderInv => [Step]_vars
  BY <1>1
<1>3. Spec => [][Step]_vars
  BY <1>2, TypeCorrect, OrderAlways, PTL
<1>4. QED
  BY <1>3 DEF OnlyEarlyPayloadsGoBack
=============================================================================
