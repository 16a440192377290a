------------------------------ MODULE Dashboard ------------------------------
(***************************************************************************)
(* The live dashboard (internal/server/sse.go): the goroutine that         *)
(* broadcasts, the broker with one bounded channel per client, and the     *)
(* handler that each connected client runs.                                *)
(*                                                                         *)
(* A payload is known by what it was rendered from: the newest sample the  *)
(* metrics were read at, and the newest one the charts were read at, two   *)
(* reads of the collector.  The broker's mutex is held by the broadcast    *)
(* over its whole loop, so that clients register and leave only between    *)
(* broadcasts.                                                             *)
(***************************************************************************)
EXTENDS Integers, Sequences, FiniteSets

CONSTANTS
  Clients,   \* bound: connections at once
  Stalled,   \* clients whose connection may stop taking bytes for ever
  Capacity,  \* the 8 of sse.go:49
  MaxSample  \* bound: samples the collector adds

ASSUME DashboardAssumption ==
  Stalled \subseteq Clients /\ Capacity \in Nat \ {0} /\ MaxSample \in Nat

VARIABLES
  sample,      \* number of the newest sample of the collector
  registered,  \* the broker's map
  ch,          \* client -> its channel
  pc,          \* client -> where its handler is
  draft,       \* client -> the payload its handler has in hand
  shown,       \* client -> the payload on its page
  gone,        \* clients that have hung up
  bpc,         \* where the broadcaster is
  payload,     \* the payload it has in hand
  todo,        \* clients its loop has not reached
  \* history, read by the properties only
  early        \* client -> queued payloads older than its initial one

vars == <<sample, registered, ch, pc, draft, shown, gone, bpc, payload, todo, early>>
handlerVars == <<pc, draft, shown, early>>
broadcastVars == <<bpc, payload, todo>>

Blank == [latest |-> 0, history |-> 0]
Payload == [latest : 0..MaxSample, history : 0..MaxSample]

-----------------------------------------------------------------------------
(* gatherDashboardData                                                     *)

ReadLatest(d) == [d EXCEPT !.latest = sample]

ReadHistory(d) == [d EXCEPT !.history = sample]

-----------------------------------------------------------------------------
(* The collector and the clients                                           *)

Collect ==
  /\ sample < MaxSample
  /\ sample' = sample + 1
  /\ UNCHANGED <<registered, ch, gone, handlerVars, broadcastVars>>

\* The client closes its connection: the request's context is done.
HangUp(c) ==
  /\ pc[c] # "out" /\ c \notin gone
  /\ gone' = gone \cup {c}
  /\ UNCHANGED <<sample, registered, ch, handlerVars, broadcastVars>>

-----------------------------------------------------------------------------
(* handleSSE                                                               *)

\* The mutex is free for a writer.
Unlocked == bpc # "send"

\* addClient
AddClient(c) ==
  /\ pc[c] = "out"
  /\ Unlocked
  /\ registered' = registered \cup {c}
  /\ ch' = [ch EXCEPT ![c] = <<>>]
  /\ pc' = [pc EXCEPT ![c] = "latest"]
  /\ UNCHANGED <<sample, gone, draft, shown, early, broadcastVars>>

\* The initial payload is rendered after the client is registered: broadcasts may
\* be queued meanwhile.
RenderLatest(c) ==
  /\ pc[c] = "latest"
  /\ draft' = [draft EXCEPT ![c] = ReadLatest(@)]
  /\ pc' = [pc EXCEPT ![c] = "history"]
  /\ UNCHANGED <<sample, registered, ch, gone, shown, early, broadcastVars>>

\* early counts what is queued, and the broadcast that is being rendered or sent.
RenderHistory(c) ==
  /\ pc[c] = "history"
  /\ draft' = [draft EXCEPT ![c] = ReadHistory(@)]
  /\ early' = [early EXCEPT ![c] = Len(ch[c])
                 + IF bpc \in {"history", "render"} \/ c \in todo THEN 1 ELSE 0]
  /\ pc' = [pc EXCEPT ![c] = "write"]
  /\ UNCHANGED <<sample, registered, ch, gone, shown, broadcastVars>>

\* Write and Flush; an error is not looked at.
Deliver(c) ==
  /\ pc[c] = "write"
  /\ shown' = [shown EXCEPT ![c] = draft[c]]
  /\ draft' = [draft EXCEPT ![c] = Blank]
  /\ pc' = [pc EXCEPT ![c] = "loop"]
  /\ UNCHANGED <<sample, registered, ch, gone, early, broadcastVars>>

Receive(c) ==
  /\ pc[c] = "loop"
  /\ ch[c] # <<>>
  /\ draft' = [draft EXCEPT ![c] = Head(ch[c])]
  /\ ch' = [ch EXCEPT ![c] = Tail(@)]
  /\ early' = [early EXCEPT ![c] = IF @ = 0 THEN 0 ELSE @ - 1]
  /\ pc' = [pc EXCEPT ![c] = "write"]
  /\ UNCHANGED <<sample, registered, gone, shown, broadcastVars>>

\* Variant for the mutation runs: the map and the channel without the mutex.
RemoveClientBare(c) ==
  /\ pc[c] = "loop"
  /\ c \in gone
  /\ registered' = registered \ {c}
  /\ gone' = gone \ {c}
  /\ ch' = [ch EXCEPT ![c] = <<>>]
  /\ pc' = [pc EXCEPT ![c] = "out"]
  /\ shown' = [shown EXCEPT ![c] = Blank]
  /\ early' = [early EXCEPT ![c] = 0]
  /\ UNCHANGED <<sample, draft, broadcastVars>>

\* ctx.Done, then the deferred removeClient, which closes the channel.
RemoveClient(c) ==
  /\ pc[c] = "loop"
  /\ c \in gone
  /\ Unlocked
  /\ registered' = registered \ {c}
  /\ gone' = gone \ {c}
  /\ ch' = [ch EXCEPT ![c] = <<>>]
  /\ pc' = [pc EXCEPT ![c] = "out"]
  /\ shown' = [shown EXCEPT ![c] = Blank]
  /\ early' = [early EXCEPT ![c] = 0]
  /\ UNCHANGED <<sample, draft, broadcastVars>>

-----------------------------------------------------------------------------
(* startSSEBroadcast                                                       *)

\* The ticker fires; without clients nothing is rendered.
Wake ==
  /\ bpc = "idle"
  /\ registered # {}
  /\ bpc' = "latest"
  /\ UNCHANGED <<sample, registered, ch, gone, handlerVars, payload, todo>>

BroadcastLatest ==
  /\ bpc = "latest"
  /\ payload' = ReadLatest(payload)
  /\ bpc' = "history"
  /\ UNCHANGED <<sample, registered, ch, gone, handlerVars, todo>>

BroadcastHistory ==
  /\ bpc = "history"
  /\ payload' = ReadHistory(payload)
  /\ bpc' = "render"
  /\ UNCHANGED <<sample, registered, ch, gone, handlerVars, todo>>

\* broadcast takes the read lock and ranges over the clients of that moment.
BeginBroadcast ==
  /\ bpc = "render"
  /\ bpc' = "send"
  /\ todo' = registered
  /\ UNCHANGED <<sample, registered, ch, gone, handlerVars, payload>>

\* Variants for the mutation runs: a send that waits for room, and one that is put first.
QueueWaiting(c) == Len(ch[c]) < Capacity /\ ch' = [ch EXCEPT ![c] = Append(@, payload)]
QueueFront(c) ==
  ch' = IF Len(ch[c]) < Capacity THEN [ch EXCEPT ![c] = <<payload>> \o @] ELSE ch

\* A full channel is skipped.
Queue(c) ==
  ch' = IF Len(ch[c]) < Capacity THEN [ch EXCEPT ![c] = Append(@, payload)] ELSE ch

Send(c) ==
  /\ bpc = "send"
  /\ c \in todo
  /\ Queue(c)
  /\ todo' = todo \ {c}
  /\ UNCHANGED <<sample, registered, gone, handlerVars, bpc, payload>>

EndBroadcast ==
  /\ bpc = "send"
  /\ todo = {}
  /\ bpc' = "idle"
  /\ payload' = Blank
  /\ UNCHANGED <<sample, registered, ch, gone, handlerVars, todo>>

-----------------------------------------------------------------------------
(* Specification                                                           *)

Init ==
  /\ sample = 0
  /\ registered = {}
  /\ ch = [c \in Clients |-> <<>>]
  /\ pc = [c \in Clients |-> "out"]
  /\ draft = [c \in Clients |-> Blank]
  /\ shown = [c \in Clients |-> Blank]
  /\ gone = {}
  /\ bpc = "idle" /\ payload = Blank /\ todo = {}
  /\ early = [c \in Clients |-> 0]

Broadcast ==
  \/ Wake \/ BroadcastLatest \/ BroadcastHistory \/ BeginBroadcast
  \/ \E c \in Clients : Send(c)
  \/ EndBroadcast

HandlerStep(c) ==
  RenderLatest(c) \/ RenderHistory(c) \/ Receive(c) \/ RemoveClient(c)

Next ==
  \/ Collect
  \/ Broadcast
  \/ \E c \in Clients : AddClient(c) \/ HangUp(c) \/ HandlerStep(c) \/ Deliver(c)

Spec == Init /\ [][Next]_vars

\* The broadcaster and the handlers are scheduled; a write to a stalled client may
\* block for ever, the server has no write timeout (server.go:43).
FairSpec ==
  /\ Spec
  /\ WF_vars(Broadcast)
  /\ \A c \in Clients : WF_vars(HandlerStep(c))
  /\ \A c \in Clients \ Stalled : WF_vars(Deliver(c))

-----------------------------------------------------------------------------
(* Properties                                                              *)

\* The type of every variable.
TypeOK ==
  /\ sample \in 0..MaxSample
  /\ registered \in SUBSET Clients
  /\ ch \in [Clients -> Seq(Payload)] /\ \A c \in Clients : Len(ch[c]) <= Capacity
  /\ pc \in [Clients -> {"out", "latest", "history", "write", "loop"}]
  /\ draft \in [Clients -> Payload] /\ shown \in [Clients -> Payload]
  /\ gone \in SUBSET Clients
  /\ bpc \in {"idle", "latest", "history", "render", "send"}
  /\ payload \in Payload
  /\ todo \in SUBSET Clients
  /\ early \in [Clients -> 0..(Capacity + 1)]

\* sse.go:56-74: the broadcast never sends on a channel that was closed, however a
\* client leaves while it runs.
NoSendOnClosed == bpc = "send" => todo \subseteq {c \in registered : pc[c] # "out"}

\* sse.go:166-168: the charts of a page are never behind its gauges.
ChartsNotBehind == \A c \in Clients : shown[c].history >= shown[c].latest

\* sse.go:90-109: a page goes back in time only onto what was rendered before its
\* own initial payload and delivered after it.
Older(p, q) == p.latest < q.latest
OnlyEarlyPayloadsGoBack ==
  [][\A c \in Clients :
       Receive(c) /\ Older(Head(ch[c]), shown[c]) => early[c] > 0]_vars

\* sse.go:64-74, 113-130: when the data settles, every page whose connection takes
\* its bytes comes to show it, whatever was dropped for it and whoever stalls.
PagesCatchUp ==
  \A c \in Clients \ Stalled :
    pc[c] = "loop" /\ sample = MaxSample
      ~> c \in gone \/ pc[c] = "out" \/ shown[c].latest = MaxSample
=============================================================================
