------------------------- MODULE LinkLifetimeProofs -------------------------
(***************************************************************************)
(* The safety of a server port, for any number of client processes and of  *)
(* writes: LlIInv is inductive, and NothingLeaks and ServerSurvives follow.*)
(***************************************************************************)
EXTENDS LinkLifetime, SequenceTheorems, TLAPS

Kind == {"request", "established", "rejected", "disconnected"}

-----------------------------------------------------------------------------
(***************************************************************************)
(* What raising and taking an event does to the queue of the event loop.   *)
(***************************************************************************)
LEMMA Raised ==
  ASSUME LlTypeOK, Once, NEW kind \in Kind, NEW c \in Client, ~Queued(kind, c),
         events' = Append(events, <<kind, c>>)
  PROVE  /\ events' \in Seq(Event)
         /\ Once'
         /\ \A k \in Kind, d \in Client :
              Queued(k, d)' <=> Queued(k, d) \/ (k = kind /\ d = c)
<1>1. events \in Seq(Event) /\ <<kind, c>> \in Event
  BY DEF LlTypeOK, Event, Kind
<1>2. events' \in Seq(Event) /\ Len(events') = Len(events) + 1 /\ Len(events) \in Nat
  BY <1>1, AppendProperties, LenProperties
<1>3. \A i \in 1 .. Len(events) : events'[i] = events[i]
  BY <1>1, AppendProperties
<1>4. events'[Len(events) + 1] = <<kind, c>>
  BY <1>1, AppendProperties
<1>5. \A i \in 1 .. Len(events) : events[i] # <<kind, c>>
  BY DEF Queued
<1>6. \A i \in 1 .. Len(events') : i \in 1 .. Len(events) \/ i = Len(events) + 1
  BY <1>2
<1>7. Once'
  BY <1>2, <1>3, <1>4, <1>5, <1>6 DEF Once
<1>8. ASSUME NEW k \in Kind, NEW d \in Client
      PROVE  Queued(k, d)' <=> Queued(k, d) \/ (k = kind /\ d = c)
  <2>1. Queued(k, d)' => Queued(k, d) \/ <<k, d>> = <<kind, c>>
    BY <1>3, <1>4, <1>6 DEF Queued
  <2>2. Queued(k, d) => Queued(k, d)'
    BY <1>2, <1>3 DEF Queued
  <2>3. k = kind /\ d = c => Queued(k, d)'
    BY <1>2, <1>4 DEF Queued
  <2>. QED  BY <2>1, <2>2, <2>3
<1>. QED  BY <1>2, <1>7, <1>8

LEMMA Taken ==
  ASSUME LlTypeOK, Once, NEW kind \in Kind, NEW c \in Client, NextEvent(kind, c)
  PROVE  /\ events' \in Seq(Event)
         /\ Once'
         /\ Queued(kind, c)
         /\ \A k \in Kind, d \in Client :
              Queued(k, d)' <=> Queued(k, d) /\ ~(k = kind /\ d = c)
<1>1. events \in Seq(Event) /\ events # <<>> /\ events' = Tail(events)
  BY DEF LlTypeOK, NextEvent
<1>2. events' \in Seq(Event) /\ Len(events') = Len(events) - 1 /\ Len(events) \in Nat \ {0}
  BY <1>1, HeadTailProperties, EmptySeq, LenProperties
<1>3. \A i \in 1 .. Len(events') : events'[i] = events[i + 1]
  BY <1>1, HeadTailProperties
<1>4. events[1] = <<kind, c>>
  BY <1>1, HeadTailProperties DEF NextEvent
<1>5. \A i \in 1 .. Len(events') : i + 1 \in 1 .. Len(events) /\ i + 1 # 1
  BY <1>2
<1>6. \A i \in 1 .. Len(events) : i # 1 => i - 1 \in 1 .. Len(events') /\ events'[i - 1] = events[i]
  BY <1>2, <1>3
<1>7. 1 \in 1 .. Len(events)
  BY <1>2
<1>8. Once'
  BY <1>2, <1>3, <1>5 DEF Once
<1>9. Queued(kind, c)
  BY <1>4, <1>7 DEF Queued
<1>10. ASSUME NEW k \in Kind, NEW d \in Client
       PROVE  Queued(k, d)' <=> Queued(k, d) /\ ~(k = kind /\ d = c)
  <2>1. ASSUME Queued(k, d)'
        PROVE  Queued(k, d) /\ ~(k = kind /\ d = c)
    <3>1. PICK i \in 1 .. Len(events') : events'[i] = <<k, d>>
      BY <2>1 DEF Queued
    <3>2. events[i + 1] = <<k, d>>
      BY <3>1, <1>3
    <3>3. Queued(k, d)
      BY <3>2, <1>5 DEF Queued
    <3>4. <<k, d>> # <<kind, c>>
      BY <3>2, <1>4, <1>5, <1>7 DEF Once
    <3>. QED  BY <3>3, <3>4
  <2>2. ASSUME Queued(k, d), ~(k = kind /\ d = c)
        PROVE  Queued(k, d)'
    <3>1. PICK i \in 1 .. Len(events) : events[i] = <<k, d>>
      BY <2>2 DEF Queued
    <3>2. i # 1
      BY <3>1, <2>2, <1>4
    <3>. QED  BY <3>1, <3>2, <1>6 DEF Queued
  <2>. QED  BY <2>1, <2>2
<1>. QED  BY <1>2, <1>8, <1>9, <1>10

LEMMA Kept ==
  ASSUME UNCHANGED events
  PROVE  /\ Once' <=> Once
         /\ \A k \in Kind, d \in Client : Queued(k, d)' <=> Queued(k, d)
BY DEF Once, Queued

-----------------------------------------------------------------------------
(***************************************************************************)
(* Types.  Only the queue needs the lemmas above.                          *)
(***************************************************************************)
LEMMA InitType == Init => LlTypeOK
BY LifetimeAssumption, EmptySeq
DEF Init, LlTypeOK, Maybe

LEMMA AppendEvent ==
  ASSUME LlTypeOK, NEW kind \in Kind, NEW c \in Client
  PROVE  Append(events, <<kind, c>>) \in Seq(Event)
BY AppendProperties DEF LlTypeOK, Event, Kind

LEMMA TailEvent ==
  ASSUME LlTypeOK, NEW kind, NEW c, NextEvent(kind, c)
  PROVE  events' \in Seq(Event)
BY HeadTailProperties DEF LlTypeOK, NextEvent

LEMMA DieType ==
  ASSUME LlTypeOK, events' \in Seq(Event), Die
  PROVE  LlTypeOK'
BY DEF LlTypeOK, Die, cliVars, connVars, pollVars, readVars, histVars

LEMMA ClientType ==
  ASSUME LlTypeOK, NEW c \in Client,
         ClientStart(c) \/ ClientStep(c) \/ ClientEnd(c) \/ Handshake(c) \/ Notice(c)
  PROVE  LlTypeOK'
<1>. USE LifetimeAssumption
     DEF LlTypeOK, cliVars, connVars, pollVars, readVars, histVars
<1>1. CASE ClientStart(c)
  BY <1>1, AppendEvent DEF ClientStart, Kind
<1>2. CASE ClientRejected(c)   BY <1>2 DEF ClientRejected
<1>3. CASE ClientTake(c)       BY <1>3 DEF ClientTake
<1>4. CASE ClientWrite(c)      BY <1>4 DEF ClientWrite
<1>5. CASE ClientCut(c)        BY <1>5 DEF ClientCut
<1>6. CASE ClientCutWrite(c)   BY <1>6 DEF ClientCutWrite
<1>7. CASE ClientEnd(c)
  BY <1>7, AppendEvent DEF ClientEnd, Kind
<1>8. CASE Handshake(c)
  BY <1>8, AppendEvent DEF Handshake, Kind
<1>9. CASE Notice(c)
  BY <1>9, AppendEvent DEF Notice, Kind
<1>. QED
  BY <1>1, <1>2, <1>3, <1>4, <1>5, <1>6, <1>7, <1>8, <1>9 DEF ClientStep

LEMMA EventLoopType ==
  ASSUME LlTypeOK, Listen \/ EventLoop
  PROVE  LlTypeOK'
<1>. USE DEF cliVars, connVars, pollVars, readVars, histVars
<1>1. CASE Listen
  BY <1>1 DEF Listen, LlTypeOK
<1>2. ASSUME NEW c \in Client, OnConnectRequest(c)
      PROVE  LlTypeOK'
  BY <1>2, TailEvent, DieType DEF OnConnectRequest, ServerOnPreConn, LlTypeOK, Maybe
<1>3. ASSUME NEW c \in Client, OnEstablished(c)
      PROVE  LlTypeOK'
  <2>1. events' \in Seq(Event)
    BY <1>3, TailEvent DEF OnEstablished
  <2>2. CASE Die
    BY <2>1, <2>2, DieType
  <2>3. CASE ~Die
    <3>1. /\ told' = [told EXCEPT ![c] = buffer]
          /\ turn' = [turn EXCEPT ![c] = "sent"]
          /\ UNCHANGED <<client, posted, writes, server, freeing, qp, buffer, live>>
          /\ UNCHANGED <<pollVars, readVars, histVars>>
      BY <1>3, <2>3 DEF OnEstablished
    <3>. QED  BY <2>1, <3>1 DEF LlTypeOK
  <2>. QED  BY <2>2, <2>3
<1>4. ASSUME NEW c \in Client, OnUnknownEvent(c)
      PROVE  LlTypeOK'
  BY <1>4, TailEvent, DieType DEF OnUnknownEvent
<1>5. ASSUME NEW c \in Client, OnDisconnected(c)
      PROVE  LlTypeOK'
  BY <1>5, TailEvent, EmptySeq DEF OnDisconnected, LlTypeOK, Maybe
<1>6. CASE ServerOnDisconnect
  BY <1>6, DieType, LifetimeAssumption DEF ServerOnDisconnect, LlTypeOK, Maybe
<1>. QED  BY <1>1, <1>2, <1>3, <1>4, <1>5, <1>6 DEF EventLoop

LEMMA DataType ==
  ASSUME LlTypeOK,
         Poller \/ Reader \/ \E c \in Client : Deliver(c) \/ SendFails(c)
  PROVE  LlTypeOK'
<1>. USE DEF cliVars, connVars, pollVars, readVars, histVars
<1>1. ASSUME NEW c \in Client, Deliver(c)
      PROVE  LlTypeOK'
  BY <1>1, AppendProperties DEF Deliver, LlTypeOK
<1>2. ASSUME NEW c \in Client, SendFails(c)
      PROVE  LlTypeOK'
  BY <1>2, AppendProperties DEF SendFails, LlTypeOK
<1>3. CASE PollCompletion
  <2>1. PICK c \in Client :
          /\ cq[c] # <<>>
          /\ \/ /\ poller' = <<"polled", c>>
                /\ cq' = [cq EXCEPT ![c] = Tail(@)]
                /\ UNCHANGED <<cliVars, server, connVars, buf_recv_counter, readVars, histVars>>
             \/ Die
    BY <1>3 DEF PollCompletion
  <2>2. UNCHANGED events
    BY <1>3 DEF PollCompletion
  <2>3. Tail(cq[c]) \in Seq({"write", "failed"})
    BY <2>1, HeadTailProperties DEF LlTypeOK
  <2>4. CASE Die
    BY <2>2, <2>4, DieType DEF LlTypeOK
  <2>5. CASE ~Die
    <3>1. /\ poller' = <<"polled", c>>
          /\ cq' = [cq EXCEPT ![c] = Tail(@)]
          /\ UNCHANGED <<cliVars, server, connVars, buf_recv_counter, readVars, histVars>>
      BY <2>1, <2>5
    <3>2. cq' \in [Client -> Seq({"write", "failed"})]
      BY <2>3, <3>1 DEF LlTypeOK
    <3>. QED  BY <2>2, <3>1, <3>2 DEF LlTypeOK, Maybe
  <2>. QED  BY <2>4, <2>5
<1>4. CASE CountMessage
  <2>1. CASE Die
    BY <1>4, <2>1, DieType DEF CountMessage, LlTypeOK
  <2>2. CASE ~Die
    <3>1. poller[2] \in Maybe
      BY DEF LlTypeOK
    <3>. QED  BY <1>4, <2>2, <3>1 DEF CountMessage, LlTypeOK
  <2>. QED  BY <2>1, <2>2
<1>5. CASE Answer
  <2>1. CASE Die
    BY <1>5, <2>1, DieType DEF Answer, LlTypeOK
  <2>2. CASE ~Die
    <3>1. /\ turn' = [turn EXCEPT ![poller[2]] = "sent"]
          /\ poller' = <<"idle", None>>
          /\ UNCHANGED <<client, posted, writes, server, events, connVars, cq>>
          /\ UNCHANGED <<buf_recv_counter, readVars, histVars>>
      BY <1>5, <2>2 DEF Answer
    <3>. QED  BY <3>1 DEF LlTypeOK, Maybe
  <2>. QED  BY <2>1, <2>2
<1>6. CASE Reader
  BY <1>6, DieType DEF Reader, ReadStart, ReadEnd, LlTypeOK
<1>. QED  BY <1>1, <1>2, <1>3, <1>4, <1>5, <1>6 DEF Poller

LEMMA StepType ==
  ASSUME LlTypeOK, [Next]_vars
  PROVE  LlTypeOK'
<1>1. CASE UNCHANGED vars
  BY <1>1 DEF LlTypeOK, vars, cliVars, connVars, pollVars, readVars, histVars
<1>. QED  BY <1>1, ClientType, EventLoopType, DataType DEF Next

-----------------------------------------------------------------------------
(***************************************************************************)
(* EventInv.  Most steps only take from the queue; the others are those    *)
(* that move a client, its queue pair or the memory to free.               *)
(***************************************************************************)
LEMMA EventFrame ==
  ASSUME EventInv, Once',
         \A k \in Kind, d \in Client : Queued(k, d)' => Queued(k, d),
         UNCHANGED <<client, qp>>,
         freeing' = freeing \/ freeing' = None,
         server' = server \/ server' # "down"
  PROVE  EventInv'
BY LifetimeAssumption DEF EventInv, Kind

LEMMA DieEvents ==
  ASSUME LlTypeOK, EventInv, Die,
         \/ UNCHANGED events
         \/ \E k \in Kind, c \in Client : NextEvent(k, c)
  PROVE  EventInv'
<1>1. Once' /\ \A k \in Kind, d \in Client : Queued(k, d)' => Queued(k, d)
  BY Kept, Taken DEF EventInv
<1>. QED  BY <1>1, EventFrame DEF Die, cliVars, connVars

LEMMA ClientEvents ==
  ASSUME LlTypeOK, EventInv, NEW c \in Client,
         ClientStart(c) \/ ClientStep(c) \/ ClientEnd(c) \/ Handshake(c) \/ Notice(c)
  PROVE  EventInv'
<1>. USE DEF EventInv, LlTypeOK, Kind, connVars
<1>1. CASE ClientStart(c)
  <2>1. CASE Running
    BY <1>1, <2>1, Raised DEF ClientStart, Running
  <2>2. CASE ~Running
    BY <1>1, <2>2, Kept DEF ClientStart, Running
  <2>. QED  BY <2>1, <2>2
<1>2. CASE ClientRejected(c)   BY <1>2, Kept DEF ClientRejected
<1>3. CASE ClientTake(c)       BY <1>3, Kept DEF ClientTake
<1>4. CASE ClientWrite(c)      BY <1>4, Kept DEF ClientWrite
<1>5. CASE ClientCut(c)        BY <1>5, Kept DEF ClientCut
<1>6. CASE ClientCutWrite(c)   BY <1>6, Kept DEF ClientCutWrite
<1>7. CASE ClientEnd(c)
  <2>1. CASE client[c] = "connecting" /\ Running /\ qp[c] = "up"
    BY <1>7, <2>1, Raised DEF ClientEnd, Running
  <2>2. CASE ~(client[c] = "connecting" /\ Running /\ qp[c] = "up")
    BY <1>7, <2>2, Kept DEF ClientEnd, Running
  <2>. QED  BY <2>1, <2>2
<1>8. CASE Handshake(c)        BY <1>8, Raised DEF Handshake, Running
<1>9. CASE Notice(c)           BY <1>9, Raised DEF Notice, Running
<1>. QED
  BY <1>1, <1>2, <1>3, <1>4, <1>5, <1>6, <1>7, <1>8, <1>9 DEF ClientStep

LEMMA EventLoopEvents ==
  ASSUME LlTypeOK, EventInv, Listen \/ EventLoop
  PROVE  EventInv'
<1>. USE DEF EventInv, Kind, cliVars, connVars
<1>1. CASE Listen
  BY <1>1, Kept DEF Listen
<1>2. ASSUME NEW c \in Client, OnConnectRequest(c)
      PROVE  EventInv'
  <2>1. NextEvent("request", c)
    BY <1>2 DEF OnConnectRequest
  <2>2. CASE Die
    BY <2>1, <2>2, DieEvents
  <2>3. CASE ~Die
    <3>1. /\ client[c] = "connecting"
          /\ qp' = [qp EXCEPT ![c] = "up"]
          /\ UNCHANGED <<cliVars, server, freeing>>
      BY <1>2, <2>3 DEF OnConnectRequest
    <3>. QED  BY <2>1, <3>1, Taken DEF LlTypeOK
  <2>. QED  BY <2>2, <2>3
<1>3. ASSUME NEW c \in Client, OnEstablished(c)
      PROVE  EventInv'
  <2>1. NextEvent("established", c)
    BY <1>3 DEF OnEstablished
  <2>2. CASE Die
    BY <2>1, <2>2, DieEvents
  <2>3. CASE ~Die
    <3>1. UNCHANGED <<client, qp, server, freeing>>
      BY <1>3, <2>3 DEF OnEstablished
    <3>. QED  BY <2>1, <3>1, Taken
  <2>. QED  BY <2>2, <2>3
<1>4. ASSUME NEW c \in Client, OnUnknownEvent(c)
      PROVE  EventInv'
  BY <1>4, DieEvents DEF OnUnknownEvent
<1>5. ASSUME NEW c \in Client, OnDisconnected(c)
      PROVE  EventInv'
  <2>1. NextEvent("disconnected", c)
    BY <1>5 DEF OnDisconnected
  <2>2. /\ freeing' = c
        /\ qp' = [qp EXCEPT ![c] = "destroyed"]
        /\ UNCHANGED <<cliVars, server>>
    BY <1>5 DEF OnDisconnected
  <2>. QED  BY <2>1, <2>2, Taken DEF LlTypeOK
<1>6. CASE ServerOnDisconnect
  <2>1. CASE Die
    BY <1>6, <2>1, DieEvents DEF ServerOnDisconnect
  <2>2. CASE ~Die
    BY <1>6, <2>2, Kept, EventFrame DEF ServerOnDisconnect
  <2>. QED  BY <2>1, <2>2
<1>. QED  BY <1>1, <1>2, <1>3, <1>4, <1>5, <1>6 DEF EventLoop

LEMMA DataEvents ==
  ASSUME LlTypeOK, EventInv,
         Poller \/ Reader \/ \E c \in Client : Deliver(c) \/ SendFails(c)
  PROVE  EventInv'
<1>1. UNCHANGED <<events, client, qp, freeing>> /\ (server' = server \/ server' = "dead")
  BY DEF Poller, PollCompletion, CountMessage, Answer, Reader, ReadStart, ReadEnd,
         Deliver, SendFails, Die, cliVars, connVars
<1>. QED  BY <1>1, Kept, EventFrame DEF EventInv

LEMMA StepEvents ==
  ASSUME LlTypeOK, EventInv, [Next]_vars
  PROVE  EventInv'
<1>1. CASE UNCHANGED vars
  BY <1>1, Kept, EventFrame DEF EventInv, vars, cliVars, connVars
<1>. QED  BY <1>1, ClientEvents, EventLoopEvents, DataEvents DEF Next

-----------------------------------------------------------------------------
(***************************************************************************)
(* MemoryInv.  Two clients are never both there, so the buffer that the    *)
(* context points to is that of the client that is.                        *)
(***************************************************************************)
LEMMA MemoryFrame ==
  ASSUME MemoryInv, alone' => alone, server' # "dead" => server # "dead",
         \A c \in Client : Gone(c) => Gone(c)',
         UNCHANGED <<qp, freeing, buffer, live>>
  PROVE  MemoryInv'
BY DEF MemoryInv

LEMMA DieMemory == Die => MemoryInv'
BY DEF Die, MemoryInv

LEMMA ClientMemory ==
  ASSUME LlTypeOK, EventInv, MemoryInv, NEW c \in Client,
         ClientStart(c) \/ ClientStep(c) \/ ClientEnd(c) \/ Handshake(c) \/ Notice(c)
  PROVE  MemoryInv'
<1>1. CASE ClientStart(c)
  <2>1. /\ alone' = (alone /\ \A d \in Client \ {c} : Gone(d))
        /\ UNCHANGED <<server, qp, freeing, buffer, live>>
        /\ \A d \in Client \ {c} : client'[d] = client[d]
    BY <1>1 DEF ClientStart, connVars, LlTypeOK
  <2>2. \A d \in Client \ {c} : Gone(d)' <=> Gone(d)
    BY <2>1 DEF Gone
  <2>. QED  BY <2>1, <2>2 DEF MemoryInv
<1>2. CASE ~ClientStart(c)
  <2>1. /\ UNCHANGED <<server, alone, qp, freeing, buffer, live>>
        /\ \A d \in Client \ {c} : client'[d] = client[d]
        /\ client'[c] = client[c] \/ (client[c] \notin {"off", "gone"} /\ client'[c] # "off")
    BY <1>2 DEF ClientStep, ClientRejected, ClientTake, ClientWrite, ClientCut, ClientCutWrite,
                ClientEnd, Handshake, Notice, connVars, histVars, LlTypeOK
  <2>2. \A d \in Client : Gone(d) => Gone(d)'
    BY <2>1 DEF Gone
  <2>. QED  BY <2>1, <2>2, MemoryFrame
<1>. QED  BY <1>1, <1>2

LEMMA EventLoopMemory ==
  ASSUME LlTypeOK, EventInv, MemoryInv, Listen \/ EventLoop
  PROVE  MemoryInv'
<1>1. CASE Die
  BY <1>1, DieMemory
<1>2. CASE Listen
  BY <1>2, MemoryFrame DEF Listen, Gone, cliVars, connVars, histVars
<1>3. ASSUME ~Die, NEW c \in Client, OnConnectRequest(c)
      PROVE  MemoryInv'
  <2>1. /\ client[c] = "connecting"
        /\ qp' = [qp EXCEPT ![c] = "up"]
        /\ buffer' = c
        /\ live' = live \cup {c}
        /\ UNCHANGED <<client, server, freeing, alone>>
    BY <1>3 DEF OnConnectRequest, ServerOnPreConn, cliVars, histVars
  <2>2. \A d \in Client : Gone(d) => Gone(d)'
    BY <2>1 DEF Gone, LlTypeOK
  <2>3. ASSUME alone, server # "dead", NEW d \in Client, qp[d] = "up" \/ freeing = d
        PROVE  d = c
    BY <2>1, <2>3 DEF MemoryInv, EventInv, Gone
  <2>. QED  BY <2>1, <2>2, <2>3 DEF MemoryInv, LlTypeOK
<1>4. ASSUME ~Die, NEW c \in Client, OnEstablished(c)
      PROVE  MemoryInv'
  <2>1. UNCHANGED <<client, server, freeing, qp, buffer, live, alone>>
    BY <1>4 DEF OnEstablished, histVars
  <2>. QED  BY <2>1, MemoryFrame DEF Gone
<1>5. ASSUME NEW c \in Client, OnDisconnected(c)
      PROVE  MemoryInv'
  <2>1. /\ freeing = None
        /\ freeing' = c
        /\ qp' = [qp EXCEPT ![c] = "destroyed"]
        /\ UNCHANGED <<client, server, buffer, live, alone>>
    BY <1>5 DEF OnDisconnected, NextEvent, cliVars, histVars
  <2>2. qp[c] = "up"
    BY <1>5, Taken DEF OnDisconnected, EventInv, Kind
  <2>3. \A d \in Client : Gone(d) => Gone(d)'
    BY <2>1, <2>2, LifetimeAssumption DEF Gone, EventInv, LlTypeOK
  <2>. QED  BY <2>1, <2>2, <2>3, LifetimeAssumption DEF MemoryInv, LlTypeOK
<1>6. ASSUME ~Die, ServerOnDisconnect
      PROVE  MemoryInv'
  <2>1. /\ freeing # None
        /\ freeing' = None
        /\ live' = live \ {buffer}
        /\ UNCHANGED <<client, server, qp, buffer, alone>>
    BY <1>6 DEF ServerOnDisconnect, cliVars, histVars
  <2>2. freeing \in Client
    BY <2>1 DEF LlTypeOK, Maybe
  <2>3. \A d \in Client : Gone(d) => Gone(d)'
    BY <2>1, LifetimeAssumption DEF Gone
  <2>. QED  BY <2>1, <2>2, <2>3, LifetimeAssumption DEF MemoryInv, EventInv
<1>. QED
  BY <1>1, <1>2, <1>3, <1>4, <1>5, <1>6 DEF EventLoop, OnUnknownEvent

LEMMA DataMemory ==
  ASSUME MemoryInv,
         Poller \/ Reader \/ \E c \in Client : Deliver(c) \/ SendFails(c)
  PROVE  MemoryInv'
<1>1. CASE Die
  BY <1>1, DieMemory
<1>2. CASE ~Die
  <2>1. UNCHANGED <<client, server, qp, freeing, buffer, live, alone>>
    BY <1>2 DEF Poller, PollCompletion, CountMessage, Answer, Reader, ReadStart, ReadEnd,
                Deliver, SendFails, cliVars, connVars, histVars
  <2>. QED  BY <2>1, MemoryFrame DEF Gone
<1>. QED  BY <1>1, <1>2

LEMMA StepMemory ==
  ASSUME LlTypeOK, EventInv, MemoryInv, [Next]_vars
  PROVE  MemoryInv'
<1>1. CASE UNCHANGED vars
  BY <1>1, MemoryFrame DEF Gone, vars, cliVars, connVars, histVars
<1>. QED  BY <1>1, ClientMemory, EventLoopMemory, DataMemory DEF Next

-----------------------------------------------------------------------------
(***************************************************************************)
(* QuietInv.  No step of a quiet life of the port is the one that ends the *)
(* server, since what it touches belongs to a client that is connected.    *)
(***************************************************************************)
LEMMA History ==
  ASSUME [Next]_vars
  PROVE  (alone' => alone) /\ (quiet' => quiet)
<1>. USE DEF histVars, Die
<1>1. UNCHANGED vars => UNCHANGED histVars
  BY DEF vars
<1>2. Listen \/ EventLoop => UNCHANGED histVars
  BY DEF Listen, EventLoop, OnConnectRequest, OnEstablished, OnUnknownEvent, OnDisconnected,
         ServerOnDisconnect
<1>3. Poller \/ Reader => UNCHANGED histVars
  BY DEF Poller, PollCompletion, CountMessage, Answer, Reader, ReadStart, ReadEnd
<1>4. ASSUME NEW c \in Client,
             ClientStart(c) \/ ClientStep(c) \/ ClientEnd(c) \/ Handshake(c) \/ Notice(c)
               \/ Deliver(c) \/ SendFails(c)
      PROVE  (alone' => alone) /\ (quiet' => quiet)
  <2>1. CASE ClientStart(c)   BY <2>1, Zenon DEF ClientStart
  <2>2. CASE ClientEnd(c)     BY <2>2, Zenon DEF ClientEnd
  <2>3. CASE ~ClientStart(c) /\ ~ClientEnd(c)
    <3>1. UNCHANGED histVars
      BY <1>4, <2>3 DEF ClientStep, ClientRejected, ClientTake, ClientWrite, ClientCut,
                        ClientCutWrite, Handshake, Notice, Deliver, SendFails
    <3>. QED  BY <3>1
  <2>. QED  BY <2>1, <2>2, <2>3
<1>. QED  BY <1>1, <1>2, <1>3, <1>4 DEF Next

\* What is true of a client whose queue pair or memory is there.
LEMMA Present ==
  ASSUME EventInv, MemoryInv, QuietInv, alone, quiet, NEW c \in Client
  PROVE  /\ server # "dead"
         /\ Tidy(c)
         /\ ReadInv
         /\ qp[c] = "up" \/ freeing = c => buffer = c /\ c \in live
         /\ client[c] = "up" => qp[c] = "up"
BY DEF EventInv, MemoryInv, QuietInv, Tidy

LEMMA TidyFrame ==
  ASSUME NEW c \in Client, Tidy(c),
         \A k \in Kind : Queued(k, c)' => Queued(k, c),
         client'[c] = client[c], turn'[c] = turn[c], told'[c] = told[c], cq'[c] = cq[c],
         posted'[c] = posted[c], poller'[2] = c => poller[2] = c,
         qp'[c] = "up" \/ freeing' = c => c \in live'
  PROVE  Tidy(c)'
BY DEF Tidy, Busy, Kind

LEMMA ClientQuiet ==
  ASSUME LlTypeOK, EventInv, MemoryInv, QuietInv, alone, quiet, quiet',
         NEW c \in Client,
         ClientStart(c) \/ ClientStep(c) \/ ClientEnd(c) \/ Handshake(c) \/ Notice(c)
  PROVE  server' # "dead" /\ (\A d \in Client : Tidy(d)') /\ ReadInv'
<1>1. server # "dead" /\ server' = server
  BY Present DEF ClientStart, ClientStep, ClientRejected, ClientTake, ClientWrite, ClientCut,
                 ClientCutWrite, ClientEnd, Handshake, Notice
<1>2. /\ UNCHANGED <<freeing, qp, told, buffer, live, cq, poller, buf_recv_counter, reader,
                      read_counter>>
      /\ \A d \in Client \ {c} :
           /\ client'[d] = client[d] /\ turn'[d] = turn[d] /\ posted'[d] = posted[d]
  BY DEF ClientStart, ClientStep, ClientRejected, ClientTake, ClientWrite, ClientCut,
         ClientCutWrite, ClientEnd, Handshake, Notice, connVars, pollVars, readVars, LlTypeOK
<1>. USE Present
<1>3. \A k \in Kind, d \in Client \ {c} : Queued(k, d)' => Queued(k, d)
  <2>1. \/ UNCHANGED events
        \/ \E kind \in Kind : events' = Append(events, <<kind, c>>) /\ ~Queued(kind, c)
    BY DEF ClientStart, ClientStep, ClientRejected, ClientTake, ClientWrite, ClientCut,
         ClientCutWrite, ClientEnd, Handshake, Notice, Kind, EventInv
  <2>. QED  BY <2>1, Raised, Kept DEF EventInv
<1>4. \A d \in Client \ {c} : Tidy(d)'
  BY <1>2, <1>3, TidyFrame DEF Tidy
<1>5. /\ ReadInv /\ Tidy(c)
      /\ client[c] = "connecting" => Running
      /\ qp[c] = "up" \/ freeing = c => c \in live
  BY DEF EventInv, Running, LlTypeOK
<1>6. \A k \in Kind : UNCHANGED events => (Queued(k, c)' <=> Queued(k, c))
  BY Kept DEF Kind
<1>. SUFFICES Tidy(c)' /\ ReadInv'
  BY <1>1, <1>4
<1>. HIDE DEF QuietInv
<1>7. CASE ClientStart(c)
  <2>1. /\ client[c] = "off" /\ client' = [client EXCEPT ![c] = IF server = "down" THEN "gone" ELSE "connecting"]
        /\ events' = IF Running THEN Append(events, <<"request", c>>) ELSE events
        /\ UNCHANGED <<turn, posted>>
    BY <1>7 DEF ClientStart
  <2>2. \A k \in Kind : ~Queued(k, c)
    BY <1>5, <2>1 DEF EventInv, Kind, Tidy
  <2>3. \A k \in Kind : Queued(k, c)' => k = "request" /\ Running
    BY <1>6, <2>1, <2>2, Raised DEF EventInv, Kind
  <2>4. Tidy(c)'
    BY <1>2, <1>5, <2>1, <2>3 DEF Tidy, Busy, Kind, Running, LlTypeOK
  <2>5. ReadInv'
    BY <1>2, <1>5, <2>1 DEF ReadInv
  <2>. QED  BY <2>4, <2>5
<1>8. CASE ClientTake(c)
  <2>1. /\ client[c] = "up" /\ turn[c] = "sent"
        /\ turn' = [turn EXCEPT ![c] = "taken"]
        /\ UNCHANGED <<client, posted, events>>
    BY <1>8 DEF ClientTake
  <2>. QED  BY <1>2, <1>5, <1>6, <2>1 DEF Tidy, Busy, Kind, LlTypeOK, ReadInv
<1>9. CASE ClientWrite(c)
  <2>1. /\ client[c] = "up" /\ turn[c] = "taken"
        /\ turn' = [turn EXCEPT ![c] = "none"]
        /\ posted' = [posted EXCEPT ![c] = TRUE]
        /\ UNCHANGED <<client, events>>
    BY <1>9 DEF ClientWrite
  <2>. QED  BY <1>2, <1>5, <1>6, <2>1 DEF Tidy, Busy, Kind, LlTypeOK, ReadInv
<1>10. CASE ClientCutWrite(c)
  <2>1. /\ client[c] = "cut" /\ client' = [client EXCEPT ![c] = "gone"]
        /\ UNCHANGED <<turn, posted, events>>
    BY <1>10 DEF ClientCutWrite
  <2>. QED  BY <1>2, <1>5, <1>6, <2>1 DEF Tidy, Busy, Kind, LlTypeOK, ReadInv
<1>11. CASE ClientEnd(c)
  <2>1. /\ client[c] = "up" /\ client' = [client EXCEPT ![c] = "ended"]
        /\ posted' = [posted EXCEPT ![c] = FALSE]
        /\ turn[c] = "taken" /\ cq[c] = <<>> /\ poller[2] # c
        /\ reader = "wait" /\ read_counter = buf_recv_counter
        /\ UNCHANGED <<turn, events>>
    BY <1>11 DEF ClientEnd
  <2>. QED  BY <1>2, <1>5, <1>6, <2>1 DEF Tidy, Busy, Kind, LlTypeOK, ReadInv
<1>12. CASE Handshake(c)
  <2>1. /\ client[c] = "connecting" /\ qp[c] = "up"
        /\ client' = [client EXCEPT ![c] = "up"]
        /\ events' = Append(events, <<"established", c>>)
        /\ UNCHANGED <<turn, posted>>
    BY <1>12 DEF Handshake
  <2>2. ~Queued("request", c) /\ ~Queued("established", c) /\ ~Queued("rejected", c)
    BY <2>1 DEF EventInv
  <2>3. ~Queued("request", c)' /\ ~Queued("rejected", c)'
    BY <2>1, <2>2, Raised DEF EventInv, Kind
  <2>. QED  BY <1>2, <1>5, <2>1, <2>3 DEF Tidy, Busy, LlTypeOK, ReadInv
<1>13. CASE Notice(c)
  <2>1. /\ client[c] = "ended"
        /\ client' = [client EXCEPT ![c] = "gone"]
        /\ events' = Append(events, <<"disconnected", c>>)
        /\ UNCHANGED <<turn, posted>>
    BY <1>13 DEF Notice
  <2>2. ~Queued("request", c)' /\ ~Queued("established", c)' /\ ~Queued("rejected", c)'
    BY <1>5, <2>1, Raised DEF EventInv, Kind, Tidy
  <2>. QED  BY <1>2, <1>5, <2>1, <2>2 DEF Tidy, Busy, LlTypeOK, ReadInv
<1>. QED
  BY <1>1, <1>5, <1>7, <1>8, <1>9, <1>10, <1>11, <1>12, <1>13
  DEF ClientStep, ClientRejected, ClientCut

LEMMA EventLoopQuiet ==
  ASSUME LlTypeOK, EventInv, MemoryInv, QuietInv, alone, quiet, Listen \/ EventLoop
  PROVE  server' # "dead" /\ (\A d \in Client : Tidy(d)') /\ ReadInv'
<1>1. server # "dead" /\ ReadInv /\ \A c \in Client : Tidy(c)
  BY DEF QuietInv
<1>2. \A c \in Client : qp[c] = "up" \/ freeing = c => buffer = c /\ c \in live
  BY Present
<1>3. CASE Listen
  <2>1. /\ UNCHANGED <<client, turn, posted, events, freeing, qp, told, live, cq, poller,
                      buf_recv_counter, reader, read_counter>>
        /\ server' = "listening"
    BY <1>3 DEF Listen, cliVars, connVars, pollVars, readVars
  <2>2. \A d \in Client : Tidy(d)'
    BY <1>1, <2>1, Kept, TidyFrame DEF Tidy
  <2>. QED  BY <1>1, <2>1, <2>2 DEF ReadInv
<1>4. ASSUME NEW c \in Client, OnConnectRequest(c)
      PROVE  server' # "dead" /\ (\A d \in Client : Tidy(d)') /\ ReadInv'
  <2>1. NextEvent("request", c)
    BY <1>4 DEF OnConnectRequest
  <2>2. \A k \in Kind, d \in Client : Queued(k, d)' => Queued(k, d)
    BY <2>1, Taken DEF EventInv, Kind
  <2>3. client[c] = "connecting"
    BY <1>1, <2>1, Taken DEF EventInv, Kind, Tidy
  <2>4. /\ qp' = [qp EXCEPT ![c] = "up"]
        /\ live' = live \cup {c}
        /\ UNCHANGED <<client, turn, posted, server, freeing, told, cq, poller, reader,
                      read_counter, buf_recv_counter>>
    BY <1>4, <2>3 DEF OnConnectRequest, ServerOnPreConn, cliVars, readVars
  <2>5. \A d \in Client : Tidy(d)'
    BY <1>1, <1>2, <2>2, <2>4, TidyFrame DEF LlTypeOK
  <2>. QED  BY <1>1, <2>4, <2>5 DEF ReadInv
<1>5. ASSUME NEW c \in Client, OnEstablished(c)
      PROVE  server' # "dead" /\ (\A d \in Client : Tidy(d)') /\ ReadInv'
  <2>1. NextEvent("established", c)
    BY <1>5 DEF OnEstablished
  <2>2. \A k \in Kind, d \in Client : Queued(k, d)' => Queued(k, d)
    BY <2>1, Taken DEF EventInv, Kind
  <2>3. Queued("established", c) /\ ~Queued("established", c)'
    BY <2>1, Taken DEF EventInv, Kind
  <2>4. client[c] = "up" /\ turn[c] = "none" /\ ~Busy(c)
    BY <1>1, <2>3 DEF Tidy
  <2>5. buffer = c /\ buffer \in live
    BY <1>2, <2>4 DEF EventInv
  <2>6. /\ told' = [told EXCEPT ![c] = c]
        /\ turn' = [turn EXCEPT ![c] = "sent"]
        /\ UNCHANGED <<client, posted, server, freeing, qp, live, cq, poller, reader,
                      read_counter, buf_recv_counter>>
    BY <1>5, <2>5 DEF OnEstablished, pollVars, readVars
  <2>7. \A d \in Client \ {c} : Tidy(d)'
    BY <1>1, <2>2, <2>6, TidyFrame DEF LlTypeOK, Tidy
  <2>8. Tidy(c)'
    BY <1>1, <2>2, <2>3, <2>4, <2>6 DEF Tidy, Busy, Kind, LlTypeOK
  <2>. QED  BY <1>1, <2>6, <2>7, <2>8 DEF ReadInv
<1>6. ASSUME NEW c \in Client, OnUnknownEvent(c)
      PROVE  FALSE
  BY <1>1, <1>6, Taken DEF OnUnknownEvent, EventInv, Kind, Tidy
<1>7. ASSUME NEW c \in Client, OnDisconnected(c)
      PROVE  server' # "dead" /\ (\A d \in Client : Tidy(d)') /\ ReadInv'
  <2>1. NextEvent("disconnected", c)
    BY <1>7 DEF OnDisconnected
  <2>2. \A k \in Kind, d \in Client : Queued(k, d)' => Queued(k, d)
    BY <2>1, Taken DEF EventInv, Kind
  <2>3. client[c] = "gone" /\ qp[c] = "up"
    BY <2>1, Taken DEF EventInv, Kind
  <2>4. /\ freeing' = c
        /\ qp' = [qp EXCEPT ![c] = "destroyed"]
        /\ cq' = [cq EXCEPT ![c] = <<>>]
        /\ UNCHANGED <<client, turn, posted, server, told, live, poller, reader,
                      read_counter, buf_recv_counter>>
    BY <1>7 DEF OnDisconnected, cliVars, readVars
  <2>5. cq[c] = <<>>
    BY <1>1, <2>3 DEF Tidy, Busy
  <2>6. \A d \in Client : Tidy(d)'
    BY <1>1, <1>2, <2>2, <2>3, <2>4, <2>5, TidyFrame DEF LlTypeOK
  <2>. QED  BY <1>1, <2>4, <2>6 DEF ReadInv
<1>8. CASE ServerOnDisconnect
  <2>1. freeing \in Client /\ buffer \in live /\ buffer = freeing
    BY <1>2, <1>8 DEF ServerOnDisconnect, LlTypeOK, Maybe
  <2>2. /\ live' = live \ {freeing}
        /\ freeing' = None
        /\ UNCHANGED <<client, turn, posted, server, qp, told, cq, poller, reader,
                      read_counter, buf_recv_counter, events>>
    BY <1>8, <2>1 DEF ServerOnDisconnect, cliVars, pollVars, readVars
  <2>3. qp[freeing] = "destroyed"
    BY <2>1 DEF EventInv
  <2>4. \A d \in Client : Tidy(d)'
    BY <1>1, <1>2, <2>1, <2>2, <2>3, Kept, TidyFrame, LifetimeAssumption DEF LlTypeOK
  <2>. QED  BY <1>1, <2>2, <2>4 DEF ReadInv
<1>. QED  BY <1>3, <1>4, <1>5, <1>6, <1>7, <1>8 DEF EventLoop

LEMMA DataQuiet ==
  ASSUME LlTypeOK, EventInv, MemoryInv, QuietInv, alone, quiet,
         Poller \/ Reader \/ \E c \in Client : Deliver(c) \/ SendFails(c)
  PROVE  server' # "dead" /\ (\A d \in Client : Tidy(d)') /\ ReadInv'
<1>1. server # "dead" /\ ReadInv /\ \A c \in Client : Tidy(c)
  BY DEF QuietInv
<1>2. \A c \in Client : /\ client[c] = "up" => qp[c] = "up" /\ buffer = c /\ c \in live
                        /\ qp[c] = "up" \/ freeing = c => c \in live
  BY Present
<1>3. UNCHANGED <<events, client, qp, freeing, live>>
  BY DEF Poller, PollCompletion, CountMessage, Answer, Reader, ReadStart, ReadEnd,
         Deliver, SendFails, Die, cliVars, connVars
<1>4. \A k \in Kind, d \in Client : Queued(k, d)' <=> Queued(k, d)
  BY <1>3, Kept
<1>5. ASSUME NEW c \in Client, Deliver(c)
      PROVE  server' # "dead" /\ (\A d \in Client : Tidy(d)') /\ ReadInv'
  <2>1. posted[c] /\ told[c] = c /\ c \in live /\ cq[c] = <<>>
    BY <1>1, <1>2, <1>5 DEF Deliver, Tidy, Busy
  <2>2. /\ posted' = [posted EXCEPT ![c] = FALSE]
        /\ cq' = [cq EXCEPT ![c] = Append(<<>>, "write")]
        /\ UNCHANGED <<turn, told, server, poller, reader, read_counter, buf_recv_counter>>
    BY <1>5, <2>1 DEF Deliver, connVars, readVars
  <2>3. Append(<<>>, "write") = <<"write">> /\ <<"write">> # <<>>
    OBVIOUS
  <2>4. \A d \in Client \ {c} : Tidy(d)'
    BY <1>1, <1>2, <1>3, <1>4, <2>2, TidyFrame DEF LlTypeOK
  <2>5. Tidy(c)'
    BY <1>1, <1>3, <1>4, <2>1, <2>2, <2>3 DEF Tidy, Busy, Kind, LlTypeOK
  <2>. QED  BY <1>1, <1>3, <2>2, <2>4, <2>5 DEF ReadInv
<1>6. ASSUME NEW c \in Client, SendFails(c)
      PROVE  FALSE
  BY <1>1, <1>6 DEF SendFails, Tidy, Busy
<1>7. CASE PollCompletion
  <2>1. PICK c \in Client :
          /\ cq[c] # <<>>
          /\ \/ /\ poller' = <<"polled", c>>
                /\ cq' = [cq EXCEPT ![c] = Tail(@)]
                /\ UNCHANGED <<cliVars, server, connVars, buf_recv_counter, readVars, histVars>>
             \/ Head(cq[c]) = "failed"
    BY <1>7 DEF PollCompletion
  <2>2. cq[c] = <<"write">> /\ turn[c] = "none" /\ ~posted[c] /\ client[c] = "up"
    BY <1>1, <2>1 DEF Tidy, Busy
  <2>3. Head(<<"write">>) = "write" /\ Tail(<<"write">>) = <<>>
    OBVIOUS
  <2>4. /\ poller' = <<"polled", c>>
        /\ cq' = [cq EXCEPT ![c] = <<>>]
        /\ UNCHANGED <<turn, posted, told, server, reader, read_counter, buf_recv_counter>>
    BY <2>1, <2>2, <2>3 DEF cliVars, connVars, readVars
  <2>5. \A d \in Client \ {c} : Tidy(d)'
    BY <1>1, <1>2, <1>3, <1>4, <2>4, TidyFrame DEF LlTypeOK
  <2>6. Tidy(c)'
    BY <1>1, <1>3, <1>4, <2>1, <2>2, <2>4 DEF Tidy, Busy, Kind, LlTypeOK
  <2>. QED  BY <1>1, <1>3, <2>4, <2>5, <2>6 DEF ReadInv
<1>8. ASSUME CountMessage \/ Answer
      PROVE  LET c == poller[2]
             IN  c \in Client /\ Busy(c) /\ client[c] = "up" /\ turn[c] = "none" /\ ~posted[c]
                   /\ cq[c] = <<>> /\ told[c] = c
  BY <1>1, <1>8 DEF CountMessage, Answer, ReadInv, Tidy, Busy
<1>9. CASE CountMessage
  <2>1. /\ buf_recv_counter' = buf_recv_counter + 1
        /\ poller' = <<"counted", poller[2]>>
        /\ UNCHANGED <<turn, posted, told, server, cq, reader, read_counter>>
    BY <1>2, <1>8, <1>9 DEF CountMessage, cliVars, connVars, readVars
  <2>2. \A d \in Client : Tidy(d)'
    BY <1>1, <1>2, <1>3, <1>4, <2>1, TidyFrame
  <2>. QED  BY <1>1, <1>3, <1>8, <1>9, <2>1, <2>2 DEF ReadInv, LlTypeOK
<1>10. CASE Answer
  <2>1. PICK c \in Client : c = poller[2]
    BY <1>8, <1>10
  <2>2. /\ turn' = [turn EXCEPT ![c] = "sent"]
        /\ poller' = <<"idle", None>>
        /\ UNCHANGED <<posted, told, server, cq, reader, read_counter, buf_recv_counter>>
    BY <1>2, <1>8, <1>10, <2>1 DEF Answer, connVars, readVars
  <2>3. \A d \in Client \ {c} : Tidy(d)'
    BY <1>1, <1>2, <1>3, <1>4, <2>2, TidyFrame, LifetimeAssumption DEF LlTypeOK
  <2>4. Tidy(c)'
    BY <1>1, <1>3, <1>4, <1>8, <1>10, <2>1, <2>2, LifetimeAssumption
    DEF Tidy, Busy, Kind, LlTypeOK
  <2>. QED  BY <1>1, <1>3, <2>2, <2>3, <2>4 DEF ReadInv
<1>11. CASE Reader
  <2>1. read_counter < buf_recv_counter
    BY <1>1, <1>11 DEF Reader, ReadStart, ReadEnd, CanRead, ReadInv
  <2>2. buffer \in live
    BY <1>1, <1>2, <2>1 DEF ReadInv
  <2>3. /\ UNCHANGED <<turn, posted, told, server, cq, poller, buf_recv_counter>>
        /\ \/ reader' = "read" /\ read_counter' = read_counter
           \/ reader' = "wait" /\ read_counter' = read_counter + 1
    BY <1>11, <2>2 DEF Reader, ReadStart, ReadEnd, cliVars, connVars, pollVars
  <2>4. \A d \in Client : Tidy(d)'
    BY <1>1, <1>2, <1>3, <1>4, <2>3, TidyFrame
  <2>. QED  BY <1>1, <1>3, <2>1, <2>3, <2>4 DEF ReadInv, LlTypeOK
<1>. QED  BY <1>5, <1>6, <1>7, <1>9, <1>10, <1>11 DEF Poller

LEMMA StepQuiet ==
  ASSUME LlTypeOK, EventInv, MemoryInv, QuietInv, [Next]_vars
  PROVE  QuietInv'
<1>. SUFFICES ASSUME alone', quiet'
              PROVE  server' # "dead" /\ (\A d \in Client : Tidy(d)') /\ ReadInv'
  BY DEF QuietInv
<1>1. alone /\ quiet
  BY History
<1>2. CASE UNCHANGED vars
  <2>1. server # "dead" /\ ReadInv /\ \A d \in Client : Tidy(d)
    BY <1>1 DEF QuietInv
  <2>2. /\ UNCHANGED <<client, turn, posted, server, events, freeing, qp, told, live, cq, poller>>
        /\ UNCHANGED <<buf_recv_counter, reader, read_counter>>
    BY <1>2 DEF vars, cliVars, connVars, pollVars, readVars
  <2>3. \A d \in Client : Tidy(d)'
    BY <2>1, <2>2, Kept, TidyFrame DEF Tidy
  <2>. QED  BY <2>1, <2>2, <2>3 DEF ReadInv
<1>. QED  BY <1>1, <1>2, ClientQuiet, EventLoopQuiet, DataQuiet DEF Next

-----------------------------------------------------------------------------
LEMMA InitInv == Init => LlIInv
<1>. SUFFICES ASSUME Init PROVE LlIInv
  OBVIOUS
<1>1. \A k, d : ~Queued(k, d)
  BY DEF Init, Queued
<1>2. EventInv
  BY <1>1, LifetimeAssumption DEF Init, EventInv, Once
<1>3. MemoryInv
  BY LifetimeAssumption DEF Init, MemoryInv, Gone
<1>4. QuietInv
  BY <1>1, LifetimeAssumption DEF Init, QuietInv, Tidy, Busy, ReadInv
<1>. QED  BY <1>2, <1>3, <1>4, InitType DEF LlIInv

(***************************************************************************)
(* LlIInv holds in every state of every run, for any set of clients.       *)
(***************************************************************************)
THEOREM Invariance == Spec => []LlIInv
<1>1. LlIInv /\ [Next]_vars => LlIInv'
  BY StepType, StepEvents, StepMemory, StepQuiet DEF LlIInv
<1>. QED  BY InitInv, <1>1, PTL DEF Spec

(***************************************************************************)
(* Every variable keeps its type; the counters of the connection and the   *)
(* reader are unbounded, as many as the clients' messages.                 *)
(***************************************************************************)
THEOREM Types == Spec => []LlTypeOK
<1>1. LlIInv => LlTypeOK
  BY DEF LlIInv
<1>. QED  BY Invariance, <1>1, PTL

(***************************************************************************)
(* server_on_pre_conn and server_on_disconnect keep at most one connection's*)
(* memory allocated, however many clients come one after the other.        *)
(***************************************************************************)
THEOREM NoLeak == Spec => []NothingLeaks
<1>1. LlIInv => NothingLeaks
  BY DEF LlIInv, MemoryInv, NothingLeaks, LlTypeOK
<1>. QED  BY Invariance, <1>1, PTL

(***************************************************************************)
(* However many clients come one after the other and end quietly, no path  *)
(* of the event loop, server_poll_cq or main reaches rc_die or touches     *)
(* freed memory.                                                           *)
(***************************************************************************)
THEOREM Survival == Spec => []ServerSurvives
<1>1. LlIInv => ServerSurvives
  BY DEF LlIInv, QuietInv, ServerSurvives
<1>. QED  BY Invariance, <1>1, PTL
=============================================================================
