--------------------------- MODULE OneSidedProofs ---------------------------
(***************************************************************************)
(* Proofs about the one-sided sessions, for any number of clients, any     *)
(* send queue, and whatever fails.                                         *)
(***************************************************************************)
EXTENDS OneSidedSession, SequenceTheorems, TLAPS

(***************************************************************************)
(* The methods of a process, one after the other, in the order of the code.*)
(***************************************************************************)
LEMMA ServerProgram ==
  /\ Len(Program(Server)) = 29
  /\ Len(Setup(Server)) = 18
  /\ Program(Server)[1] = Create("channel")
  /\ Program(Server)[2] = Create("server_id")
  /\ Program(Server)[3] = Call("bind")
  /\ Program(Server)[4] = Call("listen")
  /\ Program(Server)[5] = Await("CONNECT_REQUEST")
  /\ Program(Server)[6] = Create("pd")
  /\ Program(Server)[7] = Create("comp")
  /\ Program(Server)[8] = Create("cq")
  /\ Program(Server)[9] = Call("notify")
  /\ Program(Server)[10] = Create("qp")
  /\ Program(Server)[11] = Create("client_metadata_mr")
  /\ Program(Server)[12] = Call("post_recv")
  /\ Program(Server)[13] = Call("accept")
  /\ Program(Server)[14] = Await("ESTABLISHED")
  /\ Program(Server)[15] = Reap(1)
  /\ Program(Server)[16] = Create("server_buffer_mr")
  /\ Program(Server)[17] = Create("server_metadata_mr")
  /\ Program(Server)[18] = Call("post_send")
  /\ Program(Server)[19] = Await("DISCONNECTED")
  /\ Program(Server)[20] = Destroy("qp")
  /\ Program(Server)[21] = Destroy("id")
  /\ Program(Server)[22] = Destroy("cq")
  /\ Program(Server)[23] = Destroy("comp")
  /\ Program(Server)[24] = Destroy("server_buffer_mr")
  /\ Program(Server)[25] = Destroy("server_metadata_mr")
  /\ Program(Server)[26] = Destroy("client_metadata_mr")
  /\ Program(Server)[27] = Destroy("pd")
  /\ Program(Server)[28] = Destroy("server_id")
  /\ Program(Server)[29] = Destroy("channel")
<1>1. Program(Server) = ServerSetup \o ServerClean /\ Setup(Server) = ServerSetup
  BY DEF Program, Setup
<1>. QED
  BY <1>1 DEF ServerSetup, StartServer, SetupClientResources, AcceptClient,
              SendServerMetadata, ServerClean, ServerDestroy

LEMMA ClientProgram ==
  ASSUME NEW c \in Client
  PROVE
  /\ Len(Program(c)) = 30
  /\ Len(Setup(c)) = 19
  /\ Program(c)[1] = Create("channel")
  /\ Program(c)[2] = Create("id")
  /\ Program(c)[3] = Call("resolve_addr")
  /\ Program(c)[4] = Await("ADDR_RESOLVED")
  /\ Program(c)[5] = Call("resolve_route")
  /\ Program(c)[6] = Await("ROUTE_RESOLVED")
  /\ Program(c)[7] = Create("pd")
  /\ Program(c)[8] = Create("comp")
  /\ Program(c)[9] = Create("cq")
  /\ Program(c)[10] = Call("notify")
  /\ Program(c)[11] = Create("qp")
  /\ Program(c)[12] = Create("server_metadata_mr")
  /\ Program(c)[13] = Call("post_recv")
  /\ Program(c)[14] = Call("connect")
  /\ Program(c)[15] = Await("ESTABLISHED")
  /\ Program(c)[16] = Create("src_mr")
  /\ Program(c)[17] = Create("client_metadata_mr")
  /\ Program(c)[18] = Call("post_send")
  /\ Program(c)[19] = Reap(2)
  /\ Program(c)[20] = Call("disconnect")
  /\ Program(c)[21] = Await("DISCONNECTED")
  /\ Program(c)[22] = Destroy("qp")
  /\ Program(c)[23] = Destroy("id")
  /\ Program(c)[24] = Destroy("cq")
  /\ Program(c)[25] = Destroy("comp")
  /\ Program(c)[26] = Destroy("server_metadata_mr")
  /\ Program(c)[27] = Destroy("client_metadata_mr")
  /\ Program(c)[28] = Destroy("src_mr")
  /\ Program(c)[29] = Destroy("pd")
  /\ Program(c)[30] = Destroy("channel")
<1>1. Program(c) = ClientSetup \o ClientClean /\ Setup(c) = ClientSetup
  BY SessionAssumption DEF Program, Setup
<1>. QED
  BY <1>1 DEF ClientSetup, ClientPrepareConnection, ClientPrePostRecv, ClientConnect,
              ClientSendMetadata, ClientClean, ClientDestroy

-----------------------------------------------------------------------------
(***************************************************************************)
(* Where a call comes: each comes once in a process.                       *)
(***************************************************************************)
LEMMA ServerPositions ==
  ASSUME NEW i \in 1 .. 29
  PROVE
  /\ Program(Server)[i] = Await("CONNECT_REQUEST") <=> i = 5
  /\ Program(Server)[i] = Call("accept") <=> i = 13
  /\ Program(Server)[i] = Call("post_send") <=> i = 18
  /\ Program(Server)[i] = Await("DISCONNECTED") <=> i = 19
  /\ Program(Server)[i] = Create("channel") <=> i = 1
  /\ Program(Server)[i] = Create("server_id") <=> i = 2
  /\ Program(Server)[i] = Create("pd") <=> i = 6
  /\ Program(Server)[i] = Create("comp") <=> i = 7
  /\ Program(Server)[i] = Create("cq") <=> i = 8
  /\ Program(Server)[i] = Create("qp") <=> i = 10
  /\ Program(Server)[i] = Create("client_metadata_mr") <=> i = 11
  /\ Program(Server)[i] = Create("server_buffer_mr") <=> i = 16
  /\ Program(Server)[i] = Create("server_metadata_mr") <=> i = 17
  /\ Program(Server)[i] # Create("src_mr") /\ Program(Server)[i] # Create("id")
  /\ Program(Server)[i] = Destroy("qp") <=> i = 20
  /\ Program(Server)[i] = Destroy("id") <=> i = 21
  /\ Program(Server)[i] = Destroy("cq") <=> i = 22
  /\ Program(Server)[i] = Destroy("comp") <=> i = 23
  /\ Program(Server)[i] = Destroy("server_buffer_mr") <=> i = 24
  /\ Program(Server)[i] = Destroy("server_metadata_mr") <=> i = 25
  /\ Program(Server)[i] = Destroy("client_metadata_mr") <=> i = 26
  /\ Program(Server)[i] = Destroy("pd") <=> i = 27
  /\ Program(Server)[i] = Destroy("server_id") <=> i = 28
  /\ Program(Server)[i] = Destroy("channel") <=> i = 29
BY ServerProgram DEF Create, Call, Await, Reap, Destroy

LEMMA ClientPositions ==
  ASSUME NEW c \in Client, NEW i \in 1 .. 30
  PROVE
  /\ Program(c)[i] # Await("CONNECT_REQUEST")
  /\ Program(c)[i] = Call("connect") <=> i = 14
  /\ Program(c)[i] = Call("post_send") <=> i = 18
  /\ Program(c)[i] = Reap(2) <=> i = 19
  /\ Program(c)[i] = Create("channel") <=> i = 1
  /\ Program(c)[i] = Create("id") <=> i = 2
  /\ Program(c)[i] = Create("pd") <=> i = 7
  /\ Program(c)[i] = Create("comp") <=> i = 8
  /\ Program(c)[i] = Create("cq") <=> i = 9
  /\ Program(c)[i] = Create("qp") <=> i = 11
  /\ Program(c)[i] = Create("server_metadata_mr") <=> i = 12
  /\ Program(c)[i] = Create("src_mr") <=> i = 16
  /\ Program(c)[i] = Create("client_metadata_mr") <=> i = 17
  /\ Program(c)[i] # Create("server_id") /\ Program(c)[i] # Create("server_buffer_mr")
  /\ Program(c)[i] = Destroy("qp") <=> i = 22
  /\ Program(c)[i] = Destroy("id") <=> i = 23
  /\ Program(c)[i] = Destroy("cq") <=> i = 24
  /\ Program(c)[i] = Destroy("comp") <=> i = 25
  /\ Program(c)[i] = Destroy("server_metadata_mr") <=> i = 26
  /\ Program(c)[i] = Destroy("client_metadata_mr") <=> i = 27
  /\ Program(c)[i] = Destroy("src_mr") <=> i = 28
  /\ Program(c)[i] = Destroy("pd") <=> i = 29
  /\ Program(c)[i] = Destroy("channel") <=> i = 30
BY ClientProgram DEF Create, Call, Await, Reap, Destroy

-----------------------------------------------------------------------------
(***************************************************************************)
(* The clean-up methods fit the set-up methods: whatever a process makes   *)
(* it destroys once, afterwards, and after everything that uses it.        *)
(***************************************************************************)
LEMMA ServerBalanced ==
  ASSUME NEW obj \in Object
  PROVE  /\ \A i, j \in 1 .. 29 :
              Makes(Program(Server)[i], obj) /\ Program(Server)[j] = Destroy(obj) => i < j
         /\ \A i \in 1 .. 29 : Makes(Program(Server)[i], obj) =>
              \E j \in 1 .. 29 : Program(Server)[j] = Destroy(obj)
         /\ \A user \in Users(obj) : \A i, j \in 1 .. 29 :
              Makes(Program(Server)[i], user) /\ Program(Server)[j] = Destroy(obj) =>
                \E k \in 1 .. j - 1 : Program(Server)[k] = Destroy(user)
<1>1. \A i, j \in 1 .. 29 :
        Makes(Program(Server)[i], obj) /\ Program(Server)[j] = Destroy(obj) => i < j
  BY ServerPositions DEF Makes, Object
<1>2. \A i \in 1 .. 29 : Makes(Program(Server)[i], obj) =>
        \E j \in 1 .. 29 : Program(Server)[j] = Destroy(obj)
  BY ServerPositions, ServerProgram DEF Makes, Object
<1>3. ASSUME NEW user \in Users(obj), NEW i \in 1 .. 29, NEW j \in 1 .. 29,
             Makes(Program(Server)[i], user), Program(Server)[j] = Destroy(obj)
      PROVE  \E k \in 1 .. j - 1 : Program(Server)[k] = Destroy(user)
  <2>1. CASE obj = "pd"
    <3>1. user \in {"qp", "client_metadata_mr", "server_metadata_mr", "server_buffer_mr", "src_mr"}
      BY <2>1 DEF Users, Region
    <3>2. user # "src_mr"
      BY <1>3, ServerPositions DEF Makes
    <3>3. j = 27
      BY <1>3, <2>1, ServerPositions
    <3>. QED  BY <3>1, <3>2, <3>3, ServerProgram
  <2>2. CASE obj = "comp"
    <3>1. user = "cq" /\ j = 23
      BY <1>3, <2>2, ServerPositions DEF Users
    <3>. QED  BY <3>1, ServerProgram
  <2>3. CASE obj \in {"cq", "id"}
    <3>1. user = "qp" /\ j \in {21, 22}
      BY <1>3, <2>3, ServerPositions DEF Users
    <3>. QED  BY <3>1, ServerProgram
  <2>4. CASE obj = "channel"
    <3>1. user \in {"id", "server_id"} /\ j = 29
      BY <1>3, <2>4, ServerPositions DEF Users
    <3>. QED  BY <3>1, ServerProgram
  <2>5. CASE obj \notin {"pd", "comp", "cq", "id", "channel"}
    BY <2>5 DEF Users
  <2>. QED  BY <2>1, <2>2, <2>3, <2>4, <2>5
<1>. QED  BY <1>1, <1>2, <1>3

LEMMA ClientBalanced ==
  ASSUME NEW c \in Client, NEW obj \in Object
  PROVE  /\ \A i, j \in 1 .. 30 :
              Makes(Program(c)[i], obj) /\ Program(c)[j] = Destroy(obj) => i < j
         /\ \A i \in 1 .. 30 : Makes(Program(c)[i], obj) =>
              \E j \in 1 .. 30 : Program(c)[j] = Destroy(obj)
         /\ \A user \in Users(obj) : \A i, j \in 1 .. 30 :
              Makes(Program(c)[i], user) /\ Program(c)[j] = Destroy(obj) =>
                \E k \in 1 .. j - 1 : Program(c)[k] = Destroy(user)
<1>1. \A i, j \in 1 .. 30 :
        Makes(Program(c)[i], obj) /\ Program(c)[j] = Destroy(obj) => i < j
  BY ClientPositions DEF Makes, Object
<1>2. \A i \in 1 .. 30 : Makes(Program(c)[i], obj) =>
        \E j \in 1 .. 30 : Program(c)[j] = Destroy(obj)
  BY ClientPositions, ClientProgram DEF Makes, Object
<1>3. ASSUME NEW user \in Users(obj), NEW i \in 1 .. 30, NEW j \in 1 .. 30,
             Makes(Program(c)[i], user), Program(c)[j] = Destroy(obj)
      PROVE  \E k \in 1 .. j - 1 : Program(c)[k] = Destroy(user)
  <2>1. CASE obj = "pd"
    <3>1. user \in {"qp", "client_metadata_mr", "server_metadata_mr", "server_buffer_mr", "src_mr"}
      BY <2>1 DEF Users, Region
    <3>2. user # "server_buffer_mr"
      BY <1>3, ClientPositions DEF Makes
    <3>3. j = 29
      BY <1>3, <2>1, ClientPositions
    <3>. QED  BY <3>1, <3>2, <3>3, ClientProgram
  <2>2. CASE obj = "comp"
    <3>1. user = "cq" /\ j = 25
      BY <1>3, <2>2, ClientPositions DEF Users
    <3>. QED  BY <3>1, ClientProgram
  <2>3. CASE obj \in {"cq", "id"}
    <3>1. user = "qp" /\ j \in {23, 24}
      BY <1>3, <2>3, ClientPositions DEF Users
    <3>. QED  BY <3>1, ClientProgram
  <2>4. CASE obj = "channel"
    <3>1. user \in {"id", "server_id"} /\ j = 30
      BY <1>3, <2>4, ClientPositions DEF Users
    <3>2. user # "server_id"
      BY <1>3, ClientPositions DEF Makes
    <3>. QED  BY <3>1, <3>2, ClientProgram
  <2>5. CASE obj \notin {"pd", "comp", "cq", "id", "channel"}
    BY <2>5 DEF Users
  <2>. QED  BY <2>1, <2>2, <2>3, <2>4, <2>5
<1>. QED  BY <1>1, <1>2, <1>3

LEMMA Balanced ==
  ASSUME NEW p \in Peer, NEW obj \in Object
  PROVE  /\ \A i, j \in 1 .. Len(Program(p)) :
              Makes(Program(p)[i], obj) /\ Program(p)[j] = Destroy(obj) => i < j
         /\ \A i \in 1 .. Len(Program(p)) : Makes(Program(p)[i], obj) =>
              \E j \in 1 .. Len(Program(p)) : Program(p)[j] = Destroy(obj)
         /\ \A user \in Users(obj) : \A i, j \in 1 .. Len(Program(p)) :
              Makes(Program(p)[i], user) /\ Program(p)[j] = Destroy(obj) =>
                \E k \in 1 .. j - 1 : Program(p)[k] = Destroy(user)
<1>. DEFINE Fits(q, n) ==
       /\ \A i, j \in 1 .. n : Makes(Program(q)[i], obj) /\ Program(q)[j] = Destroy(obj) => i < j
       /\ \A i \in 1 .. n : Makes(Program(q)[i], obj) =>
            \E j \in 1 .. n : Program(q)[j] = Destroy(obj)
       /\ \A user \in Users(obj) : \A i, j \in 1 .. n :
            Makes(Program(q)[i], user) /\ Program(q)[j] = Destroy(obj) =>
              \E k \in 1 .. j - 1 : Program(q)[k] = Destroy(user)
<1>. SUFFICES Fits(p, Len(Program(p)))
  OBVIOUS
<1>1. Fits(Server, 29)
  BY ServerBalanced
<1>2. \A c \in Client : Fits(c, 30)
  BY ClientBalanced
<1>. HIDE DEF Fits
<1>3. CASE p = Server
  BY <1>1, <1>3, ServerProgram
<1>4. CASE p \in Client
  BY <1>2, <1>4, ClientProgram
<1>. QED  BY <1>3, <1>4 DEF Peer

-----------------------------------------------------------------------------
(***************************************************************************)
(* The next call of a process, and how it advances.                        *)
(***************************************************************************)
LEMMA NextCall ==
  ASSUME OsTypeOK, NEW p \in Peer, NEW call, At(p, call)
  PROVE  /\ at[p] \in 1 .. Len(Program(p)) /\ Program(p)[at[p]] = call
         /\ status[p] = "ok" /\ Len(Program(p)) \in Nat
<1>1. Len(Program(p)) \in Nat
  BY ServerProgram, ClientProgram DEF Peer
<1>. QED  BY <1>1 DEF OsTypeOK, At

LEMMA Advance ==
  ASSUME OsTypeOK, NEW p \in Peer, NEW call, At(p, call), Continue(p), NEW q \in Peer
  PROVE  /\ q = p => Before(q)' = Before(q) \cup {call}
         /\ q # p => Before(q)' = Before(q)
         /\ at' \in [Peer -> Nat] /\ at'[q] \in 1 .. Len(Program(q)) + 1
         /\ status' = status
<1>1. at[p] \in 1 .. Len(Program(p)) /\ Program(p)[at[p]] = call /\ Len(Program(p)) \in Nat
  BY NextCall
<1>2. at' = [at EXCEPT ![p] = @ + 1] /\ at \in [Peer -> Nat]
      /\ at[q] \in 1 .. Len(Program(q)) + 1 /\ status' = status
  BY DEF Continue, OsTypeOK
<1>3. CASE q = p
  <2>1. at'[q] - 1 = at[p] /\ at[p] \in Nat \ {0}
    BY <1>1, <1>2, <1>3
  <2>2. 1 .. at'[q] - 1 = (1 .. at[p] - 1) \cup {at[p]}
    BY <2>1
  <2>3. Before(q)' = {Program(p)[i] : i \in 1 .. at'[q] - 1}
    BY <1>3 DEF Before
  <2>4. Before(q)' = Before(q) \cup {call}
    BY <1>1, <1>3, <2>2, <2>3 DEF Before
  <2>. QED  BY <1>1, <1>2, <1>3, <2>4
<1>4. CASE q # p
  <2>1. at'[q] = at[q]
    BY <1>2, <1>4
  <2>2. Before(q)' = Before(q)
    BY <2>1 DEF Before
  <2>. QED  BY <1>2, <1>4, <2>1, <2>2
<1>. QED  BY <1>3, <1>4

LEMMA Remain ==
  ASSUME UNCHANGED at, NEW q \in Peer
  PROVE  Before(q)' = Before(q)
BY DEF Before

(***************************************************************************)
(* What a process has behind it when it comes to a call.                   *)
(***************************************************************************)
LEMMA ServerOrder ==
  ASSUME OsTypeOK
  PROVE  /\ At(Server, Await("CONNECT_REQUEST")) => ~Done(Server, Call("accept"))
         /\ At(Server, Call("post_send")) => ~Done(Server, Call("post_send"))
         /\ Done(Server, Destroy("server_buffer_mr")) => Done(Server, Await("DISCONNECTED"))
         /\ Done(Server, Call("post_send")) => Done(Server, Create("server_buffer_mr"))
         /\ At(Server, Create("server_buffer_mr")) =>
              ~Done(Server, Create("server_buffer_mr")) /\ ~Done(Server, Destroy("server_buffer_mr"))
         /\ At(Server, Destroy("server_buffer_mr")) =>
              /\ Done(Server, Create("server_buffer_mr")) /\ ~Done(Server, Destroy("server_buffer_mr"))
              /\ Done(Server, Await("DISCONNECTED"))
<1>1. Server \in Peer /\ Len(Program(Server)) = 29
  BY ServerProgram DEF Peer
<1>2. at[Server] \in 1 .. 30
  <2>1. at[Server] \in 1 .. Len(Program(Server)) + 1
    BY <1>1 DEF OsTypeOK
  <2>. QED  BY <1>1, <2>1
<1>3. ASSUME NEW call, At(Server, call)
      PROVE  at[Server] \in 1 .. 29 /\ Program(Server)[at[Server]] = call
  <2>1. at[Server] \in 1 .. Len(Program(Server)) /\ Program(Server)[at[Server]] = call
    BY <1>1, <1>3, NextCall
  <2>. QED  BY <1>1, <2>1
<1>4. /\ Done(Server, Call("accept")) <=> at[Server] > 13
      /\ Done(Server, Call("post_send")) <=> at[Server] > 18
      /\ Done(Server, Await("DISCONNECTED")) <=> at[Server] > 19
      /\ Done(Server, Create("server_buffer_mr")) <=> at[Server] > 16
      /\ Done(Server, Destroy("server_buffer_mr")) <=> at[Server] > 24
  <2>1. ASSUME NEW call, NEW k \in 1 .. 29, \A i \in 1 .. 29 : Program(Server)[i] = call <=> i = k
        PROVE  Done(Server, call) <=> at[Server] > k
    BY <1>2, <2>1 DEF Done, Before
  <2>2. Done(Server, Call("accept")) <=> at[Server] > 13
    BY <2>1, ServerPositions
  <2>3. Done(Server, Call("post_send")) <=> at[Server] > 18
    BY <2>1, ServerPositions
  <2>4. Done(Server, Await("DISCONNECTED")) <=> at[Server] > 19
    BY <2>1, ServerPositions
  <2>5. Done(Server, Create("server_buffer_mr")) <=> at[Server] > 16
    BY <2>1, ServerPositions
  <2>6. Done(Server, Destroy("server_buffer_mr")) <=> at[Server] > 24
    BY <2>1, ServerPositions
  <2>. QED  BY <2>2, <2>3, <2>4, <2>5, <2>6
<1>. QED  BY <1>2, <1>3, <1>4, ServerPositions

LEMMA ClientOrder ==
  ASSUME OsTypeOK, NEW c \in Client
  PROVE  /\ ~At(c, Await("CONNECT_REQUEST"))
         /\ At(c, Call("connect")) => ~Done(c, Call("connect"))
         /\ At(c, Call("post_send")) => ~Done(c, Call("post_send"))
         /\ IsSetUp(c) => Done(c, Reap(2))
<1>1. c \in Peer /\ Len(Program(c)) = 30 /\ Len(Setup(c)) = 19
  BY ClientProgram DEF Peer
<1>2. at[c] \in 1 .. 31
  <2>1. at[c] \in 1 .. Len(Program(c)) + 1
    BY <1>1 DEF OsTypeOK
  <2>. QED  BY <1>1, <2>1
<1>3. ASSUME NEW call, At(c, call)
      PROVE  at[c] \in 1 .. 30 /\ Program(c)[at[c]] = call
  <2>1. at[c] \in 1 .. Len(Program(c)) /\ Program(c)[at[c]] = call
    BY <1>1, <1>3, NextCall
  <2>. QED  BY <1>1, <2>1
<1>4. /\ Done(c, Call("connect")) <=> at[c] > 14
      /\ Done(c, Call("post_send")) <=> at[c] > 18
      /\ Done(c, Reap(2)) <=> at[c] > 19
  <2>1. ASSUME NEW call, NEW k \in 1 .. 30, \A i \in 1 .. 30 : Program(c)[i] = call <=> i = k
        PROVE  Done(c, call) <=> at[c] > k
    BY <1>2, <2>1 DEF Done, Before
  <2>2. Done(c, Call("connect")) <=> at[c] > 14
    BY <2>1, ClientPositions
  <2>3. Done(c, Call("post_send")) <=> at[c] > 18
    BY <2>1, ClientPositions
  <2>4. Done(c, Reap(2)) <=> at[c] > 19
    BY <2>1, ClientPositions
  <2>. QED  BY <2>2, <2>3, <2>4
<1>. QED  BY <1>1, <1>2, <1>3, <1>4, ClientPositions DEF IsSetUp

-----------------------------------------------------------------------------
(***************************************************************************)
(* The queues of connection-manager events.                                *)
(***************************************************************************)
LEMMA EventTyped ==
  ASSUME NEW type \in EventType, NEW from \in Peer
  PROVE  Event(type, from) \in [type : EventType, from : Peer] /\ Event(type, from).type = type
BY DEF Event

LEMMA QueuedAppend ==
  ASSUME OsTypeOK, NEW p \in Peer, NEW type \in EventType, NEW from \in Peer,
         events'[p] = Append(events[p], Event(type, from))
  PROVE  /\ events'[p] \in Seq([type : EventType, from : Peer])
         /\ \A t \in EventType : Queued(t, p)' => Queued(t, p) \/ t = type
<1>1. events[p] \in Seq([type : EventType, from : Peer])
  BY DEF OsTypeOK
<1>2. PICK s \in Seq([type : EventType, from : Peer]) : s = events[p]
  BY <1>1
<1>3. PICK e \in [type : EventType, from : Peer] : e = Event(type, from) /\ e.type = type
  BY EventTyped
<1>4. PICK r : r = Append(s, e)
  OBVIOUS
<1>5. /\ r \in Seq([type : EventType, from : Peer]) /\ Len(r) = Len(s) + 1 /\ Len(s) \in Nat
      /\ \A i \in 1 .. Len(s) : r[i] = s[i]
      /\ r[Len(s) + 1] = e
  BY <1>4, AppendProperties, LenProperties
<1>6. events'[p] = r
  BY <1>2, <1>3, <1>4
<1>7. ASSUME NEW t \in EventType, Queued(t, p)', t # type
      PROVE  Queued(t, p)
  <2>1. PICK i \in 1 .. Len(r) : r[i].type = t
    BY <1>6, <1>7 DEF Queued
  <2>2. i \in 1 .. Len(s)
    BY <1>3, <1>5, <1>7, <2>1
  <2>. QED  BY <1>2, <1>5, <2>1, <2>2 DEF Queued
<1>. QED  BY <1>5, <1>6, <1>7

LEMMA QueuedTail ==
  ASSUME OsTypeOK, NEW p \in Peer, events[p] # << >>, events'[p] = Tail(events[p])
  PROVE  /\ Head(events[p]) \in [type : EventType, from : Peer]
         /\ Queued(Head(events[p]).type, p)
         /\ events'[p] \in Seq([type : EventType, from : Peer])
         /\ \A t \in EventType : Queued(t, p)' => Queued(t, p)
<1>1. events[p] \in Seq([type : EventType, from : Peer])
  BY DEF OsTypeOK
<1>2. PICK s \in Seq([type : EventType, from : Peer]) : s = events[p]
  BY <1>1
<1>3. PICK r : r = Tail(s)
  OBVIOUS
<1>4. /\ Head(s) \in [type : EventType, from : Peer]
      /\ r \in Seq([type : EventType, from : Peer])
      /\ Len(r) = Len(s) - 1 /\ Len(s) \in Nat
      /\ \A i \in 1 .. Len(r) : r[i] = s[i + 1]
  BY <1>2, <1>3, HeadTailProperties, LenProperties
<1>5. Len(s) > 0 /\ s[1] = Head(s)
  BY <1>2, <1>4, EmptySeq
<1>6. events'[p] = r
  BY <1>2, <1>3
<1>7. ASSUME NEW t \in EventType, Queued(t, p)'
      PROVE  Queued(t, p)
  <2>1. PICK i \in 1 .. Len(r) : r[i].type = t
    BY <1>6, <1>7 DEF Queued
  <2>2. i + 1 \in 1 .. Len(s) /\ s[i + 1].type = t
    BY <1>4, <2>1
  <2>. QED  BY <1>2, <2>2 DEF Queued
<1>8. Queued(Head(events[p]).type, p)
  BY <1>2, <1>5 DEF Queued
<1>. QED  BY <1>2, <1>4, <1>6, <1>7, <1>8

LEMMA QueuedSame ==
  ASSUME NEW p, events'[p] = events[p], NEW t
  PROVE  Queued(t, p)' = Queued(t, p)
BY Zenon DEF Queued

(***************************************************************************)
(* The end of a connection leaves everything typed and the completions     *)
(* that succeeded alone; the server is told DISCONNECTED only of one that  *)
(* was up.                                                                 *)
(***************************************************************************)
LEMMA BreakEffect ==
  ASSUME OsTypeOK, NEW c \in Client, Break(c)
  PROVE  /\ link' = [link EXCEPT ![c] = "down"] /\ good' = good
         /\ link' \in [Client -> {"none", "requested", "accepted", "up", "down"}]
         /\ events' \in [Peer -> Seq([type : EventType, from : Peer])]
         /\ bad' \in [Peer -> Nat] /\ recv' \in [Peer -> BOOLEAN]
         /\ Queued("DISCONNECTED", Server)' => Queued("DISCONNECTED", Server) \/ link[c] = "up"
<1>1. c \in Peer /\ Server \in Peer /\ c # Server
  BY SessionAssumption DEF Peer
<1>2. PICK type \in {"DISCONNECTED", "CONNECT_ERROR"} :
        /\ type = IF link[c] = "up" THEN "DISCONNECTED" ELSE "CONNECT_ERROR"
        /\ events' = [events EXCEPT ![c] = Append(@, Event(type, c)),
                                    ![Server] = Append(@, Event(type, c))]
  BY DEF Break
<1>3. type \in EventType /\ "DISCONNECTED" \in EventType
  BY DEF EventType
<1>4. /\ events'[c] = Append(events[c], Event(type, c))
      /\ events'[Server] = Append(events[Server], Event(type, c))
      /\ DOMAIN events' = Peer /\ events' = [q \in Peer |-> events'[q]]
      /\ \A q \in Peer : q \notin {c, Server} => events'[q] = events[q]
  BY <1>1, <1>2 DEF OsTypeOK
<1>5. /\ events'[c] \in Seq([type : EventType, from : Peer])
      /\ events'[Server] \in Seq([type : EventType, from : Peer])
      /\ Queued("DISCONNECTED", Server)' => Queued("DISCONNECTED", Server) \/ type = "DISCONNECTED"
  BY <1>1, <1>3, <1>4, QueuedAppend
<1>6. events' \in [Peer -> Seq([type : EventType, from : Peer])]
  <2>1. \A q \in Peer : events'[q] \in Seq([type : EventType, from : Peer])
    BY <1>4, <1>5 DEF OsTypeOK
  <2>. QED  BY <1>4, <2>1
<1>7. /\ link' = [link EXCEPT ![c] = "down"] /\ good' = good
      /\ link' \in [Client -> {"none", "requested", "accepted", "up", "down"}]
      /\ bad' \in [Peer -> Nat] /\ recv' \in [Peer -> BOOLEAN]
  <2>1. /\ link \in [Client -> {"none", "requested", "accepted", "up", "down"}]
        /\ bad \in [Peer -> Nat] /\ recv \in [Peer -> BOOLEAN]
    BY DEF OsTypeOK
  <2>2. link' = [link EXCEPT ![c] = "down"] /\ good' = good
    BY DEF Break
  <2>3. link' \in [Client -> {"none", "requested", "accepted", "up", "down"}]
    BY <2>1, <2>2
  <2>4. bad' \in [Peer -> Nat] /\ recv' \in [Peer -> BOOLEAN]
    BY <2>1 DEF Break
  <2>. QED  BY <2>2, <2>3, <2>4
<1>. QED  BY <1>2, <1>5, <1>6, <1>7

-----------------------------------------------------------------------------
(***************************************************************************)
(* A call that goes on or returns an error moves its own process only, and *)
(* one whose process is gone stays so.                                     *)
(***************************************************************************)
StatusType == {"ok", "failed", "gone"}

AtTypeOK ==
  /\ at \in [Peer -> Nat]
  /\ \A p \in Peer : at[p] \in 1 .. Len(Program(p)) + 1
  /\ status \in [Peer -> StatusType]

LEMMA Moves ==
  ASSUME OsTypeOK, NEW p \in Peer, NEW call, At(p, call), Continue(p) \/ Return(p)
  PROVE  /\ AtTypeOK'
         /\ \A q \in Peer : status[q] = "gone" => status'[q] = "gone"
         /\ \A q \in Peer : Before(q) \subseteq Before(q)' /\ Before(q)' \subseteq Before(q) \cup {call}
         /\ \A q \in Peer : q # p => Before(q)' = Before(q)
<1>1. status[p] = "ok" /\ status \in [Peer -> StatusType] /\ at \in [Peer -> Nat]
      /\ \A q \in Peer : at[q] \in 1 .. Len(Program(q)) + 1
  BY DEF OsTypeOK, At, StatusType
<1>2. CASE Continue(p)
  <2>1. ASSUME NEW q \in Peer
        PROVE  /\ at' \in [Peer -> Nat] /\ at'[q] \in 1 .. Len(Program(q)) + 1
               /\ Before(q) \subseteq Before(q)' /\ Before(q)' \subseteq Before(q) \cup {call}
               /\ q # p => Before(q)' = Before(q)
               /\ status' = status
    BY <1>2, Advance
  <2>2. AtTypeOK'
    BY <1>1, <2>1 DEF AtTypeOK
  <2>. QED  BY <2>1, <2>2
<1>3. CASE Return(p)
  <2>1. UNCHANGED at /\ status' = [status EXCEPT ![p] = "failed"]
    BY <1>3 DEF Return
  <2>2. \A q \in Peer : Before(q)' = Before(q)
    BY <2>1, Remain
  <2>. QED  BY <1>1, <2>1, <2>2 DEF AtTypeOK, StatusType
<1>. QED  BY <1>2, <1>3

(***************************************************************************)
(* The end of a process ends its connection and changes nothing else.      *)
(***************************************************************************)
LEMMA EndEffect ==
  ASSUME OsTypeOK, NEW p \in Peer, End(p)
  PROVE  /\ OsTypeOK'
         /\ UNCHANGED <<at, held, serving, good>>
         /\ status' = [status EXCEPT ![p] = "gone"]
         /\ \A c \in Client : link'[c] = link[c] \/ (link'[c] = "down" /\ (c = p \/ link[c] = "up" \/ link[c] = "accepted"))
         /\ Queued("DISCONNECTED", Server)' =>
              Queued("DISCONNECTED", Server)
                \/ \E c \in Client : link[c] = "up" /\ link'[c] = "down"
<1>1. UNCHANGED <<at, held, serving, posted>> /\ status' = [status EXCEPT ![p] = "gone"]
  BY DEF End
<1>2. PICK c \in Peer : c = IF p = Server THEN serving ELSE p
  BY DEF OsTypeOK
<1>3. CASE c \in Client /\ link[c] \in {"accepted", "up"}
  <2>1. Break(c)
    BY <1>2, <1>3 DEF End
  <2>2. /\ link' = [link EXCEPT ![c] = "down"] /\ good' = good
        /\ link' \in [Client -> {"none", "requested", "accepted", "up", "down"}]
        /\ events' \in [Peer -> Seq([type : EventType, from : Peer])]
        /\ bad' \in [Peer -> Nat] /\ recv' \in [Peer -> BOOLEAN]
        /\ Queued("DISCONNECTED", Server)' => Queued("DISCONNECTED", Server) \/ link[c] = "up"
    BY <1>3, <2>1, BreakEffect
  <2>3. OsTypeOK'
    BY <1>1, <2>2 DEF OsTypeOK
  <2>4. \A l \in Client : link'[l] = link[l] \/ (link'[l] = "down" /\ (link[l] = "up" \/ link[l] = "accepted"))
    BY <1>3, <2>2 DEF OsTypeOK
  <2>. QED  BY <1>1, <1>3, <2>2, <2>3, <2>4 DEF OsTypeOK
<1>4. CASE ~(c \in Client /\ link[c] \in {"accepted", "up"})
  <2>1. /\ link' = [l \in Client |-> IF l = p THEN "down" ELSE link[l]]
        /\ UNCHANGED <<events, good, bad, recv>>
    BY <1>2, <1>4 DEF End, cqVars
  <2>2. OsTypeOK'
    BY <1>1, <2>1 DEF OsTypeOK
  <2>3. Queued("DISCONNECTED", Server)' = Queued("DISCONNECTED", Server)
    BY <2>1, QueuedSame
  <2>. QED  BY <1>1, <2>1, <2>2, <2>3
<1>. QED  BY <1>3, <1>4

LEMMA TypeStep == OsTypeOK /\ [Next]_vars => OsTypeOK'
<1>. SUFFICES ASSUME OsTypeOK, [Next]_vars PROVE OsTypeOK'
  OBVIOUS
<1>. USE DEF cqVars
<1>1. AtTypeOK' /\ UNCHANGED <<held, events, good, bad, recv, link, serving, posted>> => OsTypeOK'
  BY DEF AtTypeOK, StatusType, OsTypeOK
<1>2. ASSUME NEW p \in Peer, NEW obj \in Object,
             held' = [held EXCEPT ![p] = @ \cup {obj}] \/ held' = held
      PROVE  held' \in [Peer -> SUBSET Object]
  <2>1. held \in [Peer -> SUBSET Object] /\ held[p] \cup {obj} \in SUBSET Object
    BY DEF OsTypeOK
  <2>. QED  BY <1>2, <2>1
<1>3. ASSUME NEW p \in Peer, Step(p) PROVE OsTypeOK'
  <2>1. CASE CreateObject(p)
    <3>1. PICK obj \in Object : At(p, Create(obj)) /\ (Continue(p) \/ Return(p))
                                /\ (held' = [held EXCEPT ![p] = @ \cup {obj}] \/ UNCHANGED held)
      BY <2>1 DEF CreateObject
    <3>2. AtTypeOK'
      BY <3>1, Moves
    <3>3. held' \in [Peer -> SUBSET Object]
      BY <1>2, <3>1
    <3>4. UNCHANGED <<events, good, bad, recv, link, serving, posted>>
      BY <2>1 DEF CreateObject
    <3>. QED  BY <3>2, <3>3, <3>4 DEF OsTypeOK, AtTypeOK, StatusType
  <2>2. CASE DestroyObject(p)
    <3>1. PICK obj \in Object : At(p, Destroy(obj)) /\ Continue(p)
                                /\ (held' = [held EXCEPT ![p] = @ \ {obj}] \/ UNCHANGED held)
      BY <2>2 DEF DestroyObject
    <3>2. AtTypeOK'
      BY <3>1, Moves
    <3>3. held' \in [Peer -> SUBSET Object]
      BY <3>1 DEF OsTypeOK
    <3>4. UNCHANGED <<events, good, bad, recv, link, serving, posted>>
      BY <2>2 DEF DestroyObject
    <3>. QED  BY <3>2, <3>3, <3>4 DEF OsTypeOK, AtTypeOK, StatusType
  <2>3. CASE CallFails(p)
    <3>1. PICK name : At(p, Call(name)) /\ Return(p)
      BY <2>3 DEF CallFails
    <3>. QED  BY <1>1, <2>3, <3>1, Moves DEF CallFails
  <2>4. CASE Prepare(p)
    <3>1. PICK name : At(p, Call(name)) /\ Continue(p)
      BY <2>4 DEF Prepare
    <3>. QED  BY <1>1, <2>4, <3>1, Moves DEF Prepare
  <2>5. CASE PostRecv(p)
    <3>1. AtTypeOK'
      BY <2>5, Moves DEF PostRecv
    <3>. QED  BY <2>5, <3>1 DEF PostRecv, OsTypeOK, AtTypeOK, StatusType
  <2>6. CASE PostSend(p)
    <3>1. AtTypeOK'
      BY <2>6, Moves DEF PostSend
    <3>2. good' \in [Peer -> Nat] /\ bad' \in [Peer -> Nat] /\ recv' \in [Peer -> BOOLEAN]
      <4>1. PICK to : recv' = [recv EXCEPT ![to] = FALSE] \/ recv' = recv
        BY <2>6 DEF PostSend
      <4>2. PICK S : good' = [q \in Peer |-> IF q \in S THEN good[q] + 1 ELSE good[q]] \/ good' = good
        BY <2>6 DEF PostSend
      <4>3. bad' = [bad EXCEPT ![p] = @ + 1] \/ bad' = bad
        BY <2>6 DEF PostSend
      <4>4. recv' \in [Peer -> BOOLEAN]
        BY <4>1 DEF OsTypeOK
      <4>5. good \in [Peer -> Nat] /\ bad \in [Peer -> Nat]
        BY DEF OsTypeOK
      <4>6. good' \in [Peer -> Nat]
        <5>1. \A q \in Peer : good[q] \in Nat /\ good[q] + 1 \in Nat
          BY <4>5
        <5>2. CASE good' = [q \in Peer |-> IF q \in S THEN good[q] + 1 ELSE good[q]]
          BY <5>1, <5>2
        <5>. QED  BY <4>2, <4>5, <5>2
      <4>7. bad' \in [Peer -> Nat]
        <5>1. CASE bad' = [bad EXCEPT ![p] = @ + 1]
          BY <4>5, <5>1
        <5>. QED  BY <4>3, <4>5, <5>1
      <4>. QED  BY <4>4, <4>6, <4>7
    <3>. QED  BY <2>6, <3>1, <3>2 DEF PostSend, OsTypeOK, AtTypeOK, StatusType
  <2>7. CASE ReapCompletions(p)
    <3>1. PICK n \in {1, 2} : /\ At(p, Reap(n)) /\ (Continue(p) \/ Return(p))
                              /\ good' = good \/ (good[p] >= n /\ good' = [good EXCEPT ![p] = @ - n])
      BY <2>7 DEF ReapCompletions
    <3>2. AtTypeOK'
      BY <3>1, Moves
    <3>3. good' \in [Peer -> Nat]
      <4>1. CASE good' = good
        BY <4>1 DEF OsTypeOK
      <4>2. CASE good[p] >= n /\ good' = [good EXCEPT ![p] = @ - n]
        <5>1. good[p] \in Nat /\ good[p] - n \in Nat
          BY <4>2 DEF OsTypeOK
        <5>. QED  BY <4>2, <5>1 DEF OsTypeOK
      <4>. QED  BY <3>1, <4>1, <4>2
    <3>. QED  BY <2>7, <3>2, <3>3 DEF ReapCompletions, OsTypeOK, AtTypeOK, StatusType
  <2>8. CASE ExpectedEvent(p) \/ UnexpectedEvent(p)
    <3>1. PICK type : At(p, Await(type)) /\ (Continue(p) \/ Return(p))
      BY <2>8 DEF ExpectedEvent, UnexpectedEvent
    <3>2. AtTypeOK'
      BY <3>1, Moves
    <3>3. events[p] # << >> /\ events' = [events EXCEPT ![p] = Tail(@)]
      BY <2>8 DEF ExpectedEvent, UnexpectedEvent
    <3>4. events'[p] = Tail(events[p])
      BY <3>3 DEF OsTypeOK
    <3>5. Head(events[p]) \in [type : EventType, from : Peer]
          /\ events'[p] \in Seq([type : EventType, from : Peer])
      BY <3>3, <3>4, QueuedTail
    <3>6. events' \in [Peer -> Seq([type : EventType, from : Peer])]
      BY <3>3, <3>4, <3>5 DEF OsTypeOK
    <3>7. serving' \in Peer /\ held' \in [Peer -> SUBSET Object]
      <4>1. serving' \in {serving, Head(events[p]).from}
            /\ (held' = [held EXCEPT ![p] = @ \cup {"id"}] \/ held' = held)
        BY <2>8 DEF ExpectedEvent, UnexpectedEvent
      <4>2. "id" \in Object
        BY DEF Object
      <4>3. held' \in [Peer -> SUBSET Object]
        BY <1>2, <4>1, <4>2
      <4>. QED  BY <3>5, <4>1, <4>3 DEF OsTypeOK
    <3>. QED  BY <2>8, <3>2, <3>6, <3>7 DEF ExpectedEvent, UnexpectedEvent, OsTypeOK, AtTypeOK, StatusType
  <2>9. CASE NoEvent(p)
    <3>1. PICK type : At(p, Await(type)) /\ (Continue(p) \/ Return(p))
      BY <2>9 DEF NoEvent
    <3>. QED  BY <1>1, <2>9, <3>1, Moves DEF NoEvent
  <2>. QED  BY <1>3, <2>1, <2>2, <2>3, <2>4, <2>5, <2>6, <2>7, <2>8, <2>9 DEF Step
<1>4. ASSUME NEW p \in Peer, NEW type \in EventType, NEW from \in Peer,
             events' = [events EXCEPT ![p] = Append(@, Event(type, from))]
      PROVE  events' \in [Peer -> Seq([type : EventType, from : Peer])]
  <2>1. events'[p] = Append(events[p], Event(type, from))
    BY <1>4 DEF OsTypeOK
  <2>2. events'[p] \in Seq([type : EventType, from : Peer])
    BY <2>1, QueuedAppend
  <2>. QED  BY <1>4, <2>1, <2>2 DEF OsTypeOK
<1>5. Server \in Peer /\ \A c \in Client : c \in Peer /\ c # Server
  BY SessionAssumption DEF Peer
<1>6. ASSUME NEW c \in Client, ClientCall(c) PROVE OsTypeOK'
  <2>1. CASE Resolve(c)
    <3>1. PICK type \in EventType : events' = [events EXCEPT ![c] = Append(@, Event(type, c))]
      BY <2>1 DEF Resolve, EventType
    <3>2. PICK name : At(c, Call(name)) /\ Continue(c)
      BY <2>1 DEF Resolve
    <3>3. AtTypeOK'
      BY <1>5, <3>2, Moves
    <3>4. events' \in [Peer -> Seq([type : EventType, from : Peer])]
      BY <1>4, <1>5, <3>1
    <3>. QED  BY <2>1, <3>3, <3>4 DEF Resolve, OsTypeOK, AtTypeOK, StatusType
  <2>2. CASE Connect(c)
    <3>1. AtTypeOK'
      BY <1>5, <2>2, Moves DEF Connect
    <3>2. events' = [events EXCEPT ![Server] = Append(@, Event("CONNECT_REQUEST", c))]
          \/ events' = [events EXCEPT ![c] = Append(@, Event("REJECTED", c))]
      BY <2>2 DEF Connect
    <3>3. events' \in [Peer -> Seq([type : EventType, from : Peer])]
      BY <1>4, <1>5, <3>2 DEF EventType
    <3>. QED  BY <2>2, <3>1, <3>3 DEF Connect, OsTypeOK, AtTypeOK, StatusType
  <2>3. CASE Disconnect(c)
    <3>1. AtTypeOK'
      BY <1>5, <2>3, Moves DEF Disconnect
    <3>2. Break(c) \/ NoBreak
      BY <2>3 DEF Disconnect
    <3>. QED  BY <2>3, <3>1, <3>2, BreakEffect DEF Disconnect, NoBreak, OsTypeOK, AtTypeOK, StatusType
  <2>. QED  BY <1>3, <1>5, <1>6, <2>1, <2>2, <2>3 DEF ClientCall
<1>7. CASE Accept
  <2>1. AtTypeOK'
    BY <1>5, <1>7, Moves DEF Accept
  <2>. QED  BY <1>7, <2>1 DEF Accept, OsTypeOK, AtTypeOK, StatusType
<1>8. CASE RegisterCrash \/ \E p \in Peer : Exit(p)
  BY <1>5, <1>8, EndEffect DEF RegisterCrash, Exit
<1>9. ASSUME NEW c \in Client, StartRemoteWrite(c) \/ Handshake(c) \/ Timeout(c) \/ RemoveAdapter(c)
      PROVE  OsTypeOK'
  <2>1. CASE StartRemoteWrite(c)
    <3>1. posted[c] \in 0 .. SendQueue /\ posted[c] < SendQueue /\ SendQueue \in Nat
      BY <2>1, SessionAssumption DEF StartRemoteWrite, OsTypeOK
    <3>2. posted[c] + 1 \in 0 .. SendQueue
      BY <3>1
    <3>3. posted' \in [Client -> 0 .. SendQueue]
      BY <2>1, <3>2 DEF StartRemoteWrite, OsTypeOK
    <3>. QED  BY <2>1, <3>3 DEF StartRemoteWrite, OsTypeOK
  <2>2. CASE Handshake(c)
    <3>1. "ESTABLISHED" \in EventType
      BY DEF EventType
    <3>2. events'[c] = Append(events[c], Event("ESTABLISHED", c))
          /\ events'[Server] = Append(events[Server], Event("ESTABLISHED", c))
          /\ events' = [q \in Peer |-> events'[q]]
          /\ \A q \in Peer \ {c, Server} : events'[q] = events[q]
      BY <1>5, <2>2 DEF Handshake, OsTypeOK
    <3>3. \A q \in Peer : events'[q] \in Seq([type : EventType, from : Peer])
      BY <1>5, <3>1, <3>2, QueuedAppend DEF OsTypeOK
    <3>4. events' \in [Peer -> Seq([type : EventType, from : Peer])]
      BY <3>2, <3>3
    <3>. QED  BY <2>2, <3>4 DEF Handshake, OsTypeOK
  <2>3. CASE Timeout(c) \/ RemoveAdapter(c)
    <3>1. PICK type \in EventType : events' = [events EXCEPT ![c] = Append(@, Event(type, c))]
      BY <2>3 DEF Timeout, RemoveAdapter, EventType
    <3>2. events' \in [Peer -> Seq([type : EventType, from : Peer])]
      BY <1>4, <1>5, <3>1
    <3>. QED  BY <2>3, <3>2 DEF Timeout, RemoveAdapter, OsTypeOK
  <2>. QED  BY <1>9, <2>1, <2>2, <2>3
<1>10. CASE UNCHANGED vars
  BY <1>10 DEF vars, OsTypeOK
<1>. QED  BY <1>3, <1>5, <1>6, <1>7, <1>8, <1>9, <1>10 DEF Next, ServerCall

-----------------------------------------------------------------------------
(***************************************************************************)
(* What a process holds follows its calls: a create adds, a destroy takes  *)
(* away, no other call matters.                                            *)
(***************************************************************************)
LEMMA HoldingSame ==
  ASSUME NEW p, Before(p)' = Before(p)
  PROVE  Holding(p)' = Holding(p)
<1>1. PICK B : B = Before(p) /\ B = Before(p)'
  OBVIOUS
<1>. QED  BY <1>1 DEF Holding, Done

LEMMA HoldingGrows ==
  ASSUME NEW p, NEW call, Before(p)' = Before(p) \cup {call}, NEW obj \in Object
  PROVE  obj \in Holding(p)' <=>
           /\ Makes(call, obj) \/ \E b \in Before(p) : Makes(b, obj)
           /\ call # Destroy(obj) /\ ~Done(p, Destroy(obj))
<1>1. PICK B : B = Before(p) /\ Before(p)' = B \cup {call}
  OBVIOUS
<1>. QED  BY <1>1 DEF Holding, Done

LEMMA HeldStay ==
  ASSUME HeldInv, UNCHANGED <<at, held>>
  PROVE  HeldInv'
<1>. SUFFICES ASSUME NEW q \in Peer PROVE held'[q] = Holding(q)'
  BY DEF HeldInv
<1>1. Holding(q)' = Holding(q)
  BY Remain, HoldingSame
<1>. QED  BY <1>1 DEF HeldInv

LEMMA HeldOthers ==
  ASSUME OsTypeOK, HeldInv, NEW p \in Peer, NEW call, At(p, call), Continue(p),
         NEW q \in Peer, q # p, held'[q] = held[q]
  PROVE  held'[q] = Holding(q)'
<1>1. Before(q)' = Before(q)
  BY Advance
<1>. QED  BY <1>1, HoldingSame DEF HeldInv

(***************************************************************************)
(* Creating: the call that destroys the object comes later.                *)
(***************************************************************************)
LEMMA HeldMake ==
  ASSUME OsTypeOK, HeldInv, NEW p \in Peer, NEW call, At(p, call), Continue(p),
         NEW made \in Object, held' = [held EXCEPT ![p] = @ \cup {made}],
         \A obj \in Object : (Makes(call, obj) <=> obj = made) /\ call # Destroy(obj)
  PROVE  HeldInv'
<1>. SUFFICES ASSUME NEW q \in Peer PROVE held'[q] = Holding(q)'
  BY DEF HeldInv
<1>0. held \in [Peer -> SUBSET Object]
  BY DEF OsTypeOK
<1>1. CASE q # p
  BY <1>0, <1>1, HeldOthers
<1>2. CASE q = p
  <2>1. Before(p)' = Before(p) \cup {call}
    BY Advance
  <2>2. ~Done(p, Destroy(made))
    <3>. SUFFICES ASSUME Done(p, Destroy(made)) PROVE FALSE
      OBVIOUS
    <3>1. at[p] \in 1 .. Len(Program(p)) /\ Program(p)[at[p]] = call /\ Len(Program(p)) \in Nat
      BY NextCall
    <3>2. PICK j \in 1 .. at[p] - 1 : Program(p)[j] = Destroy(made)
      BY DEF Done, Before
    <3>3. j \in 1 .. Len(Program(p)) /\ j < at[p]
      BY <3>1, <3>2
    <3>4. Makes(Program(p)[at[p]], made)
      BY <3>1
    <3>5. at[p] < j
      BY <3>1, <3>2, <3>3, <3>4, Balanced
    <3>. QED  BY <3>1, <3>3, <3>5
  <2>3. held'[p] = Holding(p) \cup {made}
    BY <1>0 DEF HeldInv
  <2>4. \A obj \in Object : obj \in Holding(p)' <=> obj \in Holding(p) \/ obj = made
    BY <2>1, <2>2, HoldingGrows DEF Holding
  <2>5. Holding(p)' \subseteq Object /\ Holding(p) \subseteq Object
    BY DEF Holding
  <2>. QED  BY <1>2, <2>3, <2>4, <2>5
<1>. QED  BY <1>1, <1>2

(***************************************************************************)
(* Destroying: what uses the object was destroyed before, so the library   *)
(* does not refuse.                                                        *)
(***************************************************************************)
LEMMA HeldDestroy ==
  ASSUME OsTypeOK, HeldInv, NEW p \in Peer, NEW gone \in Object, At(p, Destroy(gone)), Continue(p),
         held' = IF Users(gone) \cap held[p] = {} THEN [held EXCEPT ![p] = @ \ {gone}] ELSE held
  PROVE  HeldInv'
<1>. SUFFICES ASSUME NEW q \in Peer PROVE held'[q] = Holding(q)'
  BY DEF HeldInv
<1>0. held \in [Peer -> SUBSET Object]
  BY DEF OsTypeOK
<1>1. at[p] \in 1 .. Len(Program(p)) /\ Program(p)[at[p]] = Destroy(gone) /\ Len(Program(p)) \in Nat
  BY NextCall
<1>2. Users(gone) \cap held[p] = {}
  <2>. SUFFICES ASSUME NEW user \in Users(gone), user \in Holding(p) PROVE FALSE
    BY DEF HeldInv
  <2>1. PICK i \in 1 .. at[p] - 1 : Makes(Program(p)[i], user)
    BY DEF Holding, Before
  <2>2. i \in 1 .. Len(Program(p))
    BY <1>1, <2>1
  <2>3. PICK k \in 1 .. at[p] - 1 : Program(p)[k] = Destroy(user)
    BY <1>1, <2>1, <2>2, Balanced
  <2>. QED  BY <2>3 DEF Holding, Done, Before
<1>3. held' = [held EXCEPT ![p] = @ \ {gone}]
  BY <1>2
<1>4. CASE q # p
  BY <1>0, <1>3, <1>4, HeldOthers
<1>5. CASE q = p
  <2>1. Before(p)' = Before(p) \cup {Destroy(gone)}
    BY Advance
  <2>2. held'[p] = Holding(p) \ {gone}
    BY <1>0, <1>3 DEF HeldInv
  <2>3. \A obj \in Object : ~Makes(Destroy(gone), obj) /\ (Destroy(gone) = Destroy(obj) <=> obj = gone)
    BY DEF Makes, Create, Await, Destroy
  <2>4. \A obj \in Object : obj \in Holding(p)' <=> obj \in Holding(p) /\ obj # gone
    BY <2>1, <2>3, HoldingGrows DEF Holding
  <2>5. Holding(p)' \subseteq Object /\ Holding(p) \subseteq Object
    BY DEF Holding
  <2>. QED  BY <1>5, <2>2, <2>4, <2>5
<1>. QED  BY <1>4, <1>5

LEMMA HeldOther ==
  ASSUME OsTypeOK, HeldInv, NEW p \in Peer, NEW call, At(p, call), Continue(p) \/ Return(p),
         UNCHANGED held,
         \A obj \in Object : ~Makes(call, obj) /\ call # Destroy(obj)
  PROVE  HeldInv'
<1>1. CASE Return(p)
  BY <1>1, HeldStay DEF Return
<1>2. CASE Continue(p)
  <2>. SUFFICES ASSUME NEW q \in Peer PROVE held'[q] = Holding(q)'
    BY DEF HeldInv
  <2>1. CASE q # p
    BY <1>2, <2>1, HeldOthers
  <2>2. CASE q = p
    <3>1. Before(p)' = Before(p) \cup {call}
      BY <1>2, Advance
    <3>2. \A obj \in Object : obj \in Holding(p)' <=> obj \in Holding(p)
      BY <3>1, HoldingGrows DEF Holding
    <3>3. Holding(p)' \subseteq Object /\ Holding(p) \subseteq Object
      BY DEF Holding
    <3>. QED  BY <2>2, <3>2, <3>3 DEF HeldInv
  <2>. QED  BY <2>1, <2>2
<1>. QED  BY <1>1, <1>2

LEMMA HeldStep == OsTypeOK /\ HeldInv /\ [Next]_vars => HeldInv'
<1>. SUFFICES ASSUME OsTypeOK, HeldInv, [Next]_vars PROVE HeldInv'
  OBVIOUS
<1>0. \A obj \in Object :
        /\ \A name : ~Makes(Call(name), obj) /\ Call(name) # Destroy(obj)
        /\ \A n : ~Makes(Reap(n), obj) /\ Reap(n) # Destroy(obj)
        /\ \A type : (Makes(Await(type), obj) <=> type = "CONNECT_REQUEST" /\ obj = "id")
                     /\ Await(type) # Destroy(obj)
        /\ \A o \in Object : (Makes(Create(o), obj) <=> obj = o) /\ Create(o) # Destroy(obj)
  BY DEF Makes, Call, Reap, Await, Create, Destroy
<1>1. Server \in Peer /\ \A c \in Client : c \in Peer
  BY DEF Peer
<1>2. ASSUME NEW p \in Peer, NEW name, At(p, Call(name)), Continue(p) \/ Return(p), UNCHANGED held
      PROVE  HeldInv'
  BY <1>0, <1>2, HeldOther
<1>3. ASSUME NEW p \in Peer, Step(p) PROVE HeldInv'
  <2>1. CASE CreateObject(p)
    <3>1. PICK obj \in Object :
            /\ At(p, Create(obj))
            /\ \/ held' = [held EXCEPT ![p] = @ \cup {obj}] /\ Continue(p)
               \/ Return(p) /\ UNCHANGED held
      BY <2>1 DEF CreateObject
    <3>2. CASE held' = [held EXCEPT ![p] = @ \cup {obj}] /\ Continue(p)
      <4>1. \A o \in Object : (Makes(Create(obj), o) <=> o = obj) /\ Create(obj) # Destroy(o)
        BY <1>0
      <4>2. PICK call : call = Create(obj)
        OBVIOUS
      <4>. QED  BY <3>1, <3>2, <4>1, <4>2, HeldMake
    <3>3. CASE Return(p) /\ UNCHANGED held
      BY <3>3, HeldStay DEF Return
    <3>. QED  BY <3>1, <3>2, <3>3
  <2>2. CASE DestroyObject(p)
    BY <2>2, HeldDestroy DEF DestroyObject
  <2>3. CASE CallFails(p) \/ Prepare(p) \/ PostRecv(p) \/ PostSend(p)
    <3>1. PICK name : At(p, Call(name)) /\ (Continue(p) \/ Return(p)) /\ UNCHANGED held
      BY <2>3 DEF CallFails, Prepare, PostRecv, PostSend
    <3>. QED  BY <1>2, <3>1
  <2>4. CASE ReapCompletions(p)
    <3>1. PICK n : At(p, Reap(n)) /\ (Continue(p) \/ Return(p)) /\ UNCHANGED held
      BY <2>4 DEF ReapCompletions
    <3>. QED  BY <1>0, <3>1, HeldOther
  <2>5. CASE ExpectedEvent(p)
    <3>1. PICK type : /\ At(p, Await(type)) /\ Continue(p)
                      /\ held' = IF type = "CONNECT_REQUEST"
                                 THEN [held EXCEPT ![p] = @ \cup {"id"}] ELSE held
      BY <2>5 DEF ExpectedEvent
    <3>2. CASE type = "CONNECT_REQUEST"
      <4>1. PICK made : made = "id" /\ made \in Object
        BY DEF Object
      <4>2. PICK call : call = Await(type)
        OBVIOUS
      <4>3. \A o \in Object : (Makes(call, o) <=> o = made) /\ call # Destroy(o)
        BY <1>0, <3>2, <4>1, <4>2
      <4>4. At(p, call) /\ Continue(p) /\ held' = [held EXCEPT ![p] = @ \cup {made}]
        BY <3>1, <3>2, <4>1, <4>2
      <4>. QED  BY <4>1, <4>3, <4>4, HeldMake
    <3>3. CASE type # "CONNECT_REQUEST"
      BY <1>0, <3>1, <3>3, HeldOther
    <3>. QED  BY <3>2, <3>3
  <2>6. CASE UnexpectedEvent(p) \/ NoEvent(p)
    <3>1. PICK type : /\ At(p, Await(type)) /\ UNCHANGED held
                      /\ Return(p) \/ (Continue(p) /\ type # "CONNECT_REQUEST")
      BY <2>6 DEF UnexpectedEvent, NoEvent
    <3>2. CASE Return(p)
      BY <3>1, <3>2, HeldStay DEF Return
    <3>3. CASE Continue(p) /\ type # "CONNECT_REQUEST"
      BY <1>0, <3>1, <3>3, HeldOther
    <3>. QED  BY <3>1, <3>2, <3>3
  <2>. QED  BY <1>3, <2>1, <2>2, <2>3, <2>4, <2>5, <2>6 DEF Step
<1>4. ASSUME NEW c \in Client, Resolve(c) \/ Connect(c) \/ Disconnect(c)
      PROVE  HeldInv'
  <2>1. PICK name : At(c, Call(name)) /\ Continue(c) /\ UNCHANGED held
    BY <1>4 DEF Resolve, Connect, Disconnect
  <2>. QED  BY <1>1, <1>2, <2>1
<1>5. CASE Accept
  <2>1. At(Server, Call("accept")) /\ (Continue(Server) \/ Return(Server)) /\ UNCHANGED held
    BY <1>5 DEF Accept
  <2>. QED  BY <1>1, <1>2, <2>1
<1>6. CASE RegisterCrash \/ \E p \in Peer : Exit(p)
  BY <1>6, HeldStay DEF RegisterCrash, Exit, End
<1>7. CASE \E c \in Client : StartRemoteWrite(c) \/ Handshake(c) \/ Timeout(c) \/ RemoveAdapter(c)
  BY <1>7, HeldStay DEF StartRemoteWrite, Handshake, Timeout, RemoveAdapter
<1>8. CASE UNCHANGED vars
  BY <1>8, HeldStay DEF vars
<1>. QED  BY <1>1, <1>3, <1>4, <1>5, <1>6, <1>7, <1>8 DEF Next, ServerCall, ClientCall

-----------------------------------------------------------------------------
(***************************************************************************)
(* What has been done stays done, and what is new is the call itself.      *)
(***************************************************************************)
LEMMA Progress ==
  ASSUME OsTypeOK, NEW p \in Peer, NEW call, At(p, call), Continue(p) \/ Return(p)
  PROVE  /\ \A q \in Peer : Before(q) \subseteq Before(q)'
         /\ \A q \in Peer : status[q] = "gone" => status'[q] = "gone"
         /\ \A q \in Peer : \A other : Done(q, other)' => Done(q, other) \/ (q = p /\ other = call)
         /\ Continue(p) => Done(p, call)'
<1>1. /\ \A q \in Peer : status[q] = "gone" => status'[q] = "gone"
      /\ \A q \in Peer : Before(q) \subseteq Before(q)' /\ Before(q)' \subseteq Before(q) \cup {call}
      /\ \A q \in Peer : q # p => Before(q)' = Before(q)
  BY Moves
<1>2. Continue(p) => Before(p)' = Before(p) \cup {call}
  BY Advance
<1>. QED  BY <1>1, <1>2 DEF Done

(***************************************************************************)
(* The ways in which a connection may change without the server turning to *)
(* another client.                                                         *)
(***************************************************************************)
LinkMoves(c) ==
  \/ link'[c] = link[c]
  \/ link'[c] = "down" /\ (link[c] # "none" \/ status'[c] = "gone")
  \/ link[c] = "accepted" /\ link'[c] = "up"
  \/ link[c] = "none" /\ link'[c] = "requested" /\ Done(c, Call("connect"))'
  \/ link[c] = "requested" /\ link'[c] = "accepted" /\ c = serving /\ Done(Server, Call("accept"))'

\* What is done stays done; the server keeps the client it has accepted.
Orderly ==
  /\ \A q \in Peer : Before(q) \subseteq Before(q)'
  /\ \A c \in Client : LinkMoves(c)
  /\ Done(Server, Call("accept")) => serving' = serving

LEMMA ConnectionFrame ==
  ASSUME OsTypeOK, ConnectionInv,
         \A q \in Peer : Before(q) \subseteq Before(q)',
         \A q \in Peer : status[q] = "gone" => status'[q] = "gone",
         serving' = serving,
         \A c \in Client : LinkMoves(c),
         Done(Server, Await("DISCONNECTED"))' \/ Queued("DISCONNECTED", Server)' =>
           \/ Done(Server, Await("DISCONNECTED")) \/ Queued("DISCONNECTED", Server)
           \/ \E c \in Client : link[c] = "up" /\ link'[c] = "down"
  PROVE  ConnectionInv' /\ Orderly
<1>1. \A q \in Peer : \A call : Done(q, call) => Done(q, call)'
  BY DEF Done
<1>2. Server \in Peer /\ \A c \in Client : c \in Peer
  BY DEF Peer
<1>3. ASSUME NEW c \in Client, link'[c] \in {"accepted", "up"}
      PROVE  serving' = c /\ Done(Server, Call("accept"))'
  BY <1>1, <1>2, <1>3 DEF LinkMoves, ConnectionInv
<1>4. ASSUME NEW c \in Client, link'[c] # "none"
      PROVE  Done(c, Call("connect"))' \/ status'[c] = "gone"
  <2>1. link[c] # "none" => Done(c, Call("connect"))' \/ status'[c] = "gone"
    BY <1>1, <1>2 DEF ConnectionInv
  <2>. QED  BY <1>4, <2>1 DEF LinkMoves
<1>5. ASSUME Done(Server, Await("DISCONNECTED"))' \/ Queued("DISCONNECTED", Server)'
      PROVE  Done(Server, Call("accept"))' /\ serving' \in Client /\ link'[serving'] = "down"
  <2>1. CASE Done(Server, Await("DISCONNECTED")) \/ Queued("DISCONNECTED", Server)
    <3>1. Done(Server, Call("accept")) /\ serving \in Client /\ link[serving] = "down"
      BY <2>1 DEF ConnectionInv
    <3>2. LinkMoves(serving)
      BY <3>1
    <3>. QED  BY <1>1, <1>2, <3>1, <3>2 DEF LinkMoves
  <2>2. CASE \E c \in Client : link[c] = "up" /\ link'[c] = "down"
    <3>1. PICK c \in Client : link[c] = "up" /\ link'[c] = "down"
      BY <2>2
    <3>2. serving = c /\ Done(Server, Call("accept"))
      BY <3>1 DEF ConnectionInv
    <3>. QED  BY <1>1, <1>2, <3>1, <3>2
  <2>. QED  BY <1>5, <2>1, <2>2
<1>6. Orderly
  BY DEF Orderly
<1>. QED  BY <1>3, <1>4, <1>5, <1>6 DEF ConnectionInv

(***************************************************************************)
(* A call other than the server's wait for the end of its connection.      *)
(***************************************************************************)
LEMMA ConnectionCall ==
  ASSUME OsTypeOK, ConnectionInv, NEW p \in Peer, NEW call, At(p, call), Continue(p) \/ Return(p),
         ~(p = Server /\ call = Await("DISCONNECTED") /\ Continue(p)),
         serving' = serving,
         \A c \in Client : LinkMoves(c),
         Queued("DISCONNECTED", Server)' =>
           \/ Queued("DISCONNECTED", Server)
           \/ \E c \in Client : link[c] = "up" /\ link'[c] = "down"
  PROVE  ConnectionInv' /\ Orderly
<1>1. /\ \A q \in Peer : Before(q) \subseteq Before(q)'
      /\ \A q \in Peer : status[q] = "gone" => status'[q] = "gone"
  BY Progress
<1>2. Server \in Peer
  BY DEF Peer
<1>3. Done(Server, Await("DISCONNECTED"))' => Done(Server, Await("DISCONNECTED"))
  <2>1. CASE Continue(p)
    BY <1>2, <2>1, Progress
  <2>2. CASE Return(p)
    <3>1. Before(Server)' = Before(Server)
      BY <1>2, <2>2, Remain DEF Return
    <3>. QED  BY <3>1 DEF Done
  <2>. QED  BY <2>1, <2>2
<1>. QED  BY <1>1, <1>3, ConnectionFrame

LEMMA ConnectionStep == OsTypeOK /\ ConnectionInv /\ [Next]_vars => ConnectionInv' /\ Orderly
<1>. SUFFICES ASSUME OsTypeOK, ConnectionInv, [Next]_vars PROVE ConnectionInv' /\ Orderly
  OBVIOUS
<1>1. Server \in Peer /\ \A c \in Client : c \in Peer /\ c # Server
  BY SessionAssumption DEF Peer
<1>2. /\ \A name, type : Call(name) # Await(type)
      /\ \A n, type : Reap(n) # Await(type)
      /\ \A obj, type : Create(obj) # Await(type) /\ Destroy(obj) # Await(type)
      /\ \A t1, t2 : Await(t1) = Await(t2) <=> t1 = t2
  BY DEF Call, Await, Reap, Create, Destroy
<1>3. UNCHANGED link => \A c \in Client : LinkMoves(c)
  BY DEF LinkMoves
<1>4. UNCHANGED events => Queued("DISCONNECTED", Server)' = Queued("DISCONNECTED", Server)
  BY QueuedSame
<1>5. {"ADDR_RESOLVED", "ROUTE_RESOLVED", "CONNECT_REQUEST", "ESTABLISHED", "DISCONNECTED", "ADDR_ERROR",
       "ROUTE_ERROR", "REJECTED", "UNREACHABLE", "CONNECT_ERROR", "DEVICE_REMOVAL"} \subseteq EventType
  BY DEF EventType
<1>6. ASSUME NEW p \in Peer, Step(p) PROVE ConnectionInv' /\ Orderly
  <2>1. CASE \/ CreateObject(p) \/ DestroyObject(p) \/ CallFails(p) \/ Prepare(p) \/ PostRecv(p)
             \/ PostSend(p) \/ ReapCompletions(p)
    <3>1. PICK call : /\ At(p, call) /\ (Continue(p) \/ Return(p))
                      /\ call # Await("DISCONNECTED")
      BY <1>2, <2>1 DEF CreateObject, DestroyObject, CallFails, Prepare, PostRecv, PostSend, ReapCompletions
    <3>2. UNCHANGED <<events, link, serving>>
      BY <2>1 DEF CreateObject, DestroyObject, CallFails, Prepare, PostRecv, PostSend, ReapCompletions
    <3>. QED  BY <1>3, <1>4, <3>1, <3>2, ConnectionCall
  <2>2. CASE ExpectedEvent(p)
    <3>1. PICK type : type = Head(events[p]).type
      OBVIOUS
    <3>2. /\ events[p] # << >> /\ At(p, Await(type)) /\ Continue(p) /\ UNCHANGED link
          /\ type # "CONNECT_REQUEST" => serving' = serving
          /\ events' = [events EXCEPT ![p] = Tail(@)]
      BY <2>2, <3>1 DEF ExpectedEvent
    <3>3. events'[p] = Tail(events[p]) /\ \A q \in Peer : q # p => events'[q] = events[q]
      BY <3>2 DEF OsTypeOK
    <3>4. Queued(type, p) /\ \A t \in EventType : Queued(t, p)' => Queued(t, p)
      BY <3>1, <3>2, <3>3, QueuedTail
    <3>5. Queued("DISCONNECTED", Server)' => Queued("DISCONNECTED", Server)
      <4>1. CASE p = Server
        BY <1>5, <3>4, <4>1
      <4>2. CASE p # Server
        BY <1>1, <3>3, <4>2, QueuedSame
      <4>. QED  BY <4>1, <4>2
    <3>6. CASE type = "CONNECT_REQUEST"
      <4>1. p = Server /\ At(Server, Await("CONNECT_REQUEST"))
        BY <3>2, <3>6, ClientOrder DEF Peer
      <4>2. ~Done(Server, Call("accept"))
        BY <4>1, ServerOrder
      <4>3. /\ \A c \in Client : link[c] \notin {"accepted", "up"}
            /\ ~Done(Server, Await("DISCONNECTED")) /\ ~Queued("DISCONNECTED", Server)
        BY <4>2 DEF ConnectionInv
      <4>4. PICK call : call = Await(type) /\ call # Await("DISCONNECTED")
        BY <1>2, <3>6
      <4>5. /\ \A q \in Peer : Before(q) \subseteq Before(q)'
            /\ \A q \in Peer : status[q] = "gone" => status'[q] = "gone"
            /\ Done(Server, Await("DISCONNECTED"))' => Done(Server, Await("DISCONNECTED"))
        BY <1>1, <3>2, <4>4, Progress
      <4>6. ~Done(Server, Await("DISCONNECTED"))' /\ ~Queued("DISCONNECTED", Server)'
        BY <3>5, <4>3, <4>5
      <4>7. \A c \in Client : link'[c] # "none" => Done(c, Call("connect"))' \/ status'[c] = "gone"
        BY <1>1, <3>2, <4>5 DEF ConnectionInv, Done
      <4>8. Orderly
        BY <1>3, <3>2, <4>2, <4>5 DEF Orderly
      <4>. QED  BY <3>2, <4>3, <4>6, <4>7, <4>8 DEF ConnectionInv
    <3>7. CASE type # "CONNECT_REQUEST" /\ ~(p = Server /\ type = "DISCONNECTED")
      <4>1. PICK call : call = Await(type) /\ ~(p = Server /\ call = Await("DISCONNECTED"))
        BY <1>2, <3>7
      <4>2. serving' = serving /\ \A c \in Client : LinkMoves(c)
        BY <1>3, <3>2, <3>7
      <4>. QED  BY <3>2, <3>5, <4>1, <4>2, ConnectionCall
    <3>8. CASE p = Server /\ type = "DISCONNECTED"
      <4>1. Queued("DISCONNECTED", Server)
        BY <3>4, <3>8
      <4>2. serving' = serving /\ \A c \in Client : LinkMoves(c)
        BY <1>3, <3>2, <3>8
      <4>3. /\ \A q \in Peer : Before(q) \subseteq Before(q)'
            /\ \A q \in Peer : status[q] = "gone" => status'[q] = "gone"
        BY <3>2, Progress
      <4>. QED  BY <4>1, <4>2, <4>3, ConnectionFrame
    <3>. QED  BY <3>6, <3>7, <3>8
  <2>3. CASE UnexpectedEvent(p) \/ NoEvent(p)
    <3>1. PICK type : /\ At(p, Await(type))
                      /\ (Continue(p) /\ (p # Server \/ type = "ESTABLISHED")) \/ Return(p)
      BY <2>3 DEF UnexpectedEvent, NoEvent
    <3>2. UNCHANGED <<link, serving>>
      BY <2>3 DEF UnexpectedEvent, NoEvent
    <3>3. \/ UNCHANGED events
          \/ events[p] # << >> /\ events' = [events EXCEPT ![p] = Tail(@)]
      BY <2>3 DEF UnexpectedEvent, NoEvent
    <3>4. Queued("DISCONNECTED", Server)' => Queued("DISCONNECTED", Server)
      <4>1. CASE UNCHANGED events
        BY <1>4, <4>1
      <4>2. CASE events[p] # << >> /\ events' = [events EXCEPT ![p] = Tail(@)]
        <5>1. events'[p] = Tail(events[p]) /\ \A q \in Peer : q # p => events'[q] = events[q]
          BY <4>2 DEF OsTypeOK
        <5>2. CASE p = Server
          BY <1>5, <4>2, <5>1, <5>2, QueuedTail
        <5>3. CASE p # Server
          BY <1>1, <5>1, <5>3, QueuedSame
        <5>. QED  BY <5>2, <5>3
      <4>. QED  BY <3>3, <4>1, <4>2
    <3>5. PICK call : call = Await(type)
      OBVIOUS
    <3>6. CASE Return(p)
      <4>1. /\ \A q \in Peer : Before(q) \subseteq Before(q)'
            /\ \A q \in Peer : status[q] = "gone" => status'[q] = "gone"
        BY <3>1, <3>5, Progress
      <4>2. Before(Server)' = Before(Server)
        BY <1>1, <3>6, Remain DEF Return
      <4>3. Done(Server, Await("DISCONNECTED"))' => Done(Server, Await("DISCONNECTED"))
        BY <4>2 DEF Done
      <4>. QED  BY <1>3, <3>2, <3>4, <4>1, <4>3, ConnectionFrame
    <3>7. CASE Continue(p) /\ (p # Server \/ type = "ESTABLISHED")
      <4>1. ~(p = Server /\ call = Await("DISCONNECTED"))
        BY <1>2, <3>5, <3>7
      <4>2. serving' = serving /\ \A c \in Client : LinkMoves(c)
        BY <1>3, <3>2
      <4>. QED  BY <3>1, <3>4, <3>5, <3>7, <4>1, <4>2, ConnectionCall
    <3>. QED  BY <3>1, <3>6, <3>7
  <2>. QED  BY <1>6, <2>1, <2>2, <2>3 DEF Step
<1>7. ASSUME NEW c \in Client, Resolve(c) \/ Connect(c) \/ Disconnect(c) PROVE ConnectionInv' /\ Orderly
  <2>1. PICK name : At(c, Call(name)) /\ Continue(c) /\ serving' = serving
    BY <1>7 DEF Resolve, Connect, Disconnect
  <2>2. PICK call : call = Call(name) /\ call # Await("DISCONNECTED")
    BY <1>2
  <2>3. ASSUME \A l \in Client : LinkMoves(l),
               Queued("DISCONNECTED", Server)' =>
                 \/ Queued("DISCONNECTED", Server)
                 \/ \E l \in Client : link[l] = "up" /\ link'[l] = "down"
        PROVE  ConnectionInv' /\ Orderly
    BY <1>1, <2>1, <2>2, <2>3, ConnectionCall
  <2>4. ASSUME NEW type \in EventType, events' = [events EXCEPT ![c] = Append(@, Event(type, c))]
        PROVE  Queued("DISCONNECTED", Server)' = Queued("DISCONNECTED", Server)
    <3>1. events'[Server] = events[Server]
      BY <1>1, <2>4 DEF OsTypeOK
    <3>. QED  BY <3>1, QueuedSame
  <2>5. CASE Resolve(c)
    <3>1. PICK type \in EventType : events' = [events EXCEPT ![c] = Append(@, Event(type, c))]
      BY <1>5, <2>5 DEF Resolve
    <3>. QED  BY <1>3, <2>3, <2>4, <2>5, <3>1 DEF Resolve
  <2>6. CASE Connect(c)
    <3>1. CASE /\ link' = [link EXCEPT ![c] = "requested"]
               /\ events' = [events EXCEPT ![Server] = Append(@, Event("CONNECT_REQUEST", c))]
      <4>1. At(c, Call("connect")) /\ Continue(c)
        BY <2>6 DEF Connect
      <4>2. status[c] = "ok" /\ ~Done(c, Call("connect")) /\ Done(c, Call("connect"))'
        <5>1. ~Done(c, Call("connect"))
          BY <4>1, ClientOrder
        <5>2. status[c] = "ok"
          BY <4>1 DEF At
        <5>3. Done(c, Call("connect"))'
          BY <1>1, <4>1, Progress
        <5>. QED  BY <5>1, <5>2, <5>3
      <4>3. link[c] = "none"
        BY <4>2 DEF ConnectionInv
      <4>4. \A l \in Client : LinkMoves(l)
        BY <3>1, <4>2, <4>3 DEF LinkMoves, OsTypeOK
      <4>5. events'[Server] = Append(events[Server], Event("CONNECT_REQUEST", c))
        BY <1>1, <3>1 DEF OsTypeOK
      <4>6. Queued("DISCONNECTED", Server)' => Queued("DISCONNECTED", Server)
        BY <1>1, <1>5, <4>5, QueuedAppend
      <4>. QED  BY <2>3, <4>4, <4>6
    <3>2. CASE UNCHANGED link /\ events' = [events EXCEPT ![c] = Append(@, Event("REJECTED", c))]
      BY <1>3, <1>5, <2>3, <2>4, <3>2
    <3>. QED  BY <2>6, <3>1, <3>2 DEF Connect
  <2>7. CASE Disconnect(c)
    <3>1. CASE link[c] = "up" /\ Break(c)
      <4>1. /\ link' = [link EXCEPT ![c] = "down"]
            /\ Queued("DISCONNECTED", Server)' => Queued("DISCONNECTED", Server) \/ link[c] = "up"
        BY <3>1, BreakEffect
      <4>2. link'[c] = "down" /\ \A l \in Client : LinkMoves(l)
        BY <3>1, <4>1 DEF LinkMoves, OsTypeOK
      <4>. QED  BY <2>3, <3>1, <4>1, <4>2
    <3>2. CASE NoBreak
      BY <1>3, <1>4, <2>3, <3>2 DEF NoBreak
    <3>. QED  BY <2>7, <3>1, <3>2 DEF Disconnect
  <2>. QED  BY <1>7, <2>5, <2>6, <2>7
<1>8. CASE Accept
  <2>1. At(Server, Call("accept")) /\ (Continue(Server) \/ Return(Server)) /\ UNCHANGED <<events, serving>>
    BY <1>8 DEF Accept
  <2>2. \A l \in Client : LinkMoves(l)
    <3>1. CASE /\ link[serving] = "requested" /\ link' = [link EXCEPT ![serving] = "accepted"]
               /\ Continue(Server)
      <4>1. Done(Server, Call("accept"))'
        BY <1>1, <2>1, <3>1, Progress
      <4>. QED  BY <3>1, <4>1 DEF LinkMoves, OsTypeOK
    <3>2. CASE UNCHANGED link
      BY <1>3, <3>2
    <3>. QED  BY <1>8, <3>1, <3>2 DEF Accept
  <2>3. PICK call : call = Call("accept") /\ call # Await("DISCONNECTED")
    BY <1>2
  <2>. QED  BY <1>1, <1>4, <2>1, <2>2, <2>3, ConnectionCall
<1>9. ASSUME UNCHANGED <<at, serving>>,
             \A q \in Peer : status[q] = "gone" => status'[q] = "gone",
             \A c \in Client : LinkMoves(c),
             Queued("DISCONNECTED", Server)' =>
               \/ Queued("DISCONNECTED", Server)
               \/ \E c \in Client : link[c] = "up" /\ link'[c] = "down"
      PROVE  ConnectionInv' /\ Orderly
  <2>1. \A q \in Peer : Before(q)' = Before(q)
    BY <1>9, Remain
  <2>2. Done(Server, Await("DISCONNECTED"))' = Done(Server, Await("DISCONNECTED"))
    BY <1>1, <2>1 DEF Done
  <2>. QED  BY <1>9, <2>1, <2>2, ConnectionFrame
<1>10. CASE RegisterCrash \/ \E p \in Peer : Exit(p)
  <2>1. PICK p \in Peer : End(p)
    BY <1>1, <1>10 DEF RegisterCrash, Exit
  <2>2. /\ UNCHANGED <<at, serving>> /\ status' = [status EXCEPT ![p] = "gone"]
        /\ \A c \in Client : link'[c] = link[c] \/ (link'[c] = "down" /\ (c = p \/ link[c] = "up" \/ link[c] = "accepted"))
        /\ Queued("DISCONNECTED", Server)' =>
             \/ Queued("DISCONNECTED", Server)
             \/ \E c \in Client : link[c] = "up" /\ link'[c] = "down"
    BY <2>1, EndEffect
  <2>3. status'[p] = "gone" /\ \A q \in Peer : status[q] = "gone" => status'[q] = "gone"
    BY <2>2 DEF OsTypeOK
  <2>4. \A c \in Client : LinkMoves(c)
    BY <2>2, <2>3 DEF LinkMoves
  <2>. QED  BY <1>9, <2>2, <2>3, <2>4
<1>11. ASSUME NEW c \in Client, StartRemoteWrite(c) \/ Handshake(c) \/ Timeout(c) \/ RemoveAdapter(c)
       PROVE  ConnectionInv' /\ Orderly
  <2>1. UNCHANGED <<at, serving>> /\ \A q \in Peer : status[q] = "gone" => status'[q] = "gone"
    BY <1>11 DEF StartRemoteWrite, Handshake, Timeout, RemoveAdapter
  <2>2. \A l \in Client : LinkMoves(l)
    BY <1>11 DEF StartRemoteWrite, Handshake, Timeout, RemoveAdapter, LinkMoves, OsTypeOK
  <2>3. Queued("DISCONNECTED", Server)' => Queued("DISCONNECTED", Server)
    <3>1. CASE StartRemoteWrite(c)
      BY <1>4, <3>1 DEF StartRemoteWrite
    <3>2. CASE Handshake(c)
      <4>1. events'[Server] = Append(events[Server], Event("ESTABLISHED", c))
        BY <1>1, <3>2 DEF Handshake, OsTypeOK
      <4>. QED  BY <1>1, <1>5, <4>1, QueuedAppend
    <3>3. CASE Timeout(c) \/ RemoveAdapter(c)
      <4>1. events'[Server] = events[Server]
        BY <1>1, <3>3 DEF Timeout, RemoveAdapter, OsTypeOK
      <4>. QED  BY <4>1, QueuedSame
    <3>. QED  BY <1>11, <3>1, <3>2, <3>3
  <2>. QED  BY <1>9, <2>1, <2>2, <2>3
<1>12. CASE UNCHANGED vars
  BY <1>3, <1>4, <1>9, <1>12 DEF vars
<1>. QED  BY <1>1, <1>6, <1>7, <1>8, <1>10, <1>11, <1>12 DEF Next, ServerCall, ClientCall

-----------------------------------------------------------------------------
(***************************************************************************)
(* The exchange of the metadata: a client has no more good completions     *)
(* than there were sends on its connection.                                *)
(***************************************************************************)
LEMMA ExchangeFrame ==
  ASSUME OsTypeOK, OsTypeOK', ExchangeInv,
         \A q \in Peer : Before(q) \subseteq Before(q)',
         NEW c \in Client,
         Done(c, Reap(2))' => Done(c, Reap(2)),
         good'[c] <= good[c]
  PROVE  IF Done(c, Reap(2))'
         THEN Done(Server, Call("post_send"))'
         ELSE good'[c] <= One(Done(c, Call("post_send"))') + One(Done(Server, Call("post_send"))')
<1>1. \A q \in Peer : \A call : Done(q, call) => Done(q, call)'
  BY DEF Done
<1>2. c \in Peer /\ Server \in Peer /\ good[c] \in Nat /\ good'[c] \in Nat
  BY DEF OsTypeOK, Peer
<1>3. CASE Done(c, Reap(2))
  BY <1>1, <1>2, <1>3 DEF ExchangeInv
<1>4. CASE ~Done(c, Reap(2))
  <2>1. good[c] <= One(Done(c, Call("post_send"))) + One(Done(Server, Call("post_send")))
    BY <1>4 DEF ExchangeInv
  <2>2. /\ Done(c, Call("post_send")) => Done(c, Call("post_send"))'
        /\ Done(Server, Call("post_send")) => Done(Server, Call("post_send"))'
    BY <1>1, <1>2
  <2>3. good'[c] <= One(Done(c, Call("post_send"))') + One(Done(Server, Call("post_send"))')
    BY <1>2, <2>1, <2>2 DEF One
  <2>. QED  BY <1>4, <2>3
<1>. QED  BY <1>3, <1>4

LEMMA ExchangeStep == OsTypeOK /\ OsTypeOK' /\ ExchangeInv /\ [Next]_vars => ExchangeInv'
<1>. SUFFICES ASSUME OsTypeOK, OsTypeOK', ExchangeInv, [Next]_vars PROVE ExchangeInv'
  OBVIOUS
<1>1. Server \in Peer /\ \A c \in Client : c \in Peer /\ c # Server
  BY SessionAssumption DEF Peer
<1>2. /\ \A name, n : Call(name) # Reap(n)
      /\ \A type, n : Await(type) # Reap(n)
      /\ \A obj, n : Create(obj) # Reap(n) /\ Destroy(obj) # Reap(n)
      /\ Reap(1) # Reap(2)
  BY DEF Call, Await, Reap, Create, Destroy
<1>3. good' = good => \A c \in Client : good'[c] <= good[c]
  BY <1>1 DEF OsTypeOK
<1>4. ASSUME NEW p \in Peer, NEW call, At(p, call), Continue(p) \/ Return(p),
             call # Reap(2), \A c \in Client : good'[c] <= good[c]
      PROVE  ExchangeInv'
  <2>1. /\ \A q \in Peer : Before(q) \subseteq Before(q)'
        /\ \A q \in Peer : Done(q, Reap(2))' => Done(q, Reap(2))
    BY <1>4, Progress
  <2>2. ASSUME NEW c \in Client
        PROVE  IF Done(c, Reap(2))'
               THEN Done(Server, Call("post_send"))'
               ELSE good'[c] <= One(Done(c, Call("post_send"))') + One(Done(Server, Call("post_send"))')
    BY <1>1, <1>4, <2>1, ExchangeFrame
  <2>. QED  BY <2>2 DEF ExchangeInv
<1>5. ASSUME NEW p \in Peer, NEW name, At(p, Call(name)), Continue(p) \/ Return(p), good' = good
      PROVE  ExchangeInv'
  <2>1. PICK call : call = Call(name) /\ call # Reap(2)
    BY <1>2
  <2>. QED  BY <1>3, <1>4, <1>5, <2>1
<1>6. ASSUME UNCHANGED <<at, good>> PROVE ExchangeInv'
  <2>1. \A q \in Peer : Before(q)' = Before(q)
    BY <1>6, Remain
  <2>2. ASSUME NEW c \in Client
        PROVE  IF Done(c, Reap(2))'
               THEN Done(Server, Call("post_send"))'
               ELSE good'[c] <= One(Done(c, Call("post_send"))') + One(Done(Server, Call("post_send"))')
    <3>1. Done(c, Reap(2))' => Done(c, Reap(2))
      BY <1>1, <2>1 DEF Done
    <3>2. good'[c] <= good[c]
      BY <1>3, <1>6
    <3>. QED  BY <2>1, <3>1, <3>2, ExchangeFrame
  <2>. QED  BY <2>2 DEF ExchangeInv
<1>7. ASSUME NEW p \in Peer, PostSend(p) PROVE ExchangeInv'
  <2>1. PICK call : call = Call("post_send") /\ call # Reap(2)
    BY <1>2
  <2>2. At(p, call) /\ Continue(p)
    BY <1>7, <2>1 DEF PostSend
  <2>3. CASE good' = good
    BY <1>3, <1>4, <2>1, <2>2, <2>3
  <2>4. CASE good' # good
    <3>1. PICK to : /\ to = IF p = Server THEN serving ELSE Server
                    /\ good' = [q \in Peer |-> IF q \in {p, to} THEN good[q] + 1 ELSE good[q]]
      BY <1>7, <2>4 DEF PostSend
    <3>2. /\ \A q \in Peer : Before(q) \subseteq Before(q)'
          /\ \A q \in Peer : Done(q, Reap(2))' => Done(q, Reap(2))
          /\ Done(p, call)'
      BY <2>1, <2>2, Progress
    <3>3. ~Done(p, call)
      BY <2>1, <2>2, ClientOrder, ServerOrder DEF Peer
    <3>4. ASSUME NEW c \in Client
          PROVE  IF Done(c, Reap(2))'
                 THEN Done(Server, call)'
                 ELSE good'[c] <= One(Done(c, call)') + One(Done(Server, call)')
      <4>1. c \in Peer /\ c # Server /\ good[c] \in Nat
        BY <1>1 DEF OsTypeOK
      <4>2. \A q \in Peer : \A other : Done(q, other) => Done(q, other)'
        BY <3>2 DEF Done
      <4>3. CASE Done(c, Reap(2))
        BY <1>1, <2>1, <4>1, <4>2, <4>3 DEF ExchangeInv
      <4>4. CASE ~Done(c, Reap(2))
        <5>1. good[c] <= One(Done(c, call)) + One(Done(Server, call))
          BY <2>1, <4>4 DEF ExchangeInv
        <5>2. ~Done(c, Reap(2))'
          BY <3>2, <4>1, <4>4
        <5>3. /\ Done(c, call) => Done(c, call)'
              /\ Done(Server, call) => Done(Server, call)'
          BY <1>1, <4>1, <4>2
        <5>4. good'[c] = good[c] \/ (good'[c] = good[c] + 1 /\ (p = Server \/ p = c))
          BY <3>1, <4>1
        <5>5. good'[c] <= One(Done(c, call)') + One(Done(Server, call)')
          BY <3>2, <3>3, <4>1, <5>1, <5>3, <5>4 DEF One
        <5>. QED  BY <5>2, <5>5
      <4>. QED  BY <4>3, <4>4
    <3>. QED  BY <2>1, <3>4 DEF ExchangeInv
  <2>. QED  BY <2>3, <2>4
<1>8. ASSUME NEW p \in Peer, ReapCompletions(p) PROVE ExchangeInv'
  <2>1. PICK n \in {1, 2} :
          /\ At(p, Reap(n))
          /\ \/ good[p] >= n /\ good' = [good EXCEPT ![p] = @ - n] /\ Continue(p)
             \/ good' = good /\ Return(p)
    BY <1>8 DEF ReapCompletions
  <2>2. PICK call : call = Reap(n) /\ (n = 1 => call # Reap(2))
    BY <1>2
  <2>3. \A c \in Client : good'[c] <= good[c]
    <3>1. good \in [Peer -> Nat]
      BY DEF OsTypeOK
    <3>2. good' = good \/ good' = [good EXCEPT ![p] = @ - n]
      BY <2>1
    <3>3. \A q \in Peer : good'[q] <= good[q]
      BY <3>1, <3>2
    <3>. QED  BY <1>1, <3>3
  <2>4. CASE n = 1
    BY <1>4, <2>1, <2>2, <2>3, <2>4
  <2>5. CASE Return(p)
    <3>1. UNCHANGED at
      BY <2>5 DEF Return
    <3>2. \A q \in Peer : Before(q)' = Before(q)
      BY <3>1, Remain
    <3>3. ASSUME NEW c \in Client
          PROVE  IF Done(c, Reap(2))'
                 THEN Done(Server, Call("post_send"))'
                 ELSE good'[c] <= One(Done(c, Call("post_send"))') + One(Done(Server, Call("post_send"))')
      <4>1. Done(c, Reap(2))' => Done(c, Reap(2))
        BY <1>1, <3>2 DEF Done
      <4>. QED  BY <2>3, <3>2, <4>1, ExchangeFrame
    <3>. QED  BY <3>3 DEF ExchangeInv
  <2>6. CASE n = 2 /\ good[p] >= 2 /\ Continue(p)
    <3>1. At(p, call)
      BY <2>1, <2>2
    <3>2. /\ \A q \in Peer : Before(q) \subseteq Before(q)'
          /\ \A q \in Peer : q # p => (Done(q, Reap(2))' => Done(q, Reap(2)))
      BY <2>6, <3>1, Progress
    <3>3. ASSUME NEW c \in Client
          PROVE  IF Done(c, Reap(2))'
                 THEN Done(Server, Call("post_send"))'
                 ELSE good'[c] <= One(Done(c, Call("post_send"))') + One(Done(Server, Call("post_send"))')
      <4>1. CASE c = p
        <5>1. Done(Server, Call("post_send"))
          <6>1. \/ Done(Server, Call("post_send"))
                \/ good[c] <= One(Done(c, Call("post_send"))) + One(Done(Server, Call("post_send")))
            BY DEF ExchangeInv
          <6>2. good[c] \in Nat /\ good[c] >= 2
            BY <1>1, <2>6, <4>1 DEF OsTypeOK
          <6>3. One(Done(c, Call("post_send"))) \in {0, 1}
                /\ (~Done(Server, Call("post_send")) => One(Done(Server, Call("post_send"))) = 0)
            BY DEF One
          <6>. QED  BY <6>1, <6>2, <6>3
        <5>2. Done(Server, Call("post_send"))'
          BY <1>1, <3>2, <5>1 DEF Done
        <5>3. Done(c, Reap(2))'
          BY <2>2, <2>6, <3>1, <4>1, Progress
        <5>. QED  BY <5>2, <5>3
      <4>2. CASE c # p
        BY <1>1, <2>3, <3>2, <4>2, ExchangeFrame
      <4>. QED  BY <4>1, <4>2
    <3>. QED  BY <3>3 DEF ExchangeInv
  <2>. QED  BY <2>1, <2>4, <2>5, <2>6
<1>9. ASSUME NEW p \in Peer, Step(p) PROVE ExchangeInv'
  <2>1. CASE CreateObject(p) \/ DestroyObject(p) \/ ExpectedEvent(p) \/ UnexpectedEvent(p) \/ NoEvent(p)
    <3>1. PICK call : At(p, call) /\ (Continue(p) \/ Return(p)) /\ call # Reap(2)
      BY <1>2, <2>1 DEF CreateObject, DestroyObject, ExpectedEvent, UnexpectedEvent, NoEvent
    <3>2. good' = good
      BY <2>1 DEF CreateObject, DestroyObject, ExpectedEvent, UnexpectedEvent, NoEvent, cqVars
    <3>. QED  BY <1>3, <1>4, <3>1, <3>2
  <2>2. CASE CallFails(p) \/ Prepare(p) \/ PostRecv(p)
    <3>1. PICK name : At(p, Call(name)) /\ (Continue(p) \/ Return(p))
      BY <2>2 DEF CallFails, Prepare, PostRecv
    <3>2. good' = good
      BY <2>2 DEF CallFails, Prepare, PostRecv, cqVars
    <3>. QED  BY <1>5, <3>1, <3>2
  <2>. QED  BY <1>7, <1>8, <1>9, <2>1, <2>2 DEF Step
<1>10. ASSUME NEW c \in Client, Resolve(c) \/ Connect(c) \/ Disconnect(c) PROVE ExchangeInv'
  <2>1. PICK name : At(c, Call(name)) /\ Continue(c)
    BY <1>10 DEF Resolve, Connect, Disconnect
  <2>2. good' = good
    BY <1>10, BreakEffect DEF Resolve, Connect, Disconnect, NoBreak, cqVars
  <2>. QED  BY <1>1, <1>5, <2>1, <2>2
<1>11. CASE Accept
  <2>1. At(Server, Call("accept")) /\ (Continue(Server) \/ Return(Server)) /\ good' = good
    BY <1>11 DEF Accept, cqVars
  <2>. QED  BY <1>1, <1>5, <2>1
<1>12. CASE RegisterCrash \/ \E p \in Peer : Exit(p)
  <2>1. PICK p \in Peer : End(p)
    BY <1>1, <1>12 DEF RegisterCrash, Exit
  <2>2. UNCHANGED <<at, good>>
    BY <2>1, EndEffect
  <2>. QED  BY <1>6, <2>2
<1>13. CASE \E c \in Client : StartRemoteWrite(c) \/ Handshake(c) \/ Timeout(c) \/ RemoveAdapter(c)
  BY <1>6, <1>13 DEF StartRemoteWrite, Handshake, Timeout, RemoveAdapter, cqVars
<1>14. CASE UNCHANGED vars
  BY <1>6, <1>14 DEF vars
<1>. QED  BY <1>1, <1>9, <1>10, <1>11, <1>12, <1>13, <1>14 DEF Next, ServerCall, ClientCall

-----------------------------------------------------------------------------
(***************************************************************************)
(* At any time, with any number of clients and whatever failed: a process  *)
(* holds what it made and has not destroyed, only the client served is     *)
(* connected, and completions are matched by sends.                        *)
(***************************************************************************)
THEOREM OsInvariance == Spec => []OsIInv
<1>1. Init => OsIInv
  <2>. SUFFICES ASSUME Init PROVE OsIInv
    OBVIOUS
  <2>1. OsTypeOK
    <3>1. \A p \in Peer : 1 \in 1 .. Len(Program(p)) + 1
      BY ServerProgram, ClientProgram DEF Peer
    <3>2. << >> \in Seq([type : EventType, from : Peer])
      OBVIOUS
    <3>. QED  BY <3>1, <3>2, SessionAssumption DEF Init, OsTypeOK, Peer
  <2>2. \A p \in Peer : Before(p) = {}
    BY DEF Init, Before
  <2>3. HeldInv
    BY <2>2 DEF HeldInv, Holding, Init
  <2>4. Server \in Peer /\ \A c \in Client : c \in Peer
    BY DEF Peer
  <2>5. ~Queued("DISCONNECTED", Server)
    <3>1. events[Server] = << >>
      BY <2>4 DEF Init
    <3>2. Len(events[Server]) = 0
      BY <3>1
    <3>. QED  BY <3>2 DEF Queued
  <2>6. ConnectionInv
    BY <2>2, <2>4, <2>5 DEF ConnectionInv, Done, Init
  <2>7. ExchangeInv
    <3>1. \A p \in Peer : \A call : ~Done(p, call)
      BY <2>2 DEF Done
    <3>2. \A c \in Client : good[c] = 0
      BY <2>4 DEF Init
    <3>3. \A b : One(b) \in {0, 1}
      BY DEF One
    <3>4. ASSUME NEW c \in Client
          PROVE  good[c] <= One(Done(c, Call("post_send"))) + One(Done(Server, Call("post_send")))
      BY <3>2, <3>3
    <3>. QED  BY <2>4, <3>1, <3>4 DEF ExchangeInv
  <2>. QED  BY <2>1, <2>3, <2>6, <2>7 DEF OsIInv
<1>2. OsIInv /\ [Next]_vars => OsIInv'
  BY TypeStep, HeldStep, ConnectionStep, ExchangeStep DEF OsIInv
<1>. QED  BY <1>1, <1>2, PTL DEF Spec

(***************************************************************************)
(* The state of the sessions stays typed; a process never runs past the    *)
(* end of its methods.                                                     *)
(***************************************************************************)
THEOREM OsTypeCorrect == Spec => []OsTypeOK
<1>1. OsIInv => OsTypeOK
  BY DEF OsIInv
<1>. QED  BY <1>1, OsInvariance, PTL

(***************************************************************************)
(* Whatever happened before, a clean-up that runs to its end has destroyed *)
(* every object: each one it made comes up for destruction, after the      *)
(* objects that use it.                                                    *)
(***************************************************************************)
THEOREM CleanComplete == Spec => []CleanLeavesNothing
<1>1. OsIInv => CleanLeavesNothing
  <2>. SUFFICES ASSUME OsIInv, NEW p \in Peer, IsCleaned(p), NEW obj \in held[p] PROVE FALSE
    BY DEF CleanLeavesNothing
  <2>1. OsTypeOK /\ HeldInv
    BY DEF OsIInv
  <2>2. obj \in Object /\ obj \in Holding(p)
    BY <2>1 DEF HeldInv, Holding
  <2>3. Len(Program(p)) \in Nat /\ at[p] = Len(Program(p)) + 1
    <3>1. Len(Program(p)) \in Nat
      BY ServerProgram, ClientProgram DEF Peer
    <3>2. at[p] \in 1 .. Len(Program(p)) + 1
      BY <2>1 DEF OsTypeOK
    <3>. QED  BY <3>1, <3>2 DEF IsCleaned
  <2>4. Before(p) = {Program(p)[i] : i \in 1 .. Len(Program(p))}
    BY <2>3 DEF Before
  <2>5. PICK i \in 1 .. Len(Program(p)) : Makes(Program(p)[i], obj)
    BY <2>2, <2>4 DEF Holding
  <2>6. PICK j \in 1 .. Len(Program(p)) : Program(p)[j] = Destroy(obj)
    BY <2>2, <2>5, Balanced
  <2>. QED  BY <2>2, <2>4, <2>6 DEF Holding, Done
<1>. QED  BY <1>1, OsInvariance, PTL

(***************************************************************************)
(* A client that is set up and connected may write into the server's       *)
(* memory at any time: it has the server's metadata, so the server has     *)
(* registered the buffer, and the server releases it only after the        *)
(* connection is down.                                                     *)
(***************************************************************************)
LEMMA BufferHeld ==
  OsTypeOK /\ HeldInv =>
    ("server_buffer_mr" \in held[Server] <=>
       Done(Server, Create("server_buffer_mr")) /\ ~Done(Server, Destroy("server_buffer_mr")))
<1>1. "server_buffer_mr" \in Object /\ \A call : Makes(call, "server_buffer_mr") <=> call = Create("server_buffer_mr")
  BY DEF Object, Makes
<1>. QED  BY <1>1 DEF HeldInv, Holding, Done, Peer

LEMMA LentBuffer ==
  OsIInv => \A c \in Client : Lent(c) =>
    serving = c /\ Done(Server, Call("accept")) /\ "server_buffer_mr" \in held[Server]
<1>. SUFFICES ASSUME OsIInv, NEW c \in Client, Lent(c)
              PROVE  serving = c /\ Done(Server, Call("accept")) /\ "server_buffer_mr" \in held[Server]
  OBVIOUS
<1>1. OsTypeOK /\ HeldInv /\ ConnectionInv /\ ExchangeInv /\ link[c] = "up" /\ Done(c, Reap(2))
  BY DEF OsIInv, Lent
<1>2. serving = c /\ Done(Server, Call("accept"))
  BY <1>1 DEF ConnectionInv
<1>3. Done(Server, Create("server_buffer_mr"))
  <2>1. Done(Server, Call("post_send"))
    BY <1>1 DEF ExchangeInv
  <2>. QED  BY <1>1, <2>1, ServerOrder
<1>4. ~Done(Server, Destroy("server_buffer_mr"))
  <2>. SUFFICES ASSUME Done(Server, Destroy("server_buffer_mr")) PROVE FALSE
    OBVIOUS
  <2>1. Done(Server, Await("DISCONNECTED"))
    BY <1>1, ServerOrder
  <2>2. link[c] = "down"
    BY <1>1, <1>2, <2>1 DEF ConnectionInv
  <2>. QED  BY <1>1, <2>2
<1>. QED  BY <1>1, <1>2, <1>3, <1>4, BufferHeld

(***************************************************************************)
(* So a connected client that is set up writes into registered memory of   *)
(* the server that serves it.                                              *)
(***************************************************************************)
THEOREM WritesSafe == Spec => []RemoteWriteSafe
<1>1. OsIInv => RemoteWriteSafe
  <2>. SUFFICES ASSUME OsIInv, NEW c \in Client, IsSetUp(c), link[c] = "up"
                PROVE  serving = c /\ "server_buffer_mr" \in held[Server]
    BY DEF RemoteWriteSafe
  <2>1. Lent(c)
    BY ClientOrder DEF OsIInv, Lent
  <2>. QED  BY <2>1, LentBuffer
<1>. QED  BY <1>1, OsInvariance, PTL

-----------------------------------------------------------------------------
(***************************************************************************)
(* Refinement: the session lends the buffer as BufferLease says.  A step   *)
(* that registers or releases the buffer is a call of the server and       *)
(* leaves every connection alone.                                          *)
(***************************************************************************)
BufferCall(call) == At(Server, call) /\ Continue(Server) /\ UNCHANGED <<link, serving>>

LEMMA BufferStep ==
  ASSUME OsTypeOK, [Next]_vars
  PROVE  \/ BufferCall(Create("server_buffer_mr"))
         \/ BufferCall(Destroy("server_buffer_mr"))
         \/ /\ "server_buffer_mr" \in held'[Server] <=> "server_buffer_mr" \in held[Server]
            /\ Done(Server, Destroy("server_buffer_mr"))' <=> Done(Server, Destroy("server_buffer_mr"))
<1>. DEFINE buf == "server_buffer_mr"
            Same == /\ buf \in held'[Server] <=> buf \in held[Server]
                    /\ Done(Server, Destroy(buf))' <=> Done(Server, Destroy(buf))
<1>1. Server \in Peer /\ \A c \in Client : c \in Peer /\ c # Server
  BY SessionAssumption DEF Peer
<1>2. held \in [Peer -> SUBSET Object]
  BY DEF OsTypeOK
<1>3. /\ \A name : Call(name) # Destroy(buf)
      /\ \A n : Reap(n) # Destroy(buf)
      /\ \A type : Await(type) # Destroy(buf)
      /\ \A obj : Create(obj) # Destroy(buf) /\ (Destroy(obj) = Destroy(buf) <=> obj = buf)
  BY DEF Call, Reap, Await, Create, Destroy
<1>4. ASSUME NEW p \in Peer, NEW call, At(p, call), Continue(p) \/ Return(p),
             p # Server \/ call # Destroy(buf),
             buf \in held'[Server] <=> buf \in held[Server]
      PROVE  Same
  <2>1. /\ Before(Server) \subseteq Before(Server)'
        /\ Done(Server, Destroy(buf))' => Done(Server, Destroy(buf)) \/ (Server = p /\ Destroy(buf) = call)
    BY <1>1, <1>4, Progress
  <2>. QED  BY <1>4, <2>1 DEF Done
<1>5. ASSUME UNCHANGED <<at, held>> PROVE Same
  <2>1. Before(Server)' = Before(Server)
    BY <1>1, <1>5, Remain
  <2>. QED  BY <1>5, <2>1 DEF Done
<1>6. ASSUME NEW p \in Peer, Step(p)
      PROVE  BufferCall(Create(buf)) \/ BufferCall(Destroy(buf)) \/ Same
  <2>1. CASE CreateObject(p)
    <3>1. PICK obj \in Object :
            /\ At(p, Create(obj))
            /\ \/ held' = [held EXCEPT ![p] = @ \cup {obj}] /\ Continue(p)
               \/ Return(p) /\ UNCHANGED held
      BY <2>1 DEF CreateObject
    <3>2. CASE p = Server /\ obj = buf /\ Continue(p)
      BY <2>1, <3>1, <3>2 DEF CreateObject, BufferCall
    <3>3. CASE Return(p) /\ UNCHANGED held
      BY <1>5, <3>3 DEF Return
    <3>4. CASE ~(p = Server /\ obj = buf) /\ held' = [held EXCEPT ![p] = @ \cup {obj}] /\ Continue(p)
      <4>1. PICK call : call = Create(obj) /\ call # Destroy(buf)
        BY <1>3
      <4>2. buf \in held'[Server] <=> buf \in held[Server]
        BY <1>1, <1>2, <3>4
      <4>. QED  BY <1>4, <3>1, <3>4, <4>1, <4>2
    <3>. QED  BY <3>1, <3>2, <3>3, <3>4
  <2>2. CASE DestroyObject(p)
    <3>1. PICK obj \in Object :
            /\ At(p, Destroy(obj)) /\ Continue(p)
            /\ held' = [held EXCEPT ![p] = @ \ {obj}] \/ held' = held
      BY <2>2 DEF DestroyObject
    <3>2. CASE p = Server /\ obj = buf
      BY <2>2, <3>1, <3>2 DEF DestroyObject, BufferCall
    <3>3. CASE ~(p = Server /\ obj = buf)
      <4>1. PICK call : call = Destroy(obj) /\ (p # Server \/ call # Destroy(buf))
        BY <1>3, <3>3
      <4>2. buf \in held'[Server] <=> buf \in held[Server]
        BY <1>1, <1>2, <3>1, <3>3
      <4>. QED  BY <1>4, <3>1, <4>1, <4>2
    <3>. QED  BY <3>2, <3>3
  <2>3. CASE CallFails(p) \/ Prepare(p) \/ PostRecv(p) \/ PostSend(p) \/ ReapCompletions(p)
             \/ UnexpectedEvent(p) \/ NoEvent(p)
    <3>1. PICK call : At(p, call) /\ (Continue(p) \/ Return(p)) /\ call # Destroy(buf)
      BY <1>3, <2>3 DEF CallFails, Prepare, PostRecv, PostSend, ReapCompletions, UnexpectedEvent, NoEvent
    <3>2. UNCHANGED held
      BY <2>3 DEF CallFails, Prepare, PostRecv, PostSend, ReapCompletions, UnexpectedEvent, NoEvent
    <3>. QED  BY <1>4, <3>1, <3>2
  <2>4. CASE ExpectedEvent(p)
    <3>1. PICK call : At(p, call) /\ Continue(p) /\ call # Destroy(buf)
      BY <1>3, <2>4 DEF ExpectedEvent
    <3>2. held' = [held EXCEPT ![p] = @ \cup {"id"}] \/ held' = held
      BY <2>4 DEF ExpectedEvent
    <3>3. buf \in held'[Server] <=> buf \in held[Server]
      BY <1>1, <1>2, <3>2
    <3>. QED  BY <1>4, <3>1, <3>3
  <2>. QED  BY <1>6, <2>1, <2>2, <2>3, <2>4 DEF Step
<1>7. ASSUME NEW c \in Client, Resolve(c) \/ Connect(c) \/ Disconnect(c) PROVE Same
  <2>1. PICK name : At(c, Call(name)) /\ Continue(c) /\ UNCHANGED held
    BY <1>7 DEF Resolve, Connect, Disconnect
  <2>2. PICK call : call = Call(name) /\ call # Destroy(buf)
    BY <1>3
  <2>. QED  BY <1>1, <1>4, <2>1, <2>2
<1>8. CASE Accept
  <2>1. PICK call : At(Server, call) /\ (Continue(Server) \/ Return(Server)) /\ call # Destroy(buf)
    BY <1>3, <1>8 DEF Accept
  <2>. QED  BY <1>1, <1>4, <1>8, <2>1 DEF Accept
<1>9. CASE RegisterCrash \/ \E p \in Peer : Exit(p)
  BY <1>5, <1>9 DEF RegisterCrash, Exit, End
<1>10. CASE \E c \in Client : StartRemoteWrite(c) \/ Handshake(c) \/ Timeout(c) \/ RemoveAdapter(c)
  BY <1>5, <1>10 DEF StartRemoteWrite, Handshake, Timeout, RemoveAdapter
<1>11. CASE UNCHANGED vars
  BY <1>5, <1>11 DEF vars
<1>. QED  BY <1>1, <1>6, <1>7, <1>8, <1>9, <1>10, <1>11 DEF Next, ServerCall, ClientCall

\* What the two lemmas above say of a state, and of the next one.
LeaseInv ==
  /\ "server_buffer_mr" \in held[Server] <=>
       Done(Server, Create("server_buffer_mr")) /\ ~Done(Server, Destroy("server_buffer_mr"))
  /\ \A c \in Client : Lent(c) =>
       serving = c /\ Done(Server, Call("accept")) /\ "server_buffer_mr" \in held[Server]

LEMMA LeaseFacts == OsIInv => LeaseInv
BY BufferHeld, LentBuffer DEF OsIInv, LeaseInv

LEMMA LeaseStep ==
  ASSUME OsIInv, LeaseInv, OsIInv', LeaseInv', [Next]_vars
  PROVE  [Lease!Next]_(Lease!vars)
<1>. USE DEF Lease!vars
<1>1. OsTypeOK /\ HeldInv /\ ConnectionInv /\ OsTypeOK' /\ HeldInv' /\ ConnectionInv'
  BY DEF OsIInv
<1>2. Server \in Peer /\ \A c \in Client : c \in Peer /\ c # Server
  BY SessionAssumption DEF Peer
<1>3. Orderly
  BY <1>1, ConnectionStep
<1>4. /\ Create("server_buffer_mr") # Destroy("server_buffer_mr")
      /\ \A obj : Create(obj) # Call("accept") /\ Destroy(obj) # Call("accept")
  BY DEF Create, Destroy, Call
<1>5. ASSUME NEW call, BufferCall(call), call # Call("accept")
      PROVE  /\ Before(Server)' = Before(Server) \cup {call}
             /\ UNCHANGED <<Lessees, Over>>
  <2>1. At(Server, call) /\ Continue(Server) /\ UNCHANGED <<link, serving>>
    BY <1>5 DEF BufferCall
  <2>2. /\ Before(Server)' = Before(Server) \cup {call}
        /\ \A c \in Client : Before(c)' = Before(c)
    BY <1>1, <1>2, <2>1, Advance
  <2>3. \A c \in Client : Lent(c)' <=> Lent(c)
    BY <2>1, <2>2 DEF Lent, Done
  <2>4. Lessees' = Lessees
    BY <2>3 DEF Lessees
  <2>5. Done(Server, Call("accept"))' <=> Done(Server, Call("accept"))
    BY <1>5, <2>2 DEF Done
  <2>6. Over' = Over
    BY Zenon, <2>1, <2>5 DEF Over
  <2>. QED  BY <2>2, <2>4, <2>6
<1>6. CASE BufferCall(Create("server_buffer_mr"))
  <2>1. ~Done(Server, Create("server_buffer_mr")) /\ ~Done(Server, Destroy("server_buffer_mr"))
    BY <1>1, <1>6, ServerOrder DEF BufferCall
  <2>2. PICK call : call = Create("server_buffer_mr") /\ call # Call("accept")
    BY <1>4
  <2>3. Before(Server)' = Before(Server) \cup {call} /\ UNCHANGED <<Lessees, Over>>
    BY <1>5, <1>6, <2>2
  <2>4. "server_buffer_mr" \notin held[Server] /\ "server_buffer_mr" \in held'[Server]
    BY <1>4, <2>1, <2>2, <2>3 DEF LeaseInv, Done
  <2>5. BufferState = "none" /\ BufferState' = "registered"
    BY <2>1, <2>4 DEF BufferState
  <2>. QED  BY <2>3, <2>5 DEF Lease!Next, Lease!Register
<1>7. CASE BufferCall(Destroy("server_buffer_mr"))
  <2>1. /\ Done(Server, Create("server_buffer_mr")) /\ ~Done(Server, Destroy("server_buffer_mr"))
        /\ Done(Server, Await("DISCONNECTED"))
    BY <1>1, <1>7, ServerOrder DEF BufferCall
  <2>2. PICK call : call = Destroy("server_buffer_mr") /\ call # Call("accept")
    BY <1>4
  <2>3. Before(Server)' = Before(Server) \cup {call} /\ UNCHANGED <<Lessees, Over>>
    BY <1>5, <1>7, <2>2
  <2>4. Done(Server, Destroy("server_buffer_mr"))'
    BY <2>2, <2>3 DEF Done
  <2>5. "server_buffer_mr" \in held[Server] /\ "server_buffer_mr" \notin held'[Server]
    BY <2>1, <2>4 DEF LeaseInv
  <2>6. BufferState = "registered" /\ BufferState' = "released"
    BY <2>4, <2>5 DEF BufferState
  <2>7. Over
    BY <1>1, <2>1 DEF ConnectionInv, Over
  <2>. QED  BY <2>3, <2>6, <2>7 DEF Lease!Next, Lease!Release
<1>8. CASE /\ "server_buffer_mr" \in held'[Server] <=> "server_buffer_mr" \in held[Server]
           /\ Done(Server, Destroy("server_buffer_mr"))' <=> Done(Server, Destroy("server_buffer_mr"))
  <2>1. BufferState' = BufferState
    BY <1>8 DEF BufferState
  <2>2. Over => Over'
    <3>. SUFFICES ASSUME Over PROVE Over'
      OBVIOUS
    <3>1. Done(Server, Call("accept")) /\ serving \in Client /\ link[serving] = "down"
      BY DEF Over
    <3>2. Done(Server, Call("accept"))' /\ serving' = serving /\ LinkMoves(serving)
      BY <1>2, <1>3, <3>1 DEF Orderly, Done
    <3>. QED  BY <3>1, <3>2 DEF Over, LinkMoves
  <2>3. /\ Over => Lessees = {}
        /\ Over' => Lessees' = {}
    BY DEF Over, Lessees, Lent, LeaseInv
  <2>4. ASSUME NEW c \in Client, Lent(c), ~Lent(c)'
        PROVE  Over'
    <3>1. Done(Server, Call("accept")) /\ serving = c /\ link[c] = "up" /\ Done(c, Reap(2))
      BY <2>4 DEF LeaseInv, Lent
    <3>2. Done(Server, Call("accept"))' /\ serving' = c /\ LinkMoves(c) /\ Done(c, Reap(2))'
      BY <1>2, <1>3, <3>1 DEF Orderly, Done
    <3>. QED  BY <2>4, <3>1, <3>2 DEF Over, LinkMoves, Lent
  <2>5. CASE Over
    <3>1. Over = Over'
      BY Zenon, <2>2, <2>5 DEF Over
    <3>. QED  BY <2>1, <2>2, <2>3, <2>5, <3>1
  <2>6. CASE ~Over /\ Over'
    BY <2>1, <2>3, <2>6 DEF Lease!Next, Lease!Return
  <2>7. CASE ~Over /\ ~Over'
    <3>1. Over' = Over
      BY Zenon, <2>7 DEF Over
    <3>2. Lessees \subseteq Lessees'
      BY <2>4, <2>7 DEF Lessees
    <3>3. CASE Lessees' = Lessees
      BY <2>1, <3>1, <3>3
    <3>4. CASE Lessees' # Lessees
      <4>1. PICK c \in Lessees' : c \notin Lessees
        BY <3>2, <3>4
      <4>2. \A d \in Lessees' : d = serving'
        BY DEF Lessees, LeaseInv
      <4>3. Lessees' = {c} /\ Lessees = {}
        BY <3>2, <4>1, <4>2
      <4>4. c \in Client /\ BufferState' = "registered"
        BY <4>1 DEF Lessees, LeaseInv, BufferState
      <4>. QED  BY <2>1, <2>7, <3>1, <4>3, <4>4 DEF Lease!Next, Lease!Lend
    <3>. QED  BY <3>3, <3>4
  <2>. QED  BY <2>5, <2>6, <2>7
<1>. QED  BY <1>1, <1>6, <1>7, <1>8, BufferStep

(***************************************************************************)
(* Every behaviour of the sessions is one of BufferLease, for any number   *)
(* of clients and whatever fails: the server registers its buffer, lends   *)
(* it to one client, once, and releases it after that.                     *)
(***************************************************************************)
THEOREM LeaseRefinement == Spec => ImplementsLease
<1>1. Init => Lease!Init
  <2>. SUFFICES ASSUME Init PROVE Lease!Init
    OBVIOUS
  <2>1. Server \in Peer /\ \A c \in Client : c \in Peer
    BY DEF Peer
  <2>2. \A p \in Peer : \A call : ~Done(p, call)
    BY DEF Init, Done, Before
  <2>3. BufferState = "none"
    BY <2>1, <2>2 DEF Init, BufferState
  <2>4. Lessees = {}
    BY <2>1, <2>2 DEF Lessees, Lent
  <2>5. Over = FALSE
    BY Zenon, <2>1, <2>2 DEF Over
  <2>. QED  BY <2>3, <2>4, <2>5 DEF Lease!Init
<1>2. OsIInv /\ LeaseInv /\ OsIInv' /\ LeaseInv' /\ [Next]_vars => [Lease!Next]_(Lease!vars)
  BY LeaseStep
<1>. QED  BY <1>1, <1>2, OsInvariance, LeaseFacts, PTL DEF Spec, ImplementsLease, Lease!Spec
=============================================================================
