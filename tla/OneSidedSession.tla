--------------------------- MODULE OneSidedSession --------------------------
(***************************************************************************)
(* One-sided RDMA sessions: clients (client_rdma_op) that connect to one   *)
(* server (server_rdma_op), learn where its buffer is and write into it.   *)
(* Both classes are sequential; each method is a chain of library calls    *)
(* that returns an error as soon as one of them fails.  A method is given  *)
(* here as the sequence of its calls, a process as the sequence of its     *)
(* methods, and the actions say what a call of each kind does.  librdmacm, *)
(* libibverbs and the programs that use the classes are external: the ones *)
(* here call the methods in order and give up after an error.              *)
(***************************************************************************)
EXTENDS Integers, Sequences

CONSTANTS
  Client,      \* client processes
  Server,      \* the server process
  MayFail,     \* library calls may fail, connection attempts may time out and
               \* processes may end
  MayRemove,   \* the adapter of a client may be removed
  SendQueue    \* capacity of a client's send queue (15000)

ASSUME SessionAssumption ==
  /\ Server \notin Client
  /\ MayFail \in BOOLEAN
  /\ MayRemove \in BOOLEAN
  /\ SendQueue \in Nat

Peer == Client \cup {Server}

VARIABLES
  at,         \* at[p]: index of p's next call
  status,     \* "ok", "failed" (a method returned an error) or "gone"
  held,       \* held[p]: library objects p has and has not destroyed
  events,     \* events[p]: CM events p has not retrieved
  good, bad,  \* successful and failed completions in p's CQ
  recv,       \* p has posted a receive that no data has arrived for
  link,       \* link[c]: the connection of client c
  serving,    \* the client cm_client_id of the server stands for, or Server
  posted      \* posted[c]: remote writes in c's send queue

vars   == <<at, status, held, events, good, bad, recv, link, serving, posted>>
cqVars == <<good, bad, recv>>

-----------------------------------------------------------------------------
\* A memory region is registered in a protection domain, a completion queue
\* reports to a channel, and so on: what must be destroyed before what.
Object == {"channel", "id", "server_id", "pd", "comp", "cq", "qp", "src_mr",
           "client_metadata_mr", "server_metadata_mr", "server_buffer_mr"}
Region == {"src_mr", "client_metadata_mr", "server_metadata_mr", "server_buffer_mr"}

Users(obj) ==
  CASE obj = "pd"      -> Region \cup {"qp"}
    [] obj = "comp"    -> {"cq"}
    [] obj \in {"cq", "id"} -> {"qp"}
    [] obj = "channel" -> {"id", "server_id"}
    [] OTHER           -> {}

(***************************************************************************)
(* The methods.                                                            *)
(***************************************************************************)
Create(obj)  == [op |-> "create", arg |-> obj]
Call(name)   == [op |-> "call", arg |-> name]
Await(event) == [op |-> "await", arg |-> event]
Reap(n)      == [op |-> "reap", arg |-> n]
Destroy(obj) == [op |-> "destroy", arg |-> obj]

ClientPrepareConnection ==
  << Create("channel"), Create("id"),
     Call("resolve_addr"), Await("ADDR_RESOLVED"),
     Call("resolve_route"), Await("ROUTE_RESOLVED"),
     Create("pd"), Create("comp"), Create("cq"), Call("notify"), Create("qp") >>
\* mutant: connect before there is a receive for the server's answer
ClientPrePostNothing == << Create("server_metadata_mr") >>

ClientPrePostRecv  == << Create("server_metadata_mr"), Call("post_recv") >>
ClientConnect      == << Call("connect"), Await("ESTABLISHED") >>
ClientSendMetadata ==
  << Create("src_mr"), Create("client_metadata_mr"), Call("post_send"), Reap(2) >>

\* mutant: the protection domain before the memory that is registered in it
ClientDestroyEarly ==
  << Destroy("qp"), Destroy("id"), Destroy("cq"), Destroy("comp"), Destroy("pd"),
     Destroy("server_metadata_mr"), Destroy("client_metadata_mr"), Destroy("src_mr"),
     Destroy("channel") >>

ClientDestroy ==
  << Destroy("qp"), Destroy("id"), Destroy("cq"), Destroy("comp"),
     Destroy("server_metadata_mr"), Destroy("client_metadata_mr"), Destroy("src_mr"),
     Destroy("pd"), Destroy("channel") >>
ClientClean == << Call("disconnect"), Await("DISCONNECTED") >> \o ClientDestroy

StartServer ==
  << Create("channel"), Create("server_id"), Call("bind"), Call("listen"),
     Await("CONNECT_REQUEST") >>
SetupClientResources ==
  << Create("pd"), Create("comp"), Create("cq"), Call("notify"), Create("qp") >>
AcceptClient ==
  << Create("client_metadata_mr"), Call("post_recv"), Call("accept"), Await("ESTABLISHED") >>
\* mutant: tell the client of the buffer before it is registered
SendMetadataFirst ==
  << Reap(1), Create("server_metadata_mr"), Call("post_send"), Create("server_buffer_mr") >>

SendServerMetadata ==
  << Reap(1), Create("server_buffer_mr"), Create("server_metadata_mr"), Call("post_send") >>

ServerDestroy ==
  << Destroy("qp"), Destroy("id"), Destroy("cq"), Destroy("comp"),
     Destroy("server_buffer_mr"), Destroy("server_metadata_mr"),
     Destroy("client_metadata_mr"), Destroy("pd"), Destroy("server_id"), Destroy("channel") >>

\* mutant: clean up without waiting for the client to disconnect
ServerCleanAtOnce == ServerDestroy

ServerClean == << Await("DISCONNECTED") >> \o ServerDestroy

ClientSetup == ClientPrepareConnection \o ClientPrePostRecv \o ClientConnect \o ClientSendMetadata
ServerSetup == StartServer \o SetupClientResources \o AcceptClient \o SendServerMetadata

Program(p) == IF p = Server THEN ServerSetup \o ServerClean ELSE ClientSetup \o ClientClean
Setup(p)   == IF p = Server THEN ServerSetup ELSE ClientSetup

IsSetUp(p)   == status[p] = "ok" /\ at[p] > Len(Setup(p))
IsCleaned(p) == status[p] = "ok" /\ at[p] > Len(Program(p))

At(p, call) == status[p] = "ok" /\ at[p] <= Len(Program(p)) /\ Program(p)[at[p]] = call

Listening == status[Server] # "gone" /\ at[Server] >= Len(StartServer)
             /\ "server_id" \in held[Server]

-----------------------------------------------------------------------------
EventType ==
  {"ADDR_RESOLVED", "ROUTE_RESOLVED", "CONNECT_REQUEST", "ESTABLISHED", "DISCONNECTED",
   "ADDR_ERROR", "ROUTE_ERROR", "REJECTED", "UNREACHABLE", "CONNECT_ERROR", "DEVICE_REMOVAL"}

OsTypeOK ==
  /\ at \in [Peer -> Nat]
  /\ \A p \in Peer : at[p] \in 1 .. Len(Program(p)) + 1
  /\ status \in [Peer -> {"ok", "failed", "gone"}]
  /\ held \in [Peer -> SUBSET Object]
  /\ events \in [Peer -> Seq([type : EventType, from : Peer])]
  /\ good \in [Peer -> Nat]
  /\ bad \in [Peer -> Nat]
  /\ recv \in [Peer -> BOOLEAN]
  /\ link \in [Client -> {"none", "requested", "accepted", "up", "down"}]
  /\ serving \in Peer
  /\ posted \in [Client -> 0 .. SendQueue]

Init ==
  /\ at = [p \in Peer |-> 1]
  /\ status = [p \in Peer |-> "ok"]
  /\ held = [p \in Peer |-> {}]
  /\ events = [p \in Peer |-> << >>]
  /\ good = [p \in Peer |-> 0]
  /\ bad = [p \in Peer |-> 0]
  /\ recv = [p \in Peer |-> FALSE]
  /\ link = [c \in Client |-> "none"]
  /\ serving = Server
  /\ posted = [c \in Client |-> 0]

-----------------------------------------------------------------------------
(***************************************************************************)
(* How a call ends: the method goes on, or it returns an error and         *)
(* releases nothing.                                                       *)
(***************************************************************************)
Continue(p) == at' = [at EXCEPT ![p] = @ + 1] /\ UNCHANGED status
Return(p)   == status' = [status EXCEPT ![p] = "failed"] /\ UNCHANGED at

Event(type, from) == [type |-> type, from |-> from]

(***************************************************************************)
(* The connection of c ends: both ends are told, and what they have posted *)
(* to receive is flushed.                                                  *)
(***************************************************************************)
Break(c) ==
  LET type == IF link[c] = "up" THEN "DISCONNECTED" ELSE "CONNECT_ERROR"
  IN  /\ link' = [link EXCEPT ![c] = "down"]
      /\ events' = [events EXCEPT ![c] = Append(@, Event(type, c)),
                                  ![Server] = Append(@, Event(type, c))]
      /\ bad' = [p \in Peer |-> IF p \in {c, Server} /\ recv[p] THEN bad[p] + 1 ELSE bad[p]]
      /\ recv' = [p \in Peer |-> recv[p] /\ p \notin {c, Server}]
      /\ UNCHANGED good

NoBreak == UNCHANGED <<link, events, cqVars>>

\* p's process ends, and with it the connection it has.
End(p) ==
  /\ status' = [status EXCEPT ![p] = "gone"]
  /\ LET c == IF p = Server THEN serving ELSE p
     IN  IF c \in Client /\ link[c] \in {"accepted", "up"}
         THEN Break(c)
         ELSE /\ link' = [l \in Client |-> IF l = p THEN "down" ELSE link[l]]
              /\ UNCHANGED <<events, cqVars>>
  /\ UNCHANGED <<at, held, serving, posted>>

-----------------------------------------------------------------------------
(***************************************************************************)
(* The kinds of calls.                                                     *)
(***************************************************************************)
CreateObject(p) ==
  /\ \E obj \in Object :
       /\ At(p, Create(obj))
       /\ \/ held' = [held EXCEPT ![p] = @ \cup {obj}] /\ Continue(p)
          \/ MayFail /\ obj # "server_buffer_mr" /\ Return(p) /\ UNCHANGED held
  /\ UNCHANGED <<events, cqVars, link, serving, posted>>

\* rdma_buffer_alloc1 frees the buffer and returns NULL, which the next
\* statement reads through.
RegisterCrash ==
  /\ MayFail
  /\ At(Server, Create("server_buffer_mr"))
  /\ End(Server)

\* A failing destroy is reported and ignored.
DestroyObject(p) ==
  /\ \E obj \in Object :
       /\ At(p, Destroy(obj))
       /\ held' = IF Users(obj) \cap held[p] = {}
                  THEN [held EXCEPT ![p] = @ \ {obj}] ELSE held
  /\ Continue(p)
  /\ UNCHANGED <<events, cqVars, link, serving, posted>>

CallFails(p) ==
  /\ MayFail
  /\ \E name \in {"resolve_addr", "resolve_route", "notify", "post_recv", "post_send",
                  "bind", "listen", "accept"} : At(p, Call(name))
  /\ Return(p)
  /\ UNCHANGED <<held, events, cqVars, link, serving, posted>>

Resolve(p) ==
  /\ \E kind \in {"ADDR", "ROUTE"}, ok \in {TRUE, ~MayFail} :
       /\ At(p, Call(IF kind = "ADDR" THEN "resolve_addr" ELSE "resolve_route"))
       /\ events' = [events EXCEPT ![p] =
            Append(@, Event(IF kind = "ADDR" THEN IF ok THEN "ADDR_RESOLVED" ELSE "ADDR_ERROR"
                            ELSE IF ok THEN "ROUTE_RESOLVED" ELSE "ROUTE_ERROR", p))]
  /\ Continue(p)
  /\ UNCHANGED <<held, cqVars, link, serving, posted>>

Prepare(p) ==
  /\ At(p, Call("notify")) \/ At(p, Call("bind")) \/ At(p, Call("listen"))
  /\ Continue(p)
  /\ UNCHANGED <<held, events, cqVars, link, serving, posted>>

PostRecv(p) ==
  /\ At(p, Call("post_recv"))
  /\ recv' = [recv EXCEPT ![p] = TRUE]
  /\ Continue(p)
  /\ UNCHANGED <<held, events, good, bad, link, serving, posted>>

\* A refused rdma_connect is retried at once, without end.
Connect(c) ==
  /\ At(c, Call("connect"))
  /\ IF Listening
     THEN /\ link' = [link EXCEPT ![c] = "requested"]
          /\ events' = [events EXCEPT ![Server] = Append(@, Event("CONNECT_REQUEST", c))]
     ELSE /\ events' = [events EXCEPT ![c] = Append(@, Event("REJECTED", c))]
          /\ UNCHANGED link
  /\ Continue(c)
  /\ UNCHANGED <<held, cqVars, serving, posted>>

Accept ==
  /\ At(Server, Call("accept"))
  /\ IF link[serving] = "requested"
     THEN link' = [link EXCEPT ![serving] = "accepted"] /\ Continue(Server)
     ELSE Return(Server) /\ UNCHANGED link
  /\ UNCHANGED <<held, events, cqVars, serving, posted>>

PostSend(p) ==
  LET c  == IF p = Server THEN serving ELSE p
      to == IF p = Server THEN serving ELSE Server
  IN  /\ At(p, Call("post_send"))
      /\ IF link[c] = "up"
         THEN /\ recv[to]
              /\ recv' = [recv EXCEPT ![to] = FALSE]
              /\ good' = [q \in Peer |-> IF q \in {p, to} THEN good[q] + 1 ELSE good[q]]
              /\ UNCHANGED bad
         ELSE /\ bad' = [bad EXCEPT ![p] = @ + 1]
              /\ UNCHANGED <<good, recv>>
      /\ Continue(p)
      /\ UNCHANGED <<held, events, link, serving, posted>>

\* Polls until it has n completions, good or bad; each of the calls on the
\* queue may fail.
ReapCompletions(p) ==
  /\ \E n \in {1, 2} :
       /\ At(p, Reap(n))
       /\ \/ /\ good[p] >= n
             /\ good' = [good EXCEPT ![p] = @ - n]
             /\ Continue(p)
          \/ /\ MayFail \/ (good[p] < n /\ good[p] + bad[p] >= n)
             /\ Return(p)
             /\ UNCHANGED good
  /\ UNCHANGED <<held, events, bad, recv, link, serving, posted>>

\* A failing disconnect is reported and ignored.
Disconnect(c) ==
  /\ At(c, Call("disconnect"))
  /\ \/ link[c] = "up" /\ Break(c)
     \/ (link[c] # "up" \/ MayFail) /\ NoBreak
  /\ Continue(c)
  /\ UNCHANGED <<held, serving, posted>>

-----------------------------------------------------------------------------
(***************************************************************************)
(* process_rdma_cm_event and what its callers make of it.  It acknowledges *)
(* an event that is not the expected one; the caller acknowledges one that *)
(* is.                                                                     *)
(***************************************************************************)
ExpectedEvent(p) ==
  /\ events[p] # << >>
  /\ At(p, Await(Head(events[p]).type))
  /\ LET e == Head(events[p])
     IN  /\ serving' = IF e.type = "CONNECT_REQUEST" THEN e.from ELSE serving
         /\ held' = IF e.type = "CONNECT_REQUEST"
                    THEN [held EXCEPT ![p] = @ \cup {"id"}] ELSE held
  /\ events' = [events EXCEPT ![p] = Tail(@)]
  /\ Continue(p)
  /\ UNCHANGED <<cqVars, link, posted>>

\* accept_client_connection returns -errno, which process_rdma_cm_event has
\* not set: it may be 0, and 0 is success.
\* client_disconnect_and_clean reports the error and goes on.
UnexpectedEvent(p) ==
  /\ events[p] # << >>
  /\ \E type \in EventType \ {Head(events[p]).type} :
       /\ At(p, Await(type))
       /\ \/ type = "DISCONNECTED" /\ p # Server /\ Continue(p)
          \/ type = "ESTABLISHED" /\ p = Server /\ Continue(p)
          \/ ~(type = "DISCONNECTED" /\ p # Server) /\ Return(p)
  /\ events' = [events EXCEPT ![p] = Tail(@)]
  /\ UNCHANGED <<held, cqVars, link, serving, posted>>

\* rdma_get_cm_event fails.  rdma_ack_cm_event has no step: it fails only
\* without an event, where client_disconnect_and_clean ignores it.
NoEvent(p) ==
  /\ MayFail
  /\ \E type \in EventType :
       /\ At(p, Await(type))
       /\ IF type = "DISCONNECTED" /\ p # Server THEN Continue(p) ELSE Return(p)
  /\ UNCHANGED <<held, events, cqVars, link, serving, posted>>

-----------------------------------------------------------------------------
(***************************************************************************)
(* A remote write is posted, not signaled and never polled for: when the   *)
(* send queue is full every further one fails (ret == 12).                 *)
(***************************************************************************)
\* mutant: as if slots came back
StartRemoteWriteAnyway(c) ==
  /\ IsSetUp(c)
  /\ at[c] = Len(ClientSetup) + 1
  /\ posted' = [posted EXCEPT ![c] = @ + 1]
  /\ UNCHANGED <<at, status, held, events, cqVars, link, serving>>

StartRemoteWrite(c) ==
  /\ IsSetUp(c)
  /\ at[c] = Len(ClientSetup) + 1
  /\ posted[c] < SendQueue
  /\ posted' = [posted EXCEPT ![c] = @ + 1]
  /\ UNCHANGED <<at, status, held, events, cqVars, link, serving>>

-----------------------------------------------------------------------------
(***************************************************************************)
(* The connection manager and the programs.                                *)
(***************************************************************************)
Handshake(c) ==
  /\ link[c] = "accepted"
  /\ link' = [link EXCEPT ![c] = "up"]
  /\ events' = [events EXCEPT ![c] = Append(@, Event("ESTABLISHED", c)),
                              ![Server] = Append(@, Event("ESTABLISHED", c))]
  /\ UNCHANGED <<at, status, held, cqVars, serving, posted>>

Timeout(c) ==
  /\ MayFail
  /\ link[c] = "requested"
  /\ link' = [link EXCEPT ![c] = "down"]
  /\ events' = [events EXCEPT ![c] = Append(@, Event("UNREACHABLE", c))]
  /\ UNCHANGED <<at, status, held, cqVars, serving, posted>>

\* Bound of the model: at a connected client with no event waiting.
RemoveAdapter(c) ==
  /\ MayRemove
  /\ IsSetUp(c)
  /\ at[c] <= Len(ClientSetup) + 2
  /\ events[c] = << >>
  /\ events' = [events EXCEPT ![c] = Append(@, Event("DEVICE_REMOVAL", c))]
  /\ UNCHANGED <<at, status, held, cqVars, link, serving, posted>>

Exit(p) ==
  /\ status[p] = "failed" \/ (MayFail /\ status[p] = "ok")
  /\ End(p)

Step(p) ==
  \/ CreateObject(p) \/ DestroyObject(p)
  \/ CallFails(p) \/ Prepare(p) \/ PostRecv(p) \/ PostSend(p) \/ ReapCompletions(p)
  \/ ExpectedEvent(p) \/ UnexpectedEvent(p) \/ NoEvent(p)

ClientCall(c) == Step(c) \/ Resolve(c) \/ Connect(c) \/ Disconnect(c)
ServerCall    == Step(Server) \/ Accept \/ RegisterCrash

Next ==
  \/ ServerCall
  \/ \E c \in Client : ClientCall(c) \/ StartRemoteWrite(c)
  \/ \E c \in Client : Handshake(c) \/ Timeout(c) \/ RemoveAdapter(c)
  \/ \E p \in Peer : Exit(p)

Spec == Init /\ [][Next]_vars

\* The programs go on calling, the connection manager completes a handshake.
Fairness ==
  /\ WF_vars(ServerCall)
  /\ \A c \in Client : WF_vars(ClientCall(c)) /\ WF_vars(Handshake(c))

FairSpec == Spec /\ Fairness

-----------------------------------------------------------------------------
(***************************************************************************)
(* A client that is set up and connected may write at any time: the server *)
(* serves it and no other, and the buffer it was told of is registered     *)
(* until the server knows that the client has disconnected.                *)
(***************************************************************************)
RemoteWriteSafe ==
  \A c \in Client :
    IsSetUp(c) /\ link[c] = "up" => serving = c /\ "server_buffer_mr" \in held[Server]

(***************************************************************************)
(* After a set-up without an error, a clean-up that runs to its end leaves *)
(* nothing behind, though it goes on after errors of its own: every object *)
(* is destroyed after the last one that uses it.                           *)
(***************************************************************************)
CleanLeavesNothing == \A p \in Peer : IsCleaned(p) => held[p] = {}

(***************************************************************************)
(* The inductive invariant.  A call was done when the process is past it.  *)
(***************************************************************************)
Before(p)     == {Program(p)[i] : i \in 1 .. at[p] - 1}
Done(p, call) == call \in Before(p)

\* A connection request brings its cm_client_id with it.
Makes(call, obj) == call = Create(obj) \/ (obj = "id" /\ call = Await("CONNECT_REQUEST"))

(***************************************************************************)
(* A process holds what it made and has not come to destroy: a method that *)
(* fails to make something does not go on, and no destroy fails.           *)
(***************************************************************************)
Holding(p) ==
  {obj \in Object : (\E call \in Before(p) : Makes(call, obj)) /\ ~Done(p, Destroy(obj))}

HeldInv == \A p \in Peer : held[p] = Holding(p)

(***************************************************************************)
(* Only the client the server serves is connected, a connection that ended *)
(* stays so, and the server learns of its end only afterwards.             *)
(***************************************************************************)
Queued(type, p) == \E i \in 1 .. Len(events[p]) : events[p][i].type = type

ConnectionInv ==
  /\ \A c \in Client :
       /\ link[c] \in {"accepted", "up"} => serving = c /\ Done(Server, Call("accept"))
       /\ link[c] # "none" => Done(c, Call("connect")) \/ status[c] = "gone"
  /\ Done(Server, Await("DISCONNECTED")) \/ Queued("DISCONNECTED", Server) =>
       Done(Server, Call("accept")) /\ serving \in Client /\ link[serving] = "down"

(***************************************************************************)
(* A client's good completions are its own send and the metadata of the    *)
(* server: it cannot have both before the server has sent.                 *)
(***************************************************************************)
One(b) == IF b THEN 1 ELSE 0

ExchangeInv ==
  \A c \in Client :
    IF Done(c, Reap(2))
    THEN Done(Server, Call("post_send"))
    ELSE good[c] <= One(Done(c, Call("post_send"))) + One(Done(Server, Call("post_send")))

OsIInv == OsTypeOK /\ HeldInv /\ ConnectionInv /\ ExchangeInv

(***************************************************************************)
(* Whatever fails, the server's buffer is lent to one client, once: not    *)
(* before it is registered, and it is released only after the connection   *)
(* has ended.                                                              *)
(***************************************************************************)
Lent(c) == Done(c, Reap(2)) /\ link[c] = "up"
Over    == Done(Server, Call("accept")) /\ serving \in Client /\ link[serving] = "down"

BufferState ==
  IF "server_buffer_mr" \in held[Server] THEN "registered"
  ELSE IF Done(Server, Destroy("server_buffer_mr")) THEN "released" ELSE "none"

Lessees == {c \in Client : Lent(c)}

Lease == INSTANCE BufferLease WITH
           buffer  <- BufferState,
           lessees <- Lessees,
           over    <- Over

ImplementsLease == Lease!Spec

(***************************************************************************)
(* If nothing fails, somebody who asks for a connection is served to the   *)
(* end.  ("backlog = 8 clients")                                           *)
(***************************************************************************)
SessionCompletes ==
  (\E c \in Client : link[c] = "requested")
    ~> (\E c \in Client : IsCleaned(c) /\ IsCleaned(Server))
=============================================================================
