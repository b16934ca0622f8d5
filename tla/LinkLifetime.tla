---------------------------- MODULE LinkLifetime ----------------------------
(***************************************************************************)
(* The life of a server port of the two-sided link: client processes come, *)
(* write, and end at any moment; the server (test_recv with its            *)
(* RdmaTwoSidedServerOp) stays.  Three threads of the server share one     *)
(* struct conn_context without a lock: the event loop of rc_server_loop,   *)
(* which allocates and frees the buffer, the completion-queue poller, and  *)
(* the reader.  can_recv, true in test_recv from the start, stops nobody.  *)
(*                                                                         *)
(* A client process connects once; a restarted one is the next client.     *)
(* What server_on_pre_conn allocates and registers for client c (buffer    *)
(* and msg, each with its memory region) is named c.                       *)
(***************************************************************************)
EXTENDS Integers, Sequences

CONSTANTS
  Client,      \* the client processes
  None,        \* no client, no allocation
  MaxWrites    \* bound: writes of one client

ASSUME LifetimeAssumption == None \notin Client /\ MaxWrites \in Nat

VARIABLES
  client,           \* client[c]: what became of the process and its connection
  turn,             \* turn[c]: the server's last SEND is in flight or was taken
  posted,           \* posted[c]: a write is posted and not executed
  writes,           \* writes[c]: writes posted so far
  server,           \* the server process
  events,           \* connection-manager events queued for the event loop
  freeing,          \* whose DISCONNECTED is half handled
  qp,               \* qp[c]: the server's queue pair of the connection
  told,             \* told[c]: the allocation MSG_MR named to the client
  buffer,           \* the allocation ctx->buffer and ctx->msg point to
  live,             \* the allocations not freed
  cq,               \* cq[c]: completions of connection c in the server's queue
  poller,           \* what server_poll_cq is doing, and for which connection
  buf_recv_counter, \* conn_context.buf_recv_counter
  reader,           \* where main of test_recv is
  read_counter,     \* its count of messages read
  alone,            \* history: each client started after the one before was gone
  quiet             \* history: each client ended with its last message answered and read

cliVars  == <<client, turn, posted, writes>>
connVars == <<freeing, qp, told, buffer, live>>
pollVars == <<cq, poller, buf_recv_counter>>
readVars == <<reader, read_counter>>
histVars == <<alone, quiet>>
vars == <<cliVars, server, events, connVars, pollVars, readVars, histVars>>

Maybe == Client \cup {None}
Event == {"request", "established", "rejected", "disconnected"} \X Client

LlTypeOK ==
  /\ client \in [Client -> {"off", "connecting", "up", "ended", "gone", "cut"}]
  /\ turn \in [Client -> {"none", "sent", "taken"}]
  /\ posted \in [Client -> BOOLEAN]
  /\ writes \in [Client -> 0 .. MaxWrites]
  /\ server \in {"down", "listening", "dead"}
  /\ events \in Seq(Event)
  /\ freeing \in Maybe
  /\ qp \in [Client -> {"none", "up", "destroyed"}]
  /\ told \in [Client -> Maybe]
  /\ buffer \in Maybe
  /\ live \subseteq Client
  /\ cq \in [Client -> Seq({"write", "failed"})]
  /\ poller \in {"idle", "polled", "counted"} \X Maybe
  /\ buf_recv_counter \in Nat
  /\ reader \in {"wait", "read"}
  /\ read_counter \in Nat
  /\ alone \in BOOLEAN
  /\ quiet \in BOOLEAN

Init ==
  /\ client = [c \in Client |-> "off"]
  /\ turn = [c \in Client |-> "none"]
  /\ posted = [c \in Client |-> FALSE]
  /\ writes = [c \in Client |-> 0]
  /\ server = "down"
  /\ events = <<>>
  /\ freeing = None
  /\ qp = [c \in Client |-> "none"]
  /\ told = [c \in Client |-> None]
  /\ buffer = None
  /\ live = {}
  /\ cq = [c \in Client |-> <<>>]
  /\ poller = <<"idle", None>>
  /\ buf_recv_counter = 0
  /\ reader = "wait"
  /\ read_counter = 0
  /\ alone = TRUE
  /\ quiet = TRUE

Running == server = "listening"

(***************************************************************************)
(* rc_die, a signal or an abort: TEST_NZ, a null queue pair, a read of     *)
(* unmapped memory and a second free all end the process.                  *)
(***************************************************************************)
Die ==
  /\ server' = "dead"
  /\ UNCHANGED <<cliVars, connVars, pollVars, readVars, histVars>>

-----------------------------------------------------------------------------
(***************************************************************************)
(* A client process.  Its poller handles a message by waiting for the      *)
(* application's can_send and posting one write.                           *)
(***************************************************************************)
\* The process has ended or never had a connection, and the server has no
\* more to do with it.
Gone(c) ==
  \/ client[c] = "off"
  \/ client[c] = "gone" /\ qp[c] # "up" /\ freeing # c

\* A server that does not listen yet answers REJECTED, an "unknown event" on which
\* client_event_loop ends the process.
ClientStart(c) ==
  /\ client[c] = "off"
  /\ client' = [client EXCEPT ![c] = IF server = "down" THEN "gone" ELSE "connecting"]
  /\ events' = IF Running THEN Append(events, <<"request", c>>) ELSE events
  /\ alone' = (alone /\ \A d \in Client \ {c} : Gone(d))
  /\ UNCHANGED <<turn, posted, writes, server, connVars, pollVars, readVars, quiet>>

\* The same for a server that has stopped.
ClientRejected(c) ==
  /\ client[c] = "connecting"
  /\ ~Running
  /\ client' = [client EXCEPT ![c] = "gone"]
  /\ UNCHANGED <<turn, posted, writes, server, events, connVars, pollVars, readVars, histVars>>

ClientTake(c) ==
  /\ client[c] = "up"
  /\ turn[c] = "sent"
  /\ turn' = [turn EXCEPT ![c] = "taken"]
  /\ UNCHANGED <<client, posted, writes, server, events, connVars, pollVars, readVars, histVars>>

ClientWrite(c) ==
  /\ client[c] = "up"
  /\ turn[c] = "taken"
  /\ writes[c] < MaxWrites
  /\ turn' = [turn EXCEPT ![c] = "none"]
  /\ posted' = [posted EXCEPT ![c] = TRUE]
  /\ writes' = [writes EXCEPT ![c] = @ + 1]
  /\ UNCHANGED <<client, server, events, connVars, pollVars, readVars, histVars>>

\* The process ends, at any moment: what it had posted is not executed any more.
ClientEnd(c) ==
  /\ client[c] \in {"connecting", "up", "cut"}
  /\ client' = [client EXCEPT ![c] = IF @ = "up" THEN "ended" ELSE "gone"]
  /\ posted' = [posted EXCEPT ![c] = FALSE]
  /\ events' = IF client[c] = "connecting" /\ Running /\ qp[c] = "up"
                 THEN Append(events, <<"rejected", c>>) ELSE events
  /\ quiet' = /\ quiet
              /\ client[c] = "up" /\ turn[c] = "taken"
              /\ cq[c] = <<>> /\ poller[2] # c
              /\ reader = "wait" /\ read_counter = buf_recv_counter
  /\ UNCHANGED <<turn, writes, server, connVars, pollVars, readVars, alone>>

\* The server's death reaches the client as DISCONNECTED: client_event_loop destroys
\* the queue pair and returns, poller and application go on.
ClientCut(c) ==
  /\ client[c] = "up"
  /\ server = "dead"
  /\ client' = [client EXCEPT ![c] = "cut"]
  /\ posted' = [posted EXCEPT ![c] = FALSE]
  /\ UNCHANGED <<turn, writes, server, events, connVars, pollVars, readVars, histVars>>

\* A poller that was waiting for can_send then posts to the destroyed queue pair.
ClientCutWrite(c) ==
  /\ client[c] = "cut"
  /\ turn[c] = "taken"
  /\ client' = [client EXCEPT ![c] = "gone"]
  /\ UNCHANGED <<turn, posted, writes, server, events, connVars, pollVars, readVars, histVars>>

ClientStep(c) ==
  \/ ClientRejected(c)
  \/ ClientTake(c)
  \/ ClientWrite(c)
  \/ ClientCut(c)
  \/ ClientCutWrite(c)

-----------------------------------------------------------------------------
(***************************************************************************)
(* The event loop of rc_server_loop, one action per event, DISCONNECTED in *)
(* two: the queue pair is destroyed, and only then the memory freed.       *)
(***************************************************************************)
NextEvent(kind, c) ==
  /\ Running
  /\ freeing = None
  /\ events # <<>>
  /\ Head(events) = <<kind, c>>
  /\ events' = Tail(events)

Listen ==
  /\ server = "down"
  /\ server' = "listening"
  /\ UNCHANGED <<cliVars, events, connVars, pollVars, readVars, histVars>>

\* mutant: the count of messages starts anew
PreConnResets(c) ==
  /\ buffer' = c
  /\ live' = live \cup {c}
  /\ buf_recv_counter' = 0

ServerOnPreConn(c) ==
  /\ buffer' = c
  /\ live' = live \cup {c}
  /\ UNCHANGED buf_recv_counter

\* rdma_accept fails when the client has given up.
OnConnectRequest(c) ==
  /\ NextEvent("request", c)
  /\ \/ /\ client[c] = "connecting"
        /\ qp' = [qp EXCEPT ![c] = "up"]
        /\ ServerOnPreConn(c)
        /\ UNCHANGED <<cliVars, server, freeing, told, cq, poller, readVars, histVars>>
     \/ client[c] # "connecting" /\ Die

Handshake(c) ==
  /\ Running
  /\ client[c] = "connecting"
  /\ qp[c] = "up"
  /\ client' = [client EXCEPT ![c] = "up"]
  /\ events' = Append(events, <<"established", c>>)
  /\ UNCHANGED <<turn, posted, writes, server, connVars, pollVars, readVars, histVars>>

\* A SEND out of memory whose region is gone ends in a failed completion.
OnEstablished(c) ==
  /\ NextEvent("established", c)
  /\ \/ /\ buffer \in live
        /\ told' = [told EXCEPT ![c] = buffer]
        /\ turn' = [turn EXCEPT ![c] = "sent"]
        /\ UNCHANGED <<client, posted, writes, server, freeing, qp, buffer, live>>
        /\ UNCHANGED <<pollVars, readVars, histVars>>
     \/ buffer \notin live /\ Die

OnUnknownEvent(c) == NextEvent("rejected", c) /\ Die

\* The client's disconnect request arrives; it does not when its host crashed.
Notice(c) ==
  /\ Running
  /\ client[c] = "ended"
  /\ client' = [client EXCEPT ![c] = "gone"]
  /\ events' = Append(events, <<"disconnected", c>>)
  /\ UNCHANGED <<turn, posted, writes, server, connVars, pollVars, readVars, histVars>>

\* rdma_destroy_qp takes the connection's completions out of the queue.
OnDisconnected(c) ==
  /\ NextEvent("disconnected", c)
  /\ freeing' = c
  /\ qp' = [qp EXCEPT ![c] = "destroyed"]
  /\ cq' = [cq EXCEPT ![c] = <<>>]
  /\ UNCHANGED <<cliVars, server, told, buffer, live, poller, buf_recv_counter, readVars, histVars>>

\* mutant: the disconnect handler leaves the memory alone
DisconnectKeeps ==
  /\ Running
  /\ freeing # None
  /\ freeing' = None
  /\ UNCHANGED <<cliVars, server, events, qp, told, buffer, live, pollVars, readVars, histVars>>

\* mutant: exit_on_disconnect is set
DisconnectExits ==
  /\ Running
  /\ freeing # None
  /\ freeing' = None
  /\ live' = live \ {buffer}
  /\ server' = "exited"
  /\ UNCHANGED <<cliVars, events, qp, told, buffer, pollVars, readVars, histVars>>

\* What is freed is what ctx points to now; ctx keeps pointing to it.
ServerOnDisconnect ==
  /\ Running
  /\ freeing # None
  /\ UNCHANGED events
  /\ \/ /\ buffer \in live
        /\ live' = live \ {buffer}
        /\ freeing' = None
        /\ UNCHANGED <<cliVars, server, qp, told, buffer, pollVars, readVars, histVars>>
     \/ buffer \notin live /\ Die

EventLoop ==
  \/ \E c \in Client : \/ OnConnectRequest(c)
                       \/ OnEstablished(c)
                       \/ OnUnknownEvent(c)
                       \/ OnDisconnected(c)
  \/ ServerOnDisconnect

-----------------------------------------------------------------------------
(***************************************************************************)
(* The adapters.  A write to memory that is no longer registered is an     *)
(* access error on both ends; a SEND to a process that is gone fails when  *)
(* its retries are used up.                                                *)
(***************************************************************************)
Deliver(c) ==
  /\ Running
  /\ posted[c]
  /\ qp[c] = "up"
  /\ posted' = [posted EXCEPT ![c] = FALSE]
  /\ cq' = [cq EXCEPT ![c] = Append(@, IF told[c] \in live THEN "write" ELSE "failed")]
  /\ UNCHANGED <<client, turn, writes, server, events, connVars>>
  /\ UNCHANGED <<poller, buf_recv_counter, readVars, histVars>>

SendFails(c) ==
  /\ Running
  /\ client[c] \in {"ended", "gone"}
  /\ turn[c] = "sent"
  /\ qp[c] = "up"
  /\ turn' = [turn EXCEPT ![c] = "none"]
  /\ cq' = [cq EXCEPT ![c] = Append(@, "failed")]
  /\ UNCHANGED <<client, posted, writes, server, events, connVars>>
  /\ UNCHANGED <<poller, buf_recv_counter, readVars, histVars>>

-----------------------------------------------------------------------------
(***************************************************************************)
(* server_poll_cq: take a completion (between different connections in any *)
(* order); post the next receive and count; answer MSG_READY.  Between the *)
(* steps the event loop may destroy the queue pair, and posting to it ends *)
(* the process.                                                            *)
(***************************************************************************)
PollCompletion ==
  /\ Running
  /\ poller[1] = "idle"
  /\ UNCHANGED events
  /\ \E c \in Client :
       /\ cq[c] # <<>>
       /\ \/ /\ Head(cq[c]) = "write"
             /\ poller' = <<"polled", c>>
             /\ cq' = [cq EXCEPT ![c] = Tail(@)]
             /\ UNCHANGED <<cliVars, server, connVars, buf_recv_counter, readVars, histVars>>
          \/ Head(cq[c]) = "failed" /\ Die

CountMessage ==
  /\ Running
  /\ poller[1] = "polled"
  /\ UNCHANGED events
  /\ \/ /\ qp[poller[2]] = "up"
        /\ buf_recv_counter' = buf_recv_counter + 1
        /\ poller' = <<"counted", poller[2]>>
        /\ UNCHANGED <<cliVars, server, connVars, cq, readVars, histVars>>
     \/ qp[poller[2]] # "up" /\ Die

Answer ==
  /\ Running
  /\ poller[1] = "counted"
  /\ UNCHANGED events
  /\ \/ /\ qp[poller[2]] = "up"
        /\ buffer \in live
        /\ turn' = [turn EXCEPT ![poller[2]] = "sent"]
        /\ poller' = <<"idle", None>>
        /\ UNCHANGED <<client, posted, writes, server, connVars, cq>>
        /\ UNCHANGED <<buf_recv_counter, readVars, histVars>>
     \/ (qp[poller[2]] # "up" \/ buffer \notin live) /\ Die

Poller == PollCompletion \/ CountMessage \/ Answer

-----------------------------------------------------------------------------
(***************************************************************************)
(* main of test_recv: when a message is counted, print the buffer byte by  *)
(* byte.  500 MB that are freed are unmapped.                              *)
(***************************************************************************)
\* mutant: one message early
CanReadEarly == buffer # None /\ read_counter <= buf_recv_counter

CanRead == buffer # None /\ read_counter < buf_recv_counter

ReadStart ==
  /\ Running
  /\ reader = "wait"
  /\ CanRead
  /\ UNCHANGED events
  /\ \/ /\ buffer \in live
        /\ reader' = "read"
        /\ UNCHANGED <<cliVars, server, connVars, pollVars, read_counter, histVars>>
     \/ buffer \notin live /\ Die

ReadEnd ==
  /\ Running
  /\ reader = "read"
  /\ UNCHANGED events
  /\ \/ /\ buffer \in live
        /\ reader' = "wait"
        /\ read_counter' = read_counter + 1
        /\ UNCHANGED <<cliVars, server, connVars, pollVars, histVars>>
     \/ buffer \notin live /\ Die

Reader == ReadStart \/ ReadEnd

-----------------------------------------------------------------------------
Next ==
  \/ Listen
  \/ EventLoop
  \/ Poller
  \/ Reader
  \/ \E c \in Client :
       ClientStart(c) \/ ClientStep(c) \/ ClientEnd(c)
         \/ Handshake(c) \/ Notice(c) \/ Deliver(c) \/ SendFails(c)

Spec == Init /\ [][Next]_vars

(***************************************************************************)
(* Threads and adapters keep going.  Nobody has to start a process or to   *)
(* write, and the end of a client need not be noticed.                     *)
(***************************************************************************)
Fairness ==
  /\ WF_vars(EventLoop)
  /\ WF_vars(Poller)
  /\ WF_vars(Reader)
  /\ \A c \in Client :
       /\ WF_vars(ClientTake(c))
       /\ WF_vars(ClientRejected(c))
       /\ WF_vars(Handshake(c))
       /\ WF_vars(Deliver(c))

FairSpec == Spec /\ Fairness

-----------------------------------------------------------------------------
(***************************************************************************)
(* The inductive invariant, in parts.  An event is queued once, and while  *)
(* it is, the client and its queue pair are where they were when it arose. *)
(***************************************************************************)
Queued(kind, c) == \E i \in 1 .. Len(events) : events[i] = <<kind, c>>

Once == \A i, j \in 1 .. Len(events) : events[i] = events[j] => i = j

EventInv ==
  /\ Once
  /\ \A c \in Client :
       /\ Queued("request", c) => client[c] # "off" /\ qp[c] = "none"
       /\ Queued("established", c) => client[c] \notin {"off", "connecting"}
       /\ Queued("rejected", c) => client[c] = "gone"
       /\ Queued("disconnected", c) => client[c] = "gone" /\ qp[c] = "up"
       /\ client[c] = "off" => qp[c] = "none"
       /\ client[c] = "connecting" => server # "down"
       /\ client[c] \in {"up", "ended"} => qp[c] = "up"
       /\ freeing = c => client[c] = "gone" /\ qp[c] = "destroyed"

(***************************************************************************)
(* With one client at a time, the context's buffer is that client's.       *)
(***************************************************************************)
MemoryInv ==
  alone /\ server # "dead" =>
    /\ \A c, d \in Client : ~Gone(c) /\ ~Gone(d) => c = d
    /\ \A c \in Client :
         /\ qp[c] = "up" \/ freeing = c => buffer = c
         /\ c \in live => qp[c] = "up" \/ freeing = c

(***************************************************************************)
(* If besides each ends quietly, one thing at a time happens on a          *)
(* connection: the server's SEND, the client's turn, a posted write, its   *)
(* completion, the poller's answer; all but the turn end before the client.*)
(***************************************************************************)
Busy(c) == posted[c] \/ cq[c] # <<>> \/ poller[2] = c \/ turn[c] = "sent"

Tidy(c) ==
  /\ ~Queued("rejected", c)
  /\ Queued("request", c) => client[c] = "connecting"
  /\ Queued("established", c) => client[c] = "up" /\ turn[c] = "none" /\ ~Busy(c)
  /\ client[c] \in {"off", "connecting"} => turn[c] = "none"
  /\ Busy(c) => client[c] = "up"
  /\ Busy(c) \/ turn[c] = "taken" => told[c] = c
  /\ posted[c] => turn[c] = "none" /\ cq[c] = <<>> /\ poller[2] # c
  /\ cq[c] # <<>> => cq[c] = <<"write">> /\ turn[c] = "none" /\ poller[2] # c
  /\ poller[2] = c => turn[c] = "none"
  /\ qp[c] = "up" \/ freeing = c => c \in live

\* The reader is behind the counter only while a client is there.
ReadInv ==
  /\ poller[1] # "idle" => poller[2] \in Client
  /\ reader = "read" => read_counter < buf_recv_counter
  /\ read_counter <= buf_recv_counter
  /\ read_counter < buf_recv_counter => \E c \in Client : client[c] = "up"

QuietInv ==
  alone /\ quiet => server # "dead" /\ (\A c \in Client : Tidy(c)) /\ ReadInv

(***************************************************************************)
(* Between any two steps of the event loop, the poller, the reader and the *)
(* clients, what the loop has queued, what is allocated and what is under  *)
(* way agree.                                                              *)
(***************************************************************************)
LlIInv == LlTypeOK /\ EventInv /\ MemoryInv /\ QuietInv

-----------------------------------------------------------------------------
(***************************************************************************)
(* When clients come one after the other, no connection leaves its 500 MB  *)
(* behind: what is allocated is that of the connection there is, or of the *)
(* one whose end is being handled.                                         *)
(***************************************************************************)
NothingLeaks ==
  alone /\ server # "dead" => \A c \in live : qp[c] = "up" \/ freeing = c

(***************************************************************************)
(* Clients that come one after the other and end with their last message   *)
(* answered and read cannot stop the server: no failed completion, no post *)
(* to a destroyed queue pair, no read or free of freed memory.             *)
(***************************************************************************)
ServerSurvives == alone /\ quiet => server # "dead"

(***************************************************************************)
(* For such clients each one that has asked a running server, and was not  *)
(* refused, is told where to write: also the successor of one that left.   *)
(***************************************************************************)
ClientServed ==
  [](alone /\ quiet) =>
    \A c \in Client : client[c] = "connecting" ~> turn[c] = "taken"

(***************************************************************************)
(* rdma_two_sided_server_op.cpp:170 starts the loop with "don't exit on    *)
(* disconnect": clients that come one after the other and are connected    *)
(* when they end do not end the server.                                    *)
(***************************************************************************)
SurvivesDisconnect ==
  alone /\ (\A c \in Client : client[c] \in {"ended", "gone"} => told[c] # None)
    => server # "dead"
=============================================================================
