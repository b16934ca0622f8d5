---------------------------- MODULE TwoSidedLink ----------------------------
(***************************************************************************)
(* A set of one-way RDMA links.  A link carries the content of the buffer  *)
(* of a client (RdmaTwoSidedClientOp, struct client_context) into the      *)
(* buffer of a server (RdmaTwoSidedServerOp, struct conn_context) with     *)
(* RDMA writes with immediate data; the server answers each of them with a *)
(* SEND of its struct message.                                             *)
(*                                                                         *)
(* Each end is shared by two threads without a lock: an application thread *)
(* that fills or reads the buffer, and the completion-queue poller of the  *)
(* link.  The pollers and the adapter (NIC) are modelled here, one action  *)
(* per access to a field both threads use; the application threads call    *)
(* Fill, Offer and Release and read the counters and rbuf.                 *)
(*                                                                         *)
(* A buffer holds a P block and a Q block.  A block is abstracted to the   *)
(* number of training updates its elements carry.                          *)
(***************************************************************************)
EXTENDS Integers

CONSTANT Link              \* the links

VARIABLES
  cm,                \* cm[l]: progress of the connection set-up
  sbuf,              \* client_context.buffer
  can_send,          \* client_context.can_send
  buf_write_counter, \* client_context.buf_write_counter
  cpc,               \* where the client's poller is in client_on_completion
  rbuf,              \* conn_context.buffer
  can_recv,          \* conn_context.can_recv
  buf_recv_counter,  \* conn_context.buf_recv_counter
  spc,               \* where the server's poller is in server_on_completion
  ready,             \* MSG_MR and MSG_READY sends the client has not handled
  posted,            \* RDMA writes posted to the send queue and not delivered
  dma,               \* how far the NIC is with the oldest posted write
  imm                \* the server's CQ holds a completion of a write

cliVars  == <<can_send, buf_write_counter, cpc>>
srvVars  == <<can_recv, buf_recv_counter, spc>>
nicVars  == <<posted, dma, imm>>
linkVars == <<cm, sbuf, rbuf, ready, cliVars, srvVars, nicVars>>

Part    == {"P", "Q"}
NoData  == -1                  \* memory nothing was copied to yet
Content == Nat \cup {NoData}
Blank   == [x \in Part |-> NoData]

LinkTypeOK ==
  /\ cm \in [Link -> {"new", "resolved", "accepted", "up"}]
  /\ sbuf \in [Link -> [Part -> Content]]
  /\ can_send \in [Link -> BOOLEAN]
  /\ buf_write_counter \in [Link -> Nat]
  /\ cpc \in [Link -> {"poll", "spin", "posted"}]
  /\ rbuf \in [Link -> [Part -> Content]]
  /\ can_recv \in [Link -> BOOLEAN]
  /\ buf_recv_counter \in [Link -> Nat]
  /\ spc \in [Link -> {"poll", "spin"}]
  /\ ready \in [Link -> Nat]
  /\ posted \in [Link -> Nat]
  /\ dma \in [Link -> {"idle", "half"}]
  /\ imm \in [Link -> BOOLEAN]

(***************************************************************************)
(* The contexts are globals (zero) that InitContext resets; can_recv, which*)
(* InitContext leaves alone, is set by test_recv before it starts.         *)
(***************************************************************************)
LinkInit(recvAtStart) ==
  /\ cm = [l \in Link |-> "new"]
  /\ sbuf = [l \in Link |-> Blank]
  /\ can_send = [l \in Link |-> FALSE]
  /\ buf_write_counter = [l \in Link |-> 0]
  /\ cpc = [l \in Link |-> "poll"]
  /\ rbuf = [l \in Link |-> Blank]
  /\ can_recv = [l \in Link |-> recvAtStart]
  /\ buf_recv_counter = [l \in Link |-> 0]
  /\ spc = [l \in Link |-> "poll"]
  /\ ready = [l \in Link |-> 0]
  /\ posted = [l \in Link |-> 0]
  /\ dma = [l \in Link |-> "idle"]
  /\ imm = [l \in Link |-> FALSE]

-----------------------------------------------------------------------------
(***************************************************************************)
(* Connection set-up, one action per connection-manager event that does    *)
(* something: ADDR_RESOLVED at the client, CONNECT_REQUEST and ESTABLISHED *)
(* at the server.  Bound of the model: the server's port listens when the  *)
(* client connects; LinkLifetime has the client that comes too early and   *)
(* ends (REJECTED).                                                        *)
(***************************************************************************)
ClientRegistered(l) == cm[l] # "new"               \* client_context.buf_registered
ServerRegistered(l) == cm[l] \in {"accepted", "up"} \* conn_context.buf_registered

ClientPreConn(l) ==
  /\ cm[l] = "new"
  /\ cm' = [cm EXCEPT ![l] = "resolved"]
  /\ UNCHANGED <<sbuf, rbuf, ready, cliVars, srvVars, nicVars>>

ServerPreConn(l) ==
  /\ cm[l] = "resolved"
  /\ cm' = [cm EXCEPT ![l] = "accepted"]
  /\ UNCHANGED <<sbuf, rbuf, ready, cliVars, srvVars, nicVars>>

ServerOnConnection(l) ==
  /\ cm[l] = "accepted"
  /\ cm' = [cm EXCEPT ![l] = "up"]
  /\ ready' = [ready EXCEPT ![l] = @ + 1]      \* MSG_MR
  /\ UNCHANGED <<sbuf, rbuf, cliVars, srvVars, nicVars>>

-----------------------------------------------------------------------------
(***************************************************************************)
(* The client's poller.  It handles MSG_MR and MSG_READY alike: wait for   *)
(* can_send, post the write, clear can_send, count, post a receive.  While *)
(* it does, no receive is posted and a further SEND waits (RNR retry is    *)
(* unlimited).  Completions of its own writes are ignored by the handler.  *)
(***************************************************************************)
\* mutant: any completion counts as a message
ClientOnAnyCompletion(l) ==
  /\ cpc[l] = "poll"
  /\ ready' = [ready EXCEPT ![l] = @ - 1]
  /\ cpc' = [cpc EXCEPT ![l] = "spin"]
  /\ UNCHANGED <<cm, sbuf, rbuf, can_send, buf_write_counter, srvVars, nicVars>>

ClientOnMessage(l) ==
  /\ cpc[l] = "poll"
  /\ ready[l] > 0
  /\ ready' = [ready EXCEPT ![l] = @ - 1]
  /\ cpc' = [cpc EXCEPT ![l] = "spin"]
  /\ UNCHANGED <<cm, sbuf, rbuf, can_send, buf_write_counter, srvVars, nicVars>>

ClientWriteRemote(l) ==
  /\ cpc[l] = "spin"
  /\ can_send[l]
  /\ posted' = [posted EXCEPT ![l] = @ + 1]
  /\ cpc' = [cpc EXCEPT ![l] = "posted"]
  /\ UNCHANGED <<cm, sbuf, rbuf, ready, can_send, buf_write_counter, srvVars, dma, imm>>

\* mutant: can_send is left set
ClientForgetClear(l) ==
  /\ cpc[l] = "posted"
  /\ buf_write_counter' = [buf_write_counter EXCEPT ![l] = @ + 1]
  /\ cpc' = [cpc EXCEPT ![l] = "poll"]
  /\ UNCHANGED <<cm, sbuf, rbuf, ready, can_send, srvVars, nicVars>>

ClientClear(l) ==
  /\ cpc[l] = "posted"
  /\ can_send' = [can_send EXCEPT ![l] = FALSE]
  /\ buf_write_counter' = [buf_write_counter EXCEPT ![l] = @ + 1]
  /\ cpc' = [cpc EXCEPT ![l] = "poll"]
  /\ UNCHANGED <<cm, sbuf, rbuf, ready, srvVars, nicVars>>

(***************************************************************************)
(* The NIC reads the client's buffer while the write is executed, not when *)
(* it is posted, and delivers the halves one after the other.  The         *)
(* completion takes the one receive the server has posted, so it waits     *)
(* until the poller has taken the one before.                              *)
(***************************************************************************)
NicFirstHalf(l) ==
  /\ posted[l] > 0
  /\ dma[l] = "idle"
  /\ rbuf' = [rbuf EXCEPT ![l]["P"] = sbuf[l]["P"]]
  /\ dma' = [dma EXCEPT ![l] = "half"]
  /\ UNCHANGED <<cm, sbuf, ready, cliVars, srvVars, posted, imm>>

NicSecondHalf(l) ==
  /\ dma[l] = "half"
  /\ ~imm[l]
  /\ rbuf' = [rbuf EXCEPT ![l]["Q"] = sbuf[l]["Q"]]
  /\ dma' = [dma EXCEPT ![l] = "idle"]
  /\ posted' = [posted EXCEPT ![l] = @ - 1]
  /\ imm' = [imm EXCEPT ![l] = TRUE]
  /\ UNCHANGED <<cm, sbuf, ready, cliVars, srvVars>>

(***************************************************************************)
(* The server's poller: post the next receive, count the message, wait for *)
(* can_recv, answer MSG_READY.  Nothing sets can_recv back to false.       *)
(***************************************************************************)
\* mutant: answer on arrival as well
ServerOnWriteAnswers(l) ==
  /\ spc[l] = "poll"
  /\ imm[l]
  /\ imm' = [imm EXCEPT ![l] = FALSE]
  /\ ready' = [ready EXCEPT ![l] = @ + 1]
  /\ buf_recv_counter' = [buf_recv_counter EXCEPT ![l] = @ + 1]
  /\ spc' = [spc EXCEPT ![l] = "spin"]
  /\ UNCHANGED <<cm, sbuf, rbuf, cliVars, can_recv, posted, dma>>

ServerOnWrite(l) ==
  /\ spc[l] = "poll"
  /\ imm[l]
  /\ imm' = [imm EXCEPT ![l] = FALSE]
  /\ buf_recv_counter' = [buf_recv_counter EXCEPT ![l] = @ + 1]
  /\ spc' = [spc EXCEPT ![l] = "spin"]
  /\ UNCHANGED <<cm, sbuf, rbuf, ready, cliVars, can_recv, posted, dma>>

ServerSendReady(l) ==
  /\ spc[l] = "spin"
  /\ can_recv[l]
  /\ ready' = [ready EXCEPT ![l] = @ + 1]
  /\ spc' = [spc EXCEPT ![l] = "poll"]
  /\ UNCHANGED <<cm, sbuf, rbuf, cliVars, can_recv, buf_recv_counter, nicVars>>

ClientStep(l) ==
  \/ ClientPreConn(l)
  \/ ClientOnMessage(l)
  \/ ClientWriteRemote(l)
  \/ ClientClear(l)

ServerStep(l) ==
  \/ ServerPreConn(l)
  \/ ServerOnConnection(l)
  \/ ServerOnWrite(l)
  \/ ServerSendReady(l)

NicStep(l) == NicFirstHalf(l) \/ NicSecondHalf(l)

-----------------------------------------------------------------------------
(***************************************************************************)
(* What an application thread does to the two contexts.  It copies the     *)
(* blocks one after the other and then sets the flag the poller waits for. *)
(***************************************************************************)
FillP(l, content) ==             \* memcpy of the P block into client_context.buffer
  /\ sbuf' = [sbuf EXCEPT ![l]["P"] = content]
  /\ UNCHANGED <<cm, rbuf, ready, cliVars, srvVars, nicVars>>

FillQAndOffer(l, content) ==     \* memcpy of the Q block, then can_send = true
  /\ sbuf' = [sbuf EXCEPT ![l]["Q"] = content]
  /\ can_send' = [can_send EXCEPT ![l] = TRUE]
  /\ UNCHANGED <<cm, rbuf, ready, buf_write_counter, cpc, srvVars, nicVars>>

Release(l) ==                    \* conn_context.can_recv = true
  /\ can_recv' = [can_recv EXCEPT ![l] = TRUE]
  /\ UNCHANGED <<cm, sbuf, rbuf, ready, cliVars, buf_recv_counter, spc, nicVars>>

-----------------------------------------------------------------------------
(***************************************************************************)
(* Counts of what happened on a link so far.                               *)
(***************************************************************************)
One(b) == IF b THEN 1 ELSE 0

Written(l)   == buf_write_counter[l] + One(cpc[l] = "posted")
Delivered(l) == buf_recv_counter[l] + One(imm[l])

\* An offer the poller has not taken.
Pending(l)   == can_send[l] /\ cpc[l] # "posted"

(***************************************************************************)
(* Strict alternation: once a link is up, exactly one of these holds the   *)
(* turn: an answer on its way to the client, the client's poller waiting   *)
(* for can_send, the NIC with a posted write, a completion in the server's *)
(* queue, the server's poller waiting for can_recv.  Both pollers rely on  *)
(* it: each keeps one receive posted, and the server has one struct        *)
(* message to answer with.                                                 *)
(***************************************************************************)
OneTurn ==
  \A l \in Link :
    ready[l] + One(cpc[l] = "spin") + posted[l] + One(imm[l]) + One(spc[l] = "spin")
      = One(cm[l] = "up")

(***************************************************************************)
(* What is posted is what the poller has written and the server's queue    *)
(* has not got yet; the NIC only works on a posted write.                  *)
(***************************************************************************)
PostedInv ==
  \A l \in Link :
    /\ Written(l) = Delivered(l) + posted[l]
    /\ dma[l] = "half" => posted[l] > 0
=============================================================================
