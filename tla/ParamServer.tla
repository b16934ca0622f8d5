---------------------------- MODULE ParamServer -----------------------------
(***************************************************************************)
(* The parameter server (ps.cpp): the main thread, and for every worker a  *)
(* send and a receive thread.  They share recved_iter, to_send_iter,       *)
(* completed_iter and the blocks without a lock; each access the threads   *)
(* can interleave on is a step.  main's iter_t is completed_iter + 1       *)
(* wherever another thread runs.                                           *)
(***************************************************************************)
EXTENDS Topology

CONSTANT MaxIter           \* main calls exit(0) when iter_t reaches it (1200)

ASSUME MaxIterAssumption == MaxIter \in Nat \ {0}

VARIABLES
  psUp,            \* the process runs
  started,         \* main is past getchar(): the send threads run
  completed_iter,  \* the last round main has released
  recved_iter,     \* recved_iter[w]: the last round collected from worker w
  to_send_iter,    \* to_send_iter[w]: the next round to send to worker w
  psBlocks,        \* psBlocks[w]: Pblocks[w] and Qblocks[w]
  psSend,          \* where rdma_sendTd(w) is
  psRecv           \* where rdma_recvTd(w) is

psVars == <<psUp, started, completed_iter, recved_iter, to_send_iter, psBlocks, psSend, psRecv>>

PsTypeOK ==
  /\ psUp \in BOOLEAN
  /\ started \in BOOLEAN
  /\ completed_iter \in Nat \cup {-1}
  /\ recved_iter \in [Worker -> Nat \cup {-1}]
  /\ to_send_iter \in [Worker -> Nat]
  /\ psBlocks \in [Worker -> [Part -> Content]]
  /\ psSend \in [Worker -> {"check", "copy"}]
  /\ psRecv \in [Worker -> {"wait", "copy", "release"}]

\* main fills the blocks before it releases round 0, hence before any thread
\* reads them: they start filled, with no update.
PsInit ==
  /\ psUp = TRUE
  /\ started = FALSE
  /\ completed_iter = -1
  /\ recved_iter = [w \in Worker |-> -1]
  /\ to_send_iter = [w \in Worker |-> 0]
  /\ psBlocks = [w \in Worker |-> [x \in Part |-> 0]]
  /\ psSend = [w \in Worker |-> "check"]
  /\ psRecv = [w \in Worker |-> "wait"]

-----------------------------------------------------------------------------
(***************************************************************************)
(* main.  A merge changes nothing but the round counters: the receive      *)
(* threads have already written the blocks.                                *)
(***************************************************************************)
PsStart ==
  /\ ~started
  /\ started' = TRUE
  /\ UNCHANGED <<psUp, completed_iter, recved_iter, to_send_iter, psBlocks, psSend, psRecv>>
  /\ UNCHANGED linkVars

\* mutant: one round of slack
CanMergeEarly(coming_iter) == \A w \in Worker : ~(coming_iter > recved_iter[w] + 2)

CanMerge(coming_iter) == \A w \in Worker : ~(coming_iter > recved_iter[w] + 1)

PsMerge ==
  /\ started
  /\ completed_iter + 1 < MaxIter
  /\ CanMerge(completed_iter + 1)
  /\ completed_iter' = completed_iter + 1
  /\ UNCHANGED <<psUp, started, recved_iter, to_send_iter, psBlocks, psSend, psRecv>>
  /\ UNCHANGED linkVars

PsExit ==
  /\ completed_iter + 1 = MaxIter
  /\ psUp' = FALSE
  /\ UNCHANGED <<started, completed_iter, recved_iter, to_send_iter, psBlocks, psSend, psRecv>>
  /\ UNCHANGED linkVars

-----------------------------------------------------------------------------
(***************************************************************************)
(* rdma_sendTd.                                                            *)
(***************************************************************************)
\* mutant: send the round main is still waiting for
PsCanSendEarly(to_send, completed_age) == to_send <= completed_age + 1

PsCanSend(to_send, completed_age) == to_send <= completed_age

PsSendP(w) ==
  /\ psSend[w] = "check"
  /\ ClientRegistered(Down(w))
  /\ PsCanSend(to_send_iter[w], completed_iter)
  /\ FillP(Down(w), psBlocks[w]["P"])
  /\ psSend' = [psSend EXCEPT ![w] = "copy"]
  /\ UNCHANGED to_send_iter

PsSendQ(w) ==
  /\ psSend[w] = "copy"
  /\ FillQAndOffer(Down(w), psBlocks[w]["Q"])
  /\ to_send_iter' = [to_send_iter EXCEPT ![w] = @ + 1]
  /\ psSend' = [psSend EXCEPT ![w] = "check"]

PsSendThread(w) ==
  /\ started
  /\ PsSendP(w) \/ PsSendQ(w)
  /\ UNCHANGED <<psUp, started, completed_iter, recved_iter, psBlocks, psRecv>>

-----------------------------------------------------------------------------
(***************************************************************************)
(* rdma_recvTd.  The block written is the one the buffer names; worker w   *)
(* is sent block w and returns it.                                         *)
(***************************************************************************)
\* mutant: read the buffer one message too early
PsCanRecvEarly(w) == recved_iter[w] + 1 <= buf_recv_counter[Up(w)]

PsCanRecv(w) == recved_iter[w] + 1 <= buf_recv_counter[Up(w)] - 1

PsRecvP(w) ==
  /\ psRecv[w] = "wait"
  /\ ServerRegistered(Up(w))
  /\ PsCanRecv(w)
  /\ psBlocks' = [psBlocks EXCEPT ![w]["P"] = rbuf[Up(w)]["P"]]
  /\ psRecv' = [psRecv EXCEPT ![w] = "copy"]
  /\ UNCHANGED <<recved_iter, linkVars>>

PsRecvQ(w) ==
  /\ psRecv[w] = "copy"
  /\ psBlocks' = [psBlocks EXCEPT ![w]["Q"] = rbuf[Up(w)]["Q"]]
  /\ recved_iter' = [recved_iter EXCEPT ![w] = @ + 1]
  /\ psRecv' = [psRecv EXCEPT ![w] = "release"]
  /\ UNCHANGED linkVars

PsRecvRelease(w) ==
  /\ psRecv[w] = "release"
  /\ Release(Up(w))
  /\ psRecv' = [psRecv EXCEPT ![w] = "wait"]
  /\ UNCHANGED <<recved_iter, psBlocks>>

PsRecvThread(w) ==
  /\ PsRecvP(w) \/ PsRecvQ(w) \/ PsRecvRelease(w)
  /\ UNCHANGED <<psUp, started, completed_iter, to_send_iter, psSend>>
=============================================================================
