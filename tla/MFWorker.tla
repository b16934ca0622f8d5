------------------------------ MODULE MFWorker ------------------------------
(***************************************************************************)
(* The workers (worker.cu): each has a main thread that trains, a send and *)
(* a receive thread, sharing the counters and the one pair of blocks       *)
(* without a lock.  main's iter_t is completed_iter + 1 wherever another   *)
(* thread runs.                                                            *)
(***************************************************************************)
EXTENDS Topology

VARIABLES
  wkUp,             \* wkUp[w]: the process runs
  wk_completed_iter,\* completed_iter of worker w
  recved_age,       \* the last round received
  to_send_age,      \* the next round to send
  wkBlock,          \* Pblock and Qblock
  wkMain,           \* where main is
  wkSend,           \* where rdma_sendTd is
  wkRecv            \* where rdma_recvTd is

wkVars == <<wkUp, wk_completed_iter, recved_age, to_send_age, wkBlock, wkMain, wkSend, wkRecv>>

WkTypeOK ==
  /\ wkUp \in [Worker -> BOOLEAN]
  /\ wk_completed_iter \in [Worker -> Nat \cup {-1}]
  /\ recved_age \in [Worker -> Nat \cup {-1}]
  /\ to_send_age \in [Worker -> Nat]
  /\ wkBlock \in [Worker -> [Part -> Content]]
  /\ wkMain \in [Worker -> {"check", "train"}]
  /\ wkSend \in [Worker -> {"check", "copy"}]
  /\ wkRecv \in [Worker -> {"wait", "copy", "release"}]

WkInit ==
  /\ wkUp = [w \in Worker |-> TRUE]
  /\ wk_completed_iter = [w \in Worker |-> -1]
  /\ recved_age = [w \in Worker |-> -1]
  /\ to_send_age = [w \in Worker |-> 0]
  /\ wkBlock = [w \in Worker |-> Blank]
  /\ wkMain = [w \in Worker |-> "check"]
  /\ wkSend = [w \in Worker |-> "check"]
  /\ wkRecv = [w \in Worker |-> "wait"]

-----------------------------------------------------------------------------
(***************************************************************************)
(* main.  FakeSubMF changes elements of both blocks; it adds one update to *)
(* what each block carries.                                                *)
(***************************************************************************)
\* mutant: the condition of the commented-out line, rounds run ahead
CanComputeAhead(coming_iter, age) == age >= 0 /\ coming_iter <= age + 2

CanCompute(coming_iter, age) == coming_iter <= age

Trained(content) == IF content = NoData THEN NoData ELSE content + 1

WkTrainP(w) ==
  /\ wkMain[w] = "check"
  /\ CanCompute(wk_completed_iter[w] + 1, recved_age[w])
  /\ wkBlock' = [wkBlock EXCEPT ![w]["P"] = Trained(@)]
  /\ wkMain' = [wkMain EXCEPT ![w] = "train"]
  /\ UNCHANGED wk_completed_iter

WkTrainQ(w) ==
  /\ wkMain[w] = "train"
  /\ wkBlock' = [wkBlock EXCEPT ![w]["Q"] = Trained(@)]
  /\ wk_completed_iter' = [wk_completed_iter EXCEPT ![w] = @ + 1]
  /\ wkMain' = [wkMain EXCEPT ![w] = "check"]

WkMainThread(w) ==
  /\ WkTrainP(w) \/ WkTrainQ(w)
  /\ UNCHANGED <<wkUp, recved_age, to_send_age, wkSend, wkRecv, linkVars>>

-----------------------------------------------------------------------------
(***************************************************************************)
(* rdma_sendTd.  Unlike the parameter server's it does not wait for        *)
(* buf_registered: c_ctx.buffer is a null pointer until client_on_pre_conn *)
(* has run, and the first memcpy then ends the process.                    *)
(***************************************************************************)
\* mutant: send a round before it is trained
WkCanSendEarly(to_send, completed_age) == to_send <= completed_age + 1

WkCanSend(to_send, completed_age) == to_send = completed_age

WkSendP(w) ==
  /\ wkSend[w] = "check"
  /\ WkCanSend(to_send_age[w], wk_completed_iter[w])
  /\ ClientRegistered(Up(w))
  /\ FillP(Up(w), wkBlock[w]["P"])
  /\ wkSend' = [wkSend EXCEPT ![w] = "copy"]
  /\ UNCHANGED <<wkUp, to_send_age>>

WkSendCrash(w) ==
  /\ wkSend[w] = "check"
  /\ WkCanSend(to_send_age[w], wk_completed_iter[w])
  /\ ~ClientRegistered(Up(w))
  /\ wkUp' = [wkUp EXCEPT ![w] = FALSE]
  /\ UNCHANGED <<wkSend, to_send_age, linkVars>>

WkSendQ(w) ==
  /\ wkSend[w] = "copy"
  /\ FillQAndOffer(Up(w), wkBlock[w]["Q"])
  /\ to_send_age' = [to_send_age EXCEPT ![w] = @ + 1]
  /\ wkSend' = [wkSend EXCEPT ![w] = "check"]
  /\ UNCHANGED wkUp

WkSendThread(w) ==
  /\ WkSendP(w) \/ WkSendCrash(w) \/ WkSendQ(w)
  /\ UNCHANGED <<wk_completed_iter, recved_age, wkBlock, wkMain, wkRecv>>

-----------------------------------------------------------------------------
(***************************************************************************)
(* rdma_recvTd.                                                            *)
(***************************************************************************)
WkCanRecv(w) == ~(recved_age[w] + 1 >= buf_recv_counter[Down(w)])

WkRecvP(w) ==
  /\ wkRecv[w] = "wait"
  /\ ServerRegistered(Down(w))
  /\ WkCanRecv(w)
  /\ wkBlock' = [wkBlock EXCEPT ![w]["P"] = rbuf[Down(w)]["P"]]
  /\ wkRecv' = [wkRecv EXCEPT ![w] = "copy"]
  /\ UNCHANGED <<recved_age, linkVars>>

WkRecvQ(w) ==
  /\ wkRecv[w] = "copy"
  /\ wkBlock' = [wkBlock EXCEPT ![w]["Q"] = rbuf[Down(w)]["Q"]]
  /\ recved_age' = [recved_age EXCEPT ![w] = @ + 1]
  /\ wkRecv' = [wkRecv EXCEPT ![w] = "release"]
  /\ UNCHANGED linkVars

\* mutant: can_recv is not set
WkRecvKeep(w) ==
  /\ wkRecv[w] = "release"
  /\ wkRecv' = [wkRecv EXCEPT ![w] = "wait"]
  /\ UNCHANGED <<recved_age, wkBlock, linkVars>>

WkRecvRelease(w) ==
  /\ wkRecv[w] = "release"
  /\ Release(Down(w))
  /\ wkRecv' = [wkRecv EXCEPT ![w] = "wait"]
  /\ UNCHANGED <<recved_age, wkBlock>>

WkRecvThread(w) ==
  /\ WkRecvP(w) \/ WkRecvQ(w) \/ WkRecvRelease(w)
  /\ UNCHANGED <<wkUp, wk_completed_iter, to_send_age, wkMain, wkSend>>
=============================================================================
