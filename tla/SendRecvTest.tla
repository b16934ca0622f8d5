---------------------------- MODULE SendRecvTest ----------------------------
(***************************************************************************)
(* The pair of test programs: test_send.cpp fills the buffer of one link   *)
(* again and again, test_recv.cpp prints what arrives at its other end.    *)
(* Message k is the k-th fill; both halves of a buffer filled by it are k. *)
(* Unlike the training cluster nothing but the link itself paces the two   *)
(* programs.  getchar() after each fill delays the sender by any time.     *)
(***************************************************************************)
EXTENDS TwoSidedLink

CONSTANT MaxSends          \* bound of the model: fills of the sender

ASSUME MaxSendsAssumption == MaxSends \in Nat

VARIABLES
  to_send_counter,  \* test_send: fills so far
  sender,           \* where test_send's main is
  read_counter,     \* test_recv: messages printed
  reader,           \* where test_recv's main is
  printed           \* the halves of the last message printed

testVars == <<to_send_counter, sender, read_counter, reader, printed>>
vars     == <<linkVars, testVars>>

TestTypeOK ==
  /\ LinkTypeOK
  /\ to_send_counter \in [Link -> Nat]
  /\ sender \in [Link -> {"check", "copy"}]
  /\ read_counter \in [Link -> Nat]
  /\ reader \in [Link -> {"wait", "copy", "release"}]
  /\ printed \in [Link -> [Part -> Content]]

Init ==
  /\ LinkInit(TRUE)
  /\ to_send_counter = [l \in Link |-> 0]
  /\ sender = [l \in Link |-> "check"]
  /\ read_counter = [l \in Link |-> 0]
  /\ reader = [l \in Link |-> "wait"]
  /\ printed = [l \in Link |-> Blank]

-----------------------------------------------------------------------------
\* mutant: one fill of slack
TestCanSendAhead(l) == ~(to_send_counter[l] > buf_write_counter[l] + 1)

TestCanSend(l) == ~(to_send_counter[l] > buf_write_counter[l])

SendFirstHalf(l) ==
  /\ sender[l] = "check"
  /\ to_send_counter[l] < MaxSends
  /\ ClientRegistered(l)
  /\ TestCanSend(l)
  /\ FillP(l, to_send_counter[l])
  /\ sender' = [sender EXCEPT ![l] = "copy"]
  /\ UNCHANGED <<to_send_counter, read_counter, reader, printed>>

SendSecondHalf(l) ==
  /\ sender[l] = "copy"
  /\ FillQAndOffer(l, to_send_counter[l])
  /\ to_send_counter' = [to_send_counter EXCEPT ![l] = @ + 1]
  /\ sender' = [sender EXCEPT ![l] = "check"]
  /\ UNCHANGED <<read_counter, reader, printed>>

Sender(l) == SendFirstHalf(l) \/ SendSecondHalf(l)

-----------------------------------------------------------------------------
\* mutant: > for >=
TestCanReadAgain(l) == ~(read_counter[l] > buf_recv_counter[l])

TestCanRead(l) == ~(read_counter[l] >= buf_recv_counter[l])

ReadFirstHalf(l) ==
  /\ reader[l] = "wait"
  /\ ServerRegistered(l)
  /\ TestCanRead(l)
  /\ printed' = [printed EXCEPT ![l]["P"] = rbuf[l]["P"]]
  /\ reader' = [reader EXCEPT ![l] = "copy"]
  /\ UNCHANGED <<to_send_counter, sender, read_counter, linkVars>>

ReadSecondHalf(l) ==
  /\ reader[l] = "copy"
  /\ printed' = [printed EXCEPT ![l]["Q"] = rbuf[l]["Q"]]
  /\ read_counter' = [read_counter EXCEPT ![l] = @ + 1]
  /\ reader' = [reader EXCEPT ![l] = "release"]
  /\ UNCHANGED <<to_send_counter, sender, linkVars>>

ReadRelease(l) ==
  /\ reader[l] = "release"
  /\ Release(l)
  /\ reader' = [reader EXCEPT ![l] = "wait"]
  /\ UNCHANGED <<to_send_counter, sender, read_counter, printed>>

Reader(l) == ReadFirstHalf(l) \/ ReadSecondHalf(l) \/ ReadRelease(l)

-----------------------------------------------------------------------------
LinkStep(l) ==
  /\ ClientStep(l) \/ ServerStep(l) \/ NicStep(l)
  /\ UNCHANGED testVars

Next == \E l \in Link : Sender(l) \/ Reader(l) \/ LinkStep(l)

Spec == Init /\ [][Next]_vars

\* The threads, pollers and adapters of both programs keep running.
Fairness ==
  \A l \in Link :
    /\ WF_vars(Sender(l))
    /\ WF_vars(Reader(l))
    /\ WF_vars(ClientStep(l) /\ UNCHANGED testVars)
    /\ WF_vars(ServerStep(l) /\ UNCHANGED testVars)
    /\ WF_vars(NicStep(l) /\ UNCHANGED testVars)

FairSpec == Spec /\ Fairness

-----------------------------------------------------------------------------
(***************************************************************************)
(* The inductive invariant: each fill but a pending one is written, the    *)
(* sender copies only while the client's poller has nothing to send and    *)
(* nothing to clear, and the reader a message it has not printed.          *)
(***************************************************************************)
TestIInv ==
  /\ TestTypeOK
  /\ OneTurn
  /\ PostedInv
  /\ \A l \in Link :
       /\ to_send_counter[l] = Written(l) + One(Pending(l))
       /\ sender[l] = "copy" => ~can_send[l] /\ cpc[l] # "posted"
       /\ reader[l] = "copy" => read_counter[l] < buf_recv_counter[l]

(***************************************************************************)
(* Each write carries a fill of its own: the sender is never more than one *)
(* fill ahead of the poller, and the poller never sends a buffer twice.    *)
(***************************************************************************)
OneWritePerFill ==
  \A l \in Link : to_send_counter[l] \in {Written(l), Written(l) + 1}

(***************************************************************************)
(* The four threads and the adapter pass the messages on one by one, though*)
(* no two of them share a lock: nothing is filled in over a message that   *)
(* is not posted, no write is posted before the one before has arrived, and*)
(* the reader counts no message that has not.                              *)
(***************************************************************************)
Messages == INSTANCE Relay WITH
              filled  <- to_send_counter,
              sent    <- [l \in Link |-> Written(l)],
              arrived <- [l \in Link |-> Delivered(l)],
              read    <- read_counter

ImplementsRelay == Messages!Spec

(***************************************************************************)
(* Every fill is announced to the reader: unlike rdma_sendTd, which does   *)
(* not look at buf_write_counter, test_send cannot lose one.               *)
(***************************************************************************)
EveryFillDelivered ==
  \A l \in Link : \A k \in 1 .. MaxSends :
    to_send_counter[l] = k ~> buf_recv_counter[l] >= k

(***************************************************************************)
(* The receive buffer is overwritten only after its content was read ("this*)
(* buf I have read it, so please prepare new buf content").                *)
(***************************************************************************)
ReadBeforeOverwrite ==
  \A l \in Link :
    dma[l] = "half" => Delivered(l) = read_counter[l] /\ reader[l] # "copy"
=============================================================================
