---------------------------- MODULE StellarBench ----------------------------
(***************************************************************************)
(* A training cluster: one parameter server, its workers and the links     *)
(* between them.  A step is one of a thread of a running process or of an  *)
(* adapter between two running processes.                                  *)
(***************************************************************************)
EXTENDS ParamServer, MFWorker

CONSTANTS
  OperatorWaits,  \* the operator presses Enter at the parameter server's
                  \* getchar() only when every worker has connected to it
  PollerPrompt    \* no write is answered by its completion at the other end
                  \* before the client's poller has run the statement that
                  \* follows ibv_post_send's return, can_send = false

ASSUME TimingAssumption == OperatorWaits \in BOOLEAN /\ PollerPrompt \in BOOLEAN

vars == <<linkVars, psVars, wkVars>>

Init ==
  /\ LinkInit(FALSE)
  /\ PsInit
  /\ WkInit

-----------------------------------------------------------------------------
OperatorStart ==
  /\ OperatorWaits => \A w \in Worker : ServerRegistered(Up(w))
  /\ PsStart

PsThread ==
  /\ psUp
  /\ \/ OperatorStart
     \/ PsMerge
     \/ PsExit
     \/ \E w \in Worker : PsSendThread(w) \/ PsRecvThread(w)
  /\ UNCHANGED wkVars

PsPoller ==
  /\ psUp
  /\ \E w \in Worker : (started /\ ClientStep(Down(w))) \/ ServerStep(Up(w))
  /\ UNCHANGED <<psVars, wkVars>>

WkThread(w) ==
  /\ wkUp[w]
  /\ WkMainThread(w) \/ WkSendThread(w) \/ WkRecvThread(w)
  /\ UNCHANGED psVars

WkPoller(w) ==
  /\ wkUp[w]
  /\ ClientStep(Up(w)) \/ ServerStep(Down(w))
  /\ UNCHANGED <<psVars, wkVars>>

Nic(w) ==
  /\ psUp
  /\ wkUp[w]
  /\ \E l \in {Down(w), Up(w)} :
       \/ NicFirstHalf(l)
       \/ (PollerPrompt => cpc[l] # "posted") /\ NicSecondHalf(l)
  /\ UNCHANGED <<psVars, wkVars>>

Next ==
  \/ PsThread
  \/ PsPoller
  \/ \E w \in Worker : WkThread(w) \/ WkPoller(w) \/ Nic(w)

Spec == Init /\ [][Next]_vars

(***************************************************************************)
(* A process does not stop while one of its threads can go on, nor an      *)
(* adapter with a write posted.  The code gives every thread as much, each *)
(* is a loop that sleeps and looks again; to ask it of the processes is    *)
(* enough, because no thread goes on for ever while another waits: each of *)
(* their steps brings a round forward.                                     *)
(***************************************************************************)
Fairness ==
  /\ WF_vars(PsThread \/ PsPoller)
  /\ \A w \in Worker : WF_vars(WkThread(w) \/ WkPoller(w)) /\ WF_vars(Nic(w))

FairSpec == Spec /\ Fairness

-----------------------------------------------------------------------------
TypeOK ==
  /\ LinkTypeOK
  /\ PsTypeOK
  /\ WkTypeOK

(***************************************************************************)
(* The adapter never writes a receive buffer that its reader has not       *)
(* finished with.  server_on_completion answers READY without waiting for  *)
(* the reader (can_recv is never cleared), so only the rounds keep the     *)
(* next write away from rdma_recvTd's copy.                                *)
(***************************************************************************)
NoUnreadOverwrite ==
  \A w \in Worker :
    /\ dma[Down(w)] = "half" => Delivered(Down(w)) = recved_age[w] + 1
                                /\ wkRecv[w] # "copy"
    /\ dma[Up(w)] = "half" => Delivered(Up(w)) = recved_iter[w] + 1
                              /\ psRecv[w] # "copy"

(***************************************************************************)
(* No send buffer is refilled while a write of it is posted: rdma_sendTd   *)
(* never looks whether the write before has completed.                     *)
(***************************************************************************)
NoTornSend ==
  \A w \in Worker :
    /\ psSend[w] = "copy" => posted[Down(w)] = 0
    /\ wkSend[w] = "copy" => posted[Up(w)] = 0

(***************************************************************************)
(* Each write carries a round of its own: no round is written twice, and   *)
(* none is overwritten in the send buffer before the poller has posted it. *)
(***************************************************************************)
OneWritePerRound ==
  \A w \in Worker :
    /\ to_send_iter[w] \in {Written(Down(w)), Written(Down(w)) + 1}
    /\ to_send_age[w] \in {Written(Up(w)), Written(Up(w)) + 1}

(***************************************************************************)
(* The threads that share blocks without a lock never work on them at the  *)
(* same time.                                                              *)
(***************************************************************************)
BlockRaceFree ==
  \A w \in Worker :
    /\ ~(psSend[w] = "copy" /\ psRecv[w] = "copy")
    /\ ~(wkMain[w] = "train" /\ wkRecv[w] = "copy")
    /\ ~(wkMain[w] = "train" /\ wkSend[w] = "copy")
    /\ ~(wkSend[w] = "copy" /\ wkRecv[w] = "copy")

(***************************************************************************)
(* A round trains, in both halves, on blocks that carry exactly the        *)
(* updates of the rounds before, and what the parameter server holds of a  *)
(* worker's blocks when it is not copying carries exactly the updates of   *)
(* the rounds collected: no update is lost, repeated or half applied.      *)
(***************************************************************************)
Both(n) == [x \in Part |-> n]

ExactlyOneUpdate ==
  \A w \in Worker :
    /\ wkMain[w] = "train" =>
         wkBlock[w] = [P |-> wk_completed_iter[w] + 2, Q |-> wk_completed_iter[w] + 1]
    /\ psRecv[w] # "copy" => psBlocks[w] = Both(recved_iter[w] + 1)

(***************************************************************************)
(* rdma_sendTd sends a round only while to_send_age = completed_iter: if   *)
(* main finished two rounds between two looks, the equality would never    *)
(* hold again and the worker would never send again.                       *)
(***************************************************************************)
SendNeverSkipped ==
  \A w \in Worker : to_send_age[w] >= wk_completed_iter[w]

(***************************************************************************)
(* A worker that dies for want of a send buffer has returned nothing, and  *)
(* the barrier holds the others in the first round.                        *)
(***************************************************************************)
CrashHoldsBarrier ==
  \A w \in Worker : ~wkUp[w] => recved_iter[w] = -1 /\ completed_iter <= 0

(***************************************************************************)
(* exit(0) comes as soon as the last round is released, whatever its       *)
(* threads are doing: every round has been released and every round but    *)
(* that one collected from every worker, so at most the last one is lost.  *)
(***************************************************************************)
ExitLosesOnlyLastRound ==
  ~psUp => completed_iter = MaxIter - 1 /\ \A w \in Worker : recved_iter[w] >= MaxIter - 2

(***************************************************************************)
(* No worker dies copying into a send buffer that is not there yet.        *)
(***************************************************************************)
NoCrash == \A w \in Worker : wkUp[w]

-----------------------------------------------------------------------------
(***************************************************************************)
(* The inductive invariant.  Each stage of the pipeline is at most as far  *)
(* as the stage before it, a thread in the middle of a copy or a training  *)
(* strictly so, and the first stage, the release, is at most one round     *)
(* ahead of the last, the collection.                                      *)
(***************************************************************************)
PsRounds(w) ==
  /\ completed_iter <= recved_iter[w] + 1
  /\ to_send_iter[w] <= completed_iter + 1
  /\ psSend[w] = "copy" => to_send_iter[w] <= completed_iter
  /\ recved_iter[w] + 1 <= buf_recv_counter[Up(w)]
  /\ psRecv[w] = "copy" => recved_iter[w] + 2 <= buf_recv_counter[Up(w)]

WkRounds(w) ==
  /\ recved_age[w] + 1 <= buf_recv_counter[Down(w)]
  /\ wkRecv[w] = "copy" => recved_age[w] + 2 <= buf_recv_counter[Down(w)]
  /\ wk_completed_iter[w] <= recved_age[w]
  /\ wkMain[w] = "train" => wk_completed_iter[w] + 1 <= recved_age[w]
  /\ to_send_age[w] <= wk_completed_iter[w] + 1
  /\ wkSend[w] = "copy" => to_send_age[w] <= wk_completed_iter[w]

\* offers: fills the application has offered on the link
OfferInv(l, offers) ==
  /\ Written(l) <= offers
  /\ Pending(l) => Written(l) < offers

Rounds ==
  \A w \in Worker :
    /\ PsRounds(w)
    /\ WkRounds(w)
    /\ OfferInv(Down(w), to_send_iter[w])
    /\ OfferInv(Up(w), to_send_age[w])

IInv == TypeOK /\ OneTurn /\ PostedInv /\ Rounds

(***************************************************************************)
(* What start-up adds to it: nothing arrives before the connection is up,  *)
(* a worker dies only before its send buffer is registered, and no round   *)
(* is released before the operator pressed Enter.                          *)
(***************************************************************************)
StartUp ==
  /\ \A l \in Link : cm[l] # "up" => buf_recv_counter[l] = 0
  /\ \A w \in Worker : ~wkUp[w] => ~ClientRegistered(Up(w))
  /\ ~started => completed_iter = -1
  /\ OperatorWaits => NoCrash /\ (started => \A w \in Worker : ServerRegistered(Up(w)))

-----------------------------------------------------------------------------
(***************************************************************************)
(* The updates every block and buffer carries, in terms of the counters:   *)
(* what ExactlyOneUpdate needs to be inductive.  A buffer's halves differ  *)
(* only while a thread or the adapter is between them.                     *)
(***************************************************************************)
Carries(block, p, q) == block["P"] = p /\ block["Q"] = q

PsContents(w) ==
  LET collected == recved_iter[w] + 1
  IN  /\ psRecv[w] # "copy" => Carries(psBlocks[w], collected, collected)
      /\ psRecv[w] = "copy" => Carries(psBlocks[w], collected + 1, collected)

WkContents(w) ==
  LET trained == wk_completed_iter[w] + 1
  IN  /\ wkRecv[w] = "copy" => wkBlock[w]["P"] = trained
      /\ wkMain[w] = "train" => Carries(wkBlock[w], trained + 1, trained)
      /\ wkRecv[w] # "copy" /\ wkMain[w] # "train" /\ recved_age[w] >= 0 =>
           Carries(wkBlock[w], trained, trained)

\* fills: fills completed so far; filling: between the halves of the next
\* one; the n-th fill carries n + extra updates.
LinkContents(l, filling, fills, extra) ==
  /\ filling => sbuf[l]["P"] = fills + extra
  /\ ~filling /\ fills > 0 => Carries(sbuf[l], fills - 1 + extra, fills - 1 + extra)
  /\ dma[l] = "half" => rbuf[l]["P"] = Delivered(l) + extra
  /\ dma[l] # "half" /\ Delivered(l) > 0 =>
       Carries(rbuf[l], Delivered(l) - 1 + extra, Delivered(l) - 1 + extra)

DownContents(w) == LinkContents(Down(w), psSend[w] = "copy", to_send_iter[w], 0)
UpContents(w)   == LinkContents(Up(w), wkSend[w] = "copy", to_send_age[w], 1)

ContentInv ==
  \A w \in Worker : PsContents(w) /\ WkContents(w) /\ DownContents(w) /\ UpContents(w)

-----------------------------------------------------------------------------
\* The cluster implements bulk-synchronous training.
BSP == INSTANCE BspTraining WITH
         round     <- completed_iter + 1,
         trained   <- [w \in Worker |-> wk_completed_iter[w] + 1],
         collected <- [w \in Worker |-> recved_iter[w] + 1]

ImplementsBSP == BSP!Spec

(***************************************************************************)
(* Training ends: every round is released and the server exits.            *)
(***************************************************************************)
TrainingCompletes == <>(~psUp /\ completed_iter + 1 = MaxIter)

(***************************************************************************)
(* What a send thread reports with "should have sent" is posted, unless    *)
(* the server exits first.  It is not when the poller is delayed between   *)
(* posting a write and clearing can_send: the clear then also wipes the    *)
(* next round's can_send = true.                                           *)
(***************************************************************************)
ShouldHaveSent ==
  \A w \in Worker : \A k \in 1 .. MaxIter :
    /\ to_send_iter[w] = k ~> Written(Down(w)) >= k \/ ~psUp
    /\ to_send_age[w] = k ~> Written(Up(w)) >= k \/ ~psUp
=============================================================================
