------------------------- MODULE StellarBenchProofs -------------------------
(***************************************************************************)
(* Proofs about the training cluster, for any number of workers, any       *)
(* number of rounds, and whatever OperatorWaits and PollerPrompt are.      *)
(***************************************************************************)
EXTENDS StellarBench, TwoSidedLinkProofs

(***************************************************************************)
(* Every worker has a down and an up link of its own.                      *)
(***************************************************************************)
LEMMA LinkNames ==
  /\ \A w \in Worker : Down(w) \in Link /\ Up(w) \in Link
  /\ \A v, w \in Worker : Down(v) # Up(w)
  /\ \A v, w \in Worker : Down(v) = Down(w) => v = w
  /\ \A v, w \in Worker : Up(v) = Up(w) => v = w
BY TopologyAssumption DEF Down, Up

(***************************************************************************)
(* In the initial state no round has been released, so every stage is at   *)
(* its start.                                                              *)
(***************************************************************************)
LEMMA InitIInv == Init => IInv
<1>. SUFFICES ASSUME Init PROVE IInv
  OBVIOUS
<1>1. LinkIInv
  BY LinkInitInv DEF Init
<1>2. PsTypeOK
  BY DEF Init, PsInit, PsTypeOK, Part, Content
<1>3. WkTypeOK
  BY DEF Init, WkInit, WkTypeOK, Blank, Part, Content, NoData
<1>4. Rounds
  <2>. SUFFICES ASSUME NEW w \in Worker
                PROVE  /\ PsRounds(w) /\ WkRounds(w)
                       /\ OfferInv(Down(w), to_send_iter[w])
                       /\ OfferInv(Up(w), to_send_age[w])
    BY DEF Rounds
  <2>1. PsRounds(w) /\ WkRounds(w)
    BY LinkNames DEF Init, LinkInit, PsInit, WkInit, PsRounds, WkRounds
  <2>2. to_send_iter[w] = 0 /\ to_send_age[w] = 0
    BY DEF Init, PsInit, WkInit
  <2>3. ASSUME NEW l \in Link PROVE Written(l) = 0 /\ ~Pending(l)
    BY DEF Init, LinkInit, Written, Pending, One
  <2>. QED  BY <2>1, <2>2, <2>3, LinkNames DEF OfferInv
<1>. QED  BY <1>1, <1>2, <1>3, <1>4 DEF IInv, TypeOK, LinkIInv

-----------------------------------------------------------------------------
(***************************************************************************)
(* Types.  What is copied from a block or a buffer is the content of one.  *)
(***************************************************************************)
LEMMA PsThreadType ==
  ASSUME IInv, PsThread
  PROVE  PsTypeOK' /\ LinkIInv'
<1>. USE DEF PsTypeOK
<1>. LinkTypeOK /\ PsTypeOK /\ LinkIInv
  BY DEF IInv, TypeOK, LinkIInv
<1>1. CASE OperatorStart
  BY <1>1, LinkStutter DEF OperatorStart, PsStart
<1>2. CASE PsMerge
  BY <1>2, LinkStutter DEF PsMerge
<1>3. CASE PsExit
  BY <1>3, LinkStutter DEF PsExit
<1>4. ASSUME NEW w \in Worker, PsSendThread(w)
      PROVE  PsTypeOK' /\ LinkIInv'
  <2>1. psBlocks[w]["P"] \in Content /\ psBlocks[w]["Q"] \in Content
    BY DEF Part
  <2>2. CASE PsSendP(w)
    BY <1>4, <2>1, <2>2, AppStepInv, LinkNames DEF PsSendThread, PsSendP
  <2>3. CASE PsSendQ(w)
    BY <1>4, <2>1, <2>3, AppStepInv, LinkNames DEF PsSendThread, PsSendQ
  <2>. QED  BY <1>4, <2>2, <2>3 DEF PsSendThread
<1>5. ASSUME NEW w \in Worker, PsRecvThread(w)
      PROVE  PsTypeOK' /\ LinkIInv'
  <2>1. rbuf[Up(w)]["P"] \in Content /\ rbuf[Up(w)]["Q"] \in Content
    BY LinkNames DEF Part, LinkTypeOK
  <2>2. CASE PsRecvP(w)
    BY <1>5, <2>1, <2>2, LinkStutter DEF PsRecvThread, PsRecvP, Part
  <2>3. CASE PsRecvQ(w)
    BY <1>5, <2>1, <2>3, LinkStutter DEF PsRecvThread, PsRecvQ, Part
  <2>4. CASE PsRecvRelease(w)
    <3>1. LinkIInv'
      BY <1>5, <2>4, AppStepInv, LinkNames DEF PsRecvThread, PsRecvRelease, Content
    <3>2. PsTypeOK'
      BY <1>5, <2>4 DEF PsRecvThread, PsRecvRelease
    <3>. QED  BY <3>1, <3>2
  <2>. QED  BY <1>5, <2>2, <2>3, <2>4 DEF PsRecvThread
<1>. QED  BY <1>1, <1>2, <1>3, <1>4, <1>5 DEF PsThread

LEMMA WkThreadType ==
  ASSUME IInv, NEW w \in Worker, WkThread(w)
  PROVE  WkTypeOK' /\ LinkIInv'
<1>. USE DEF WkTypeOK
<1>. LinkTypeOK /\ WkTypeOK /\ LinkIInv
  BY DEF IInv, TypeOK, LinkIInv
<1>0. /\ rbuf[Down(w)]["P"] \in Content /\ rbuf[Down(w)]["Q"] \in Content
      /\ wkBlock[w]["P"] \in Content /\ wkBlock[w]["Q"] \in Content
  BY LinkNames DEF Part, LinkTypeOK
<1>1. CASE WkMainThread(w)
  <2>1. \A c \in Content : Trained(c) \in Content
    BY DEF Trained, Content, NoData
  <2>2. CASE WkTrainP(w)
    BY <1>1, <2>1, <2>2, <1>0, LinkStutter DEF WkMainThread, WkTrainP, Part
  <2>3. CASE WkTrainQ(w)
    BY <1>1, <2>1, <2>3, <1>0, LinkStutter DEF WkMainThread, WkTrainQ, Part
  <2>. QED  BY <1>1, <2>2, <2>3 DEF WkMainThread
<1>2. CASE WkSendThread(w)
  <2>2. CASE WkSendP(w)
    BY <1>2, <1>0, <2>2, AppStepInv, LinkNames DEF WkSendThread, WkSendP
  <2>3. CASE WkSendCrash(w)
    BY <1>2, <2>3, LinkStutter DEF WkSendThread, WkSendCrash
  <2>4. CASE WkSendQ(w)
    BY <1>2, <1>0, <2>4, AppStepInv, LinkNames DEF WkSendThread, WkSendQ
  <2>. QED  BY <1>2, <2>2, <2>3, <2>4 DEF WkSendThread
<1>3. CASE WkRecvThread(w)
  <2>2. CASE WkRecvP(w)
    BY <1>3, <1>0, <2>2, LinkStutter DEF WkRecvThread, WkRecvP, Part
  <2>3. CASE WkRecvQ(w)
    BY <1>3, <1>0, <2>3, LinkStutter DEF WkRecvThread, WkRecvQ, Part
  <2>4. CASE WkRecvRelease(w)
    <3>1. LinkIInv'
      BY <1>3, <2>4, AppStepInv, LinkNames DEF WkRecvThread, WkRecvRelease, Content
    <3>2. WkTypeOK'
      BY <1>3, <2>4 DEF WkRecvThread, WkRecvRelease
    <3>. QED  BY <3>1, <3>2
  <2>. QED  BY <1>3, <2>2, <2>3, <2>4 DEF WkRecvThread
<1>. QED  BY <1>1, <1>2, <1>3 DEF WkThread

(***************************************************************************)
(* A poller or an adapter takes a step of one link and touches nothing of  *)
(* the threads.                                                            *)
(***************************************************************************)
LEMMA LinkSteps ==
  ASSUME NEW w \in Worker, PsPoller \/ WkPoller(w) \/ Nic(w)
  PROVE  /\ \E l \in Link : ClientStep(l) \/ ServerStep(l) \/ NicStep(l)
         /\ UNCHANGED <<psVars, wkVars>>
BY LinkNames DEF PsPoller, WkPoller, Nic, NicStep

LEMMA StepType == IInv /\ [Next]_vars => TypeOK' /\ LinkIInv'
<1>. SUFFICES ASSUME IInv, [Next]_vars PROVE TypeOK' /\ LinkIInv'
  OBVIOUS
<1>. LinkIInv /\ PsTypeOK /\ WkTypeOK
  BY DEF IInv, TypeOK, LinkIInv
<1>1. CASE PsThread
  <2>1. WkTypeOK'
    BY <1>1 DEF PsThread, wkVars, WkTypeOK
  <2>. QED  BY <1>1, <2>1, PsThreadType DEF TypeOK, LinkIInv
<1>2. ASSUME NEW w \in Worker, WkThread(w) PROVE TypeOK' /\ LinkIInv'
  <2>1. PsTypeOK'
    BY <1>2 DEF WkThread, psVars, PsTypeOK
  <2>. QED  BY <1>2, <2>1, WkThreadType DEF TypeOK, LinkIInv
<1>3. ASSUME UNCHANGED <<psVars, wkVars>> PROVE PsTypeOK' /\ WkTypeOK'
  BY <1>3 DEF psVars, wkVars, PsTypeOK, WkTypeOK
<1>4. ASSUME NEW w \in Worker, PsPoller \/ WkPoller(w) \/ Nic(w) PROVE TypeOK' /\ LinkIInv'
  BY <1>3, <1>4, LinkSteps, LinkStepType, LinkStepTurn, LinkStepPosted DEF TypeOK, LinkIInv
<1>5. CASE PsPoller
  BY <1>4, <1>5 DEF PsPoller
<1>6. CASE UNCHANGED vars
  BY <1>3, <1>6, LinkStutter DEF TypeOK, LinkIInv, vars
<1>. QED  BY <1>1, <1>2, <1>4, <1>5, <1>6 DEF Next

-----------------------------------------------------------------------------
(***************************************************************************)
(* The order of the stages in numbers: the pipeline holds one round.  From *)
(* it every property below follows by arithmetic.                          *)
(***************************************************************************)
LEMMA Pipeline ==
  ASSUME IInv, NEW w \in Worker
  PROVE  /\ recved_iter[w] + 1 <= Delivered(Up(w))
         /\ Delivered(Up(w)) <= Written(Up(w))
         /\ Written(Up(w)) <= to_send_age[w]
         /\ to_send_age[w] <= wk_completed_iter[w] + 1
         /\ wk_completed_iter[w] <= recved_age[w]
         /\ recved_age[w] + 1 <= Delivered(Down(w))
         /\ Delivered(Down(w)) <= Written(Down(w))
         /\ Written(Down(w)) <= to_send_iter[w]
         /\ to_send_iter[w] <= completed_iter + 1
         /\ completed_iter <= recved_iter[w] + 1
         /\ recved_iter[w] \in Int /\ recved_age[w] \in Int /\ completed_iter \in Int
         /\ wk_completed_iter[w] \in Int /\ to_send_iter[w] \in Int /\ to_send_age[w] \in Int
         /\ Written(Up(w)) \in Int /\ Delivered(Up(w)) \in Int
         /\ Written(Down(w)) \in Int /\ Delivered(Down(w)) \in Int
<1>1. Down(w) \in Link /\ Up(w) \in Link
  BY LinkNames
<1>2. /\ recved_iter[w] \in Int /\ recved_age[w] \in Int /\ completed_iter \in Int
      /\ wk_completed_iter[w] \in Int /\ to_send_iter[w] \in Int /\ to_send_age[w] \in Int
  BY DEF IInv, TypeOK, PsTypeOK, WkTypeOK
<1>3. PsRounds(w) /\ WkRounds(w) /\ OfferInv(Down(w), to_send_iter[w]) /\ OfferInv(Up(w), to_send_age[w])
  BY DEF IInv, Rounds
<1>4. LinkIInv
  BY DEF IInv, TypeOK, LinkIInv
<1>. QED  BY <1>1, <1>2, <1>3, <1>4, LinkCounters DEF PsRounds, WkRounds, OfferInv

-----------------------------------------------------------------------------
(***************************************************************************)
(* A thread's step leaves what the link has written and received alone and *)
(* can only make an offer on its own link.                                 *)
(***************************************************************************)
LEMMA AppStepEffect ==
  ASSUME LinkTypeOK, NEW l \in Link, NEW c \in Content, NEW k \in Link
  PROVE  /\ UNCHANGED linkVars \/ FillP(l, c) \/ Release(l) =>
              /\ buf_recv_counter'[k] = buf_recv_counter[k]
              /\ Written(k)' = Written(k) /\ Pending(k)' = Pending(k)
         /\ FillQAndOffer(l, c) =>
              /\ buf_recv_counter'[k] = buf_recv_counter[k]
              /\ Written(k)' = Written(k)
              /\ k # l => Pending(k)' = Pending(k)
<1>1. ASSUME UNCHANGED linkVars \/ FillP(l, c) \/ Release(l)
      PROVE  UNCHANGED <<buf_recv_counter, buf_write_counter, cpc, can_send>>
  BY <1>1 DEF linkVars, cliVars, srvVars, nicVars, FillP, Release
<1>2. ASSUME FillQAndOffer(l, c)
      PROVE  /\ UNCHANGED <<buf_recv_counter, buf_write_counter, cpc>>
             /\ k # l => can_send'[k] = can_send[k]
  BY <1>2 DEF LinkTypeOK, FillQAndOffer, srvVars, nicVars
<1>. QED  BY <1>1, <1>2 DEF Written, Pending, One

(***************************************************************************)
(* main and the threads of the parameter server keep the order: a merge    *)
(* needs every worker's round back (CanMerge), a send its release          *)
(* (CanSend), a collection its arrival.                                    *)
(***************************************************************************)
LEMMA PsThreadRounds ==
  ASSUME IInv, PsThread
  PROVE  Rounds'
<1>. SUFFICES ASSUME NEW v \in Worker
              PROVE  /\ PsRounds(v)' /\ WkRounds(v)'
                     /\ OfferInv(Down(v), to_send_iter[v])'
                     /\ OfferInv(Up(v), to_send_age[v])'
  BY DEF Rounds
<1>0. /\ Down(v) \in Link /\ Up(v) \in Link
      /\ LinkTypeOK /\ PsTypeOK /\ WkTypeOK /\ LinkIInv
      /\ PsRounds(v) /\ WkRounds(v)
      /\ OfferInv(Down(v), to_send_iter[v]) /\ OfferInv(Up(v), to_send_age[v])
      /\ UNCHANGED wkVars
  BY LinkNames DEF IInv, TypeOK, LinkIInv, Rounds, PsThread
<1>1. ASSUME UNCHANGED linkVars
      PROVE  /\ WkRounds(v)'
             /\ OfferInv(Up(v), to_send_age[v])'
             /\ to_send_iter'[v] = to_send_iter[v] => OfferInv(Down(v), to_send_iter[v])'
  BY <1>0, <1>1 DEF WkRounds, OfferInv, Written, Pending, One, linkVars, cliVars, srvVars, nicVars, wkVars
<1>2. CASE OperatorStart
  BY <1>0, <1>1, <1>2 DEF OperatorStart, PsStart, PsRounds, linkVars, cliVars, srvVars, nicVars
<1>3. CASE PsMerge
  BY <1>0, <1>1, <1>3 DEF PsMerge, CanMerge, PsRounds, PsTypeOK, linkVars, cliVars, srvVars, nicVars
<1>4. CASE PsExit
  BY <1>0, <1>1, <1>4 DEF PsExit, PsRounds, linkVars, cliVars, srvVars, nicVars
<1>5. ASSUME NEW w \in Worker, PsSendThread(w)
      PROVE  /\ PsRounds(v)' /\ WkRounds(v)'
             /\ OfferInv(Down(v), to_send_iter[v])'
             /\ OfferInv(Up(v), to_send_age[v])'
  <2>1. psBlocks[w]["P"] \in Content /\ psBlocks[w]["Q"] \in Content
    BY <1>0 DEF PsTypeOK, Part
  <2>2. /\ Down(w) \in Link /\ Down(w) # Up(v)
        /\ v # w => Down(v) # Down(w)
    BY LinkNames
  <2>3. CASE PsSendP(w)
    <3>1. FillP(Down(w), psBlocks[w]["P"])
      BY <2>3 DEF PsSendP
    <3>2. ASSUME NEW k \in Link
          PROVE  /\ buf_recv_counter'[k] = buf_recv_counter[k]
                 /\ Written(k)' = Written(k) /\ Pending(k)' = Pending(k)
      BY <1>0, <2>1, <2>2, <3>1, AppStepEffect
    <3>3. PsRounds(v)'
      BY <1>0, <1>5, <2>3, <3>2 DEF PsSendThread, PsSendP, PsCanSend, PsRounds, PsTypeOK
    <3>4. WkRounds(v)'
      BY <1>0, <3>2 DEF WkRounds, wkVars
    <3>5. UNCHANGED to_send_iter /\ UNCHANGED to_send_age
      BY <1>0, <2>3 DEF PsSendP, wkVars
    <3>. QED  BY <1>0, <3>2, <3>3, <3>4, <3>5 DEF OfferInv
  <2>4. CASE PsSendQ(w)
    <3>1. FillQAndOffer(Down(w), psBlocks[w]["Q"])
      BY <2>4 DEF PsSendQ
    <3>2. ASSUME NEW k \in Link
          PROVE  /\ buf_recv_counter'[k] = buf_recv_counter[k]
                 /\ Written(k)' = Written(k)
                 /\ k # Down(w) => Pending(k)' = Pending(k)
      BY <1>0, <2>1, <2>2, <3>1, AppStepEffect
    <3>3. PsRounds(v)'
      BY <1>0, <1>5, <2>4, <3>2 DEF PsSendThread, PsSendQ, PsRounds, PsTypeOK
    <3>4. WkRounds(v)'
      BY <1>0, <3>2 DEF WkRounds, wkVars
    <3>5. OfferInv(Up(v), to_send_age[v])'
      BY <1>0, <2>2, <3>2 DEF OfferInv, wkVars
    <3>6. to_send_iter' = [to_send_iter EXCEPT ![w] = @ + 1] /\ to_send_iter[w] \in Nat
      BY <1>0, <2>4 DEF PsSendQ, PsTypeOK
    <3>7. Written(Down(v)) \in Nat
      BY <1>0, LinkCounters
    <3>8. OfferInv(Down(v), to_send_iter[v])'
      BY <1>0, <2>2, <3>2, <3>6, <3>7 DEF OfferInv, PsTypeOK
    <3>. QED  BY <3>3, <3>4, <3>5, <3>8
  <2>. QED  BY <1>5, <2>3, <2>4 DEF PsSendThread
<1>6. ASSUME NEW w \in Worker, PsRecvThread(w)
      PROVE  /\ PsRounds(v)' /\ WkRounds(v)'
             /\ OfferInv(Down(v), to_send_iter[v])'
             /\ OfferInv(Up(v), to_send_age[v])'
  <2>1. UNCHANGED to_send_iter
    BY <1>6 DEF PsRecvThread
  <2>2. CASE PsRecvP(w)
    <3>1. UNCHANGED linkVars /\ UNCHANGED buf_recv_counter
      BY <2>2 DEF PsRecvP, linkVars, srvVars
    <3>2. PsRounds(v)'
      <4>1. /\ buf_recv_counter[Up(v)] \in Nat /\ recved_iter[v] \in Int /\ completed_iter \in Int
            /\ UNCHANGED <<completed_iter, psSend>>
        BY <1>0, <1>6 DEF PsTypeOK, LinkTypeOK, PsRecvThread
      <4>2. CASE v = w
        BY <1>0, <2>2, <2>1, <3>1, <4>1, <4>2 DEF PsRecvP, PsCanRecv, PsRounds, PsTypeOK
      <4>3. CASE v # w
        BY <1>0, <2>2, <2>1, <3>1, <4>1, <4>3 DEF PsRecvP, PsRounds, PsTypeOK
      <4>. QED  BY <4>2, <4>3
    <3>. QED  BY <1>1, <2>1, <3>1, <3>2
  <2>3. CASE PsRecvQ(w)
    <3>1. UNCHANGED linkVars /\ UNCHANGED buf_recv_counter
      BY <2>3 DEF PsRecvQ, linkVars, srvVars
    <3>2. PsRounds(v)'
      <4>1. /\ buf_recv_counter[Up(v)] \in Nat /\ recved_iter[v] \in Int /\ completed_iter \in Int
            /\ UNCHANGED <<completed_iter, psSend>>
        BY <1>0, <1>6 DEF PsTypeOK, LinkTypeOK, PsRecvThread
      <4>2. CASE v = w
        BY <1>0, <2>3, <2>1, <3>1, <4>1, <4>2 DEF PsRecvQ, PsRounds, PsTypeOK
      <4>3. CASE v # w
        BY <1>0, <2>3, <2>1, <3>1, <4>1, <4>3 DEF PsRecvQ, PsRounds, PsTypeOK
      <4>. QED  BY <4>2, <4>3
    <3>. QED  BY <1>1, <2>1, <3>1, <3>2
  <2>4. CASE PsRecvRelease(w)
    <3>1. Release(Up(w)) /\ Up(w) \in Link /\ 0 \in Content
      BY <2>4, LinkNames DEF PsRecvRelease, Content
    <3>2. ASSUME NEW k \in Link
          PROVE  /\ buf_recv_counter'[k] = buf_recv_counter[k]
                 /\ Written(k)' = Written(k) /\ Pending(k)' = Pending(k)
      BY <1>0, <3>1, AppStepEffect
    <3>3. PsRounds(v)'
      BY <1>0, <1>6, <2>4, <3>2 DEF PsRecvThread, PsRecvRelease, PsRounds, PsTypeOK
    <3>4. WkRounds(v)'
      BY <1>0, <3>2 DEF WkRounds, wkVars
    <3>. QED  BY <1>0, <2>1, <3>2, <3>3, <3>4 DEF OfferInv, wkVars
  <2>. QED  BY <1>6, <2>2, <2>3, <2>4 DEF PsRecvThread
<1>. QED  BY <1>2, <1>3, <1>4, <1>5, <1>6 DEF PsThread

(***************************************************************************)
(* The threads of a worker keep the order: it trains a round it received   *)
(* (CanCompute), sends one it trained (CanSend), receives one that arrived.*)
(***************************************************************************)
LEMMA WkThreadRounds ==
  ASSUME IInv, NEW w \in Worker, WkThread(w)
  PROVE  Rounds'
<1>. SUFFICES ASSUME NEW v \in Worker
              PROVE  /\ PsRounds(v)' /\ WkRounds(v)'
                     /\ OfferInv(Down(v), to_send_iter[v])'
                     /\ OfferInv(Up(v), to_send_age[v])'
  BY DEF Rounds
<1>0. /\ Down(v) \in Link /\ Up(v) \in Link
      /\ LinkTypeOK /\ PsTypeOK /\ WkTypeOK /\ LinkIInv
      /\ PsRounds(v) /\ WkRounds(v)
      /\ OfferInv(Down(v), to_send_iter[v]) /\ OfferInv(Up(v), to_send_age[v])
      /\ UNCHANGED psVars
  BY LinkNames DEF IInv, TypeOK, LinkIInv, Rounds, WkThread
<1>1. /\ Up(w) \in Link /\ Up(w) # Down(v) /\ Down(w) \in Link
      /\ v # w => Up(v) # Up(w)
      /\ wkBlock[w]["P"] \in Content /\ wkBlock[w]["Q"] \in Content /\ 0 \in Content
  BY <1>0, LinkNames DEF WkTypeOK, Part, Content
<1>2. /\ buf_recv_counter[Down(v)] \in Nat /\ recved_age[v] \in Int
      /\ wk_completed_iter[v] \in Int /\ to_send_age[v] \in Nat
  BY <1>0 DEF WkTypeOK, LinkTypeOK
<1>3. ASSUME UNCHANGED linkVars \/ FillP(Up(w), wkBlock[w]["P"]) \/ Release(Down(w)),
             UNCHANGED to_send_age
      PROVE  /\ UNCHANGED <<buf_recv_counter, to_send_age>>
             /\ PsRounds(v)'
             /\ OfferInv(Down(v), to_send_iter[v])'
             /\ OfferInv(Up(v), to_send_age[v])'
  <2>1. ASSUME NEW k \in Link
        PROVE  Written(k)' = Written(k) /\ Pending(k)' = Pending(k)
    BY <1>0, <1>1, <1>3, AppStepEffect
  <2>2. UNCHANGED buf_recv_counter
    BY <1>3 DEF linkVars, srvVars, FillP, Release
  <2>3. PsRounds(v)'
    BY <1>0, <2>2 DEF PsRounds, psVars
  <2>. QED  BY <1>0, <1>3, <2>1, <2>2, <2>3 DEF OfferInv, psVars
<1>4. CASE WkMainThread(w)
  <2>1. UNCHANGED <<linkVars, recved_age, to_send_age, wkSend, wkRecv>>
    BY <1>4 DEF WkMainThread
  <2>2. WkRounds(v)'
    <3>1. CASE v # w
      BY <1>0, <1>2, <1>3, <1>4, <2>1, <3>1
      DEF WkMainThread, WkTrainP, WkTrainQ, WkRounds, WkTypeOK
    <3>2. CASE v = w /\ WkTrainP(w)
      BY <1>0, <1>2, <1>3, <2>1, <3>2 DEF WkTrainP, CanCompute, WkRounds, WkTypeOK
    <3>3. CASE v = w /\ WkTrainQ(w)
      BY <1>0, <1>2, <1>3, <2>1, <3>3 DEF WkTrainQ, WkRounds, WkTypeOK
    <3>. QED  BY <1>4, <3>1, <3>2, <3>3 DEF WkMainThread
  <2>. QED  BY <1>3, <2>1, <2>2
<1>5. CASE WkRecvThread(w)
  <2>1. UNCHANGED <<wk_completed_iter, to_send_age, wkMain, wkSend>>
    BY <1>5 DEF WkRecvThread
  <2>2. UNCHANGED linkVars \/ Release(Down(w))
    BY <1>5 DEF WkRecvThread, WkRecvP, WkRecvQ, WkRecvRelease
  <2>3. UNCHANGED buf_recv_counter
    BY <1>3, <2>1, <2>2
  <2>4. WkRounds(v)'
    <3>1. CASE v # w
      BY <1>0, <1>2, <1>5, <2>1, <2>3, <3>1
      DEF WkRecvThread, WkRecvP, WkRecvQ, WkRecvRelease, WkRounds, WkTypeOK
    <3>2. CASE v = w /\ WkRecvP(w)
      BY <1>0, <1>2, <2>1, <2>3, <3>2 DEF WkRecvP, WkCanRecv, WkRounds, WkTypeOK
    <3>3. CASE v = w /\ WkRecvQ(w)
      BY <1>0, <1>2, <2>1, <2>3, <3>3 DEF WkRecvQ, WkRounds, WkTypeOK
    <3>4. CASE v = w /\ WkRecvRelease(w)
      BY <1>0, <1>2, <2>1, <2>3, <3>4 DEF WkRecvRelease, WkRounds, WkTypeOK
    <3>. QED  BY <1>5, <3>1, <3>2, <3>3, <3>4 DEF WkRecvThread
  <2>. QED  BY <1>3, <2>1, <2>2, <2>4
<1>6. CASE WkSendThread(w)
  <2>1. UNCHANGED <<wk_completed_iter, recved_age, wkMain, wkRecv>>
    BY <1>6 DEF WkSendThread
  <2>2. CASE WkSendP(w) \/ WkSendCrash(w)
    <3>1. UNCHANGED to_send_age /\ (UNCHANGED linkVars \/ FillP(Up(w), wkBlock[w]["P"]))
      BY <2>2 DEF WkSendP, WkSendCrash
    <3>2. WkRounds(v)'
      BY <1>0, <1>2, <1>3, <2>1, <2>2, <3>1
      DEF WkSendP, WkSendCrash, WkCanSend, WkRounds, WkTypeOK
    <3>. QED  BY <1>3, <3>1, <3>2
  <2>3. CASE WkSendQ(w)
    <3>1. ASSUME NEW k \in Link
          PROVE  /\ buf_recv_counter'[k] = buf_recv_counter[k]
                 /\ Written(k)' = Written(k)
                 /\ k # Up(w) => Pending(k)' = Pending(k)
      BY <1>0, <1>1, <2>3, AppStepEffect DEF WkSendQ
    <3>2. PsRounds(v)'
      BY <1>0, <3>1 DEF PsRounds, psVars
    <3>3. WkRounds(v)'
      BY <1>0, <1>2, <2>1, <2>3, <3>1 DEF WkSendQ, WkRounds, WkTypeOK
    <3>4. OfferInv(Down(v), to_send_iter[v])'
      BY <1>0, <1>1, <3>1 DEF OfferInv, psVars
    <3>5. to_send_age' = [to_send_age EXCEPT ![w] = @ + 1] /\ to_send_age[w] \in Nat
      BY <1>0, <2>3 DEF WkSendQ, WkTypeOK
    <3>6. Written(Up(v)) \in Nat
      BY <1>0, LinkCounters
    <3>7. OfferInv(Up(v), to_send_age[v])'
      BY <1>0, <1>1, <3>1, <3>5, <3>6 DEF OfferInv, WkTypeOK
    <3>. QED  BY <3>2, <3>3, <3>4, <3>7
  <2>. QED  BY <1>6, <2>2, <2>3 DEF WkSendThread
<1>. QED  BY <1>4, <1>5, <1>6 DEF WkThread

(***************************************************************************)
(* The link steps keep the order: a poller writes only what is offered.    *)
(***************************************************************************)
LEMMA LinkStepRounds ==
  ASSUME IInv, UNCHANGED <<psVars, wkVars>>,
         (\E l \in Link : ClientStep(l) \/ ServerStep(l) \/ NicStep(l)) \/ UNCHANGED linkVars
  PROVE  Rounds'
<1>. SUFFICES ASSUME NEW v \in Worker
              PROVE  /\ PsRounds(v)' /\ WkRounds(v)'
                     /\ OfferInv(Down(v), to_send_iter[v])'
                     /\ OfferInv(Up(v), to_send_age[v])'
  BY DEF Rounds
<1>0. /\ Down(v) \in Link /\ Up(v) \in Link
      /\ LinkTypeOK /\ PsTypeOK /\ WkTypeOK /\ LinkIInv
      /\ PsRounds(v) /\ WkRounds(v)
      /\ OfferInv(Down(v), to_send_iter[v]) /\ OfferInv(Up(v), to_send_age[v])
  BY LinkNames DEF IInv, TypeOK, LinkIInv, Rounds
<1>1. ASSUME NEW k \in Link
      PROVE  /\ buf_recv_counter[k] \in Nat /\ buf_recv_counter'[k] \in Nat
             /\ Written(k) \in Nat
             /\ buf_recv_counter'[k] >= buf_recv_counter[k]
             /\ \/ Written(k)' = Written(k) /\ (Pending(k)' => Pending(k))
                \/ Written(k)' = Written(k) + 1 /\ Pending(k) /\ ~Pending(k)'
  <2>1. buf_recv_counter[k] \in Nat /\ Written(k) \in Nat
    BY <1>0, LinkCounters
  <2>2. CASE UNCHANGED linkVars
    BY <2>1, <2>2 DEF linkVars, cliVars, srvVars, Written, Pending, One
  <2>3. ASSUME NEW l \in Link, ClientStep(l) \/ ServerStep(l) \/ NicStep(l)
        PROVE  LinkTypeOK'
    BY <1>0, <2>3, LinkStepType
  <2>. QED  BY <1>0, <2>1, <2>2, <2>3, LinkStepEffect DEF LinkTypeOK
<1>2. PsRounds(v)' /\ WkRounds(v)'
  <2>1. recved_iter[v] \in Int /\ recved_age[v] \in Int
    BY <1>0 DEF PsTypeOK, WkTypeOK
  <2>2. PsRounds(v)'
    BY <1>0, <1>1, <2>1 DEF PsRounds, psVars
  <2>3. WkRounds(v)'
    BY <1>0, <1>1, <2>1 DEF WkRounds, wkVars
  <2>. QED  BY <2>2, <2>3
<1>3. OfferInv(Down(v), to_send_iter[v])'
  BY <1>0, <1>1 DEF OfferInv, psVars, PsTypeOK
<1>4. OfferInv(Up(v), to_send_age[v])'
  BY <1>0, <1>1 DEF OfferInv, wkVars, WkTypeOK
<1>. QED  BY <1>2, <1>3, <1>4

-----------------------------------------------------------------------------
(***************************************************************************)
(* The inductive invariant holds in every reachable state.                 *)
(***************************************************************************)
THEOREM Invariance == Spec => []IInv
<1>1. Init => IInv
  BY InitIInv
<1>2. IInv /\ [Next]_vars => IInv'
  <2>. SUFFICES ASSUME IInv, [Next]_vars PROVE IInv'
    OBVIOUS
  <2>1. TypeOK' /\ LinkIInv'
    BY StepType
  <2>2. Rounds'
    <3>1. CASE PsThread
      BY <3>1, PsThreadRounds
    <3>2. CASE \E w \in Worker : WkThread(w)
      BY <3>2, WkThreadRounds
    <3>3. CASE PsPoller \/ \E w \in Worker : WkPoller(w) \/ Nic(w)
      BY <3>3, LinkSteps, LinkStepRounds DEF PsPoller
    <3>4. CASE UNCHANGED vars
      BY <3>4, LinkStepRounds DEF vars
    <3>. QED  BY <3>1, <3>2, <3>3, <3>4 DEF Next
  <2>. QED  BY <2>1, <2>2 DEF IInv, LinkIInv
<1>. QED  BY <1>1, <1>2, PTL DEF Spec

(***************************************************************************)
(* Every state variable keeps its type; in particular no count of messages *)
(* ever becomes negative.                                                  *)
(***************************************************************************)
THEOREM TypeCorrect == Spec => []TypeOK
BY Invariance, PTL DEF IInv

(***************************************************************************)
(* On every link exactly one party has the turn once it is connected.      *)
(***************************************************************************)
THEOREM TurnCorrect == Spec => []OneTurn
BY Invariance, PTL DEF IInv

-----------------------------------------------------------------------------
(***************************************************************************)
(* A thread in the middle of its work is strictly behind the stage before  *)
(* it, and the adapter is busy only with a write that is not delivered.    *)
(***************************************************************************)
LEMMA Busy ==
  ASSUME IInv, NEW w \in Worker
  PROVE  /\ psSend[w] = "copy" => to_send_iter[w] <= completed_iter
         /\ psRecv[w] = "copy" => recved_iter[w] + 2 <= Delivered(Up(w))
         /\ wkRecv[w] = "copy" => recved_age[w] + 2 <= Delivered(Down(w))
         /\ wkMain[w] = "train" => wk_completed_iter[w] + 1 <= recved_age[w]
         /\ wkSend[w] = "copy" => to_send_age[w] <= wk_completed_iter[w]
         /\ \A l \in {Down(w), Up(w)} :
              /\ Written(l) = Delivered(l) + posted[l] /\ posted[l] \in Int
              /\ dma[l] = "half" => Delivered(l) < Written(l)
<1>1. PsRounds(w) /\ WkRounds(w)
  BY DEF IInv, Rounds
<1>2. recved_iter[w] \in Int /\ recved_age[w] \in Int
  BY DEF IInv, TypeOK, PsTypeOK, WkTypeOK
<1>3. \A l \in {Down(w), Up(w)} :
        /\ buf_recv_counter[l] \in Nat /\ Delivered(l) \in Nat /\ posted[l] \in Nat
        /\ buf_recv_counter[l] <= Delivered(l)
        /\ Written(l) = Delivered(l) + posted[l]
        /\ dma[l] = "half" => Delivered(l) < Written(l)
  BY LinkNames, LinkCounters DEF IInv, TypeOK, LinkIInv
<1>. QED  BY <1>1, <1>2, <1>3 DEF PsRounds, WkRounds

LEMMA PipelineSafety ==
  ASSUME IInv
  PROVE  NoUnreadOverwrite /\ NoTornSend /\ OneWritePerRound /\ BlockRaceFree /\ SendNeverSkipped
<1>1. NoUnreadOverwrite
  BY Pipeline, Busy DEF NoUnreadOverwrite
<1>2. NoTornSend
  BY Pipeline, Busy DEF NoTornSend
<1>3. OneWritePerRound
  <2>. SUFFICES ASSUME NEW w \in Worker
                PROVE  /\ to_send_iter[w] \in {Written(Down(w)), Written(Down(w)) + 1}
                       /\ to_send_age[w] \in {Written(Up(w)), Written(Up(w)) + 1}
    BY DEF OneWritePerRound
  <2>1. Written(Down(w)) <= to_send_iter[w] /\ to_send_iter[w] <= Written(Down(w)) + 1
    BY Pipeline
  <2>2. Written(Up(w)) <= to_send_age[w] /\ to_send_age[w] <= Written(Up(w)) + 1
    BY Pipeline
  <2>. QED  BY <2>1, <2>2, Pipeline
<1>4. BlockRaceFree
  BY Pipeline, Busy DEF BlockRaceFree
<1>5. SendNeverSkipped
  BY Pipeline DEF SendNeverSkipped
<1>. QED  BY <1>1, <1>2, <1>3, <1>4, <1>5

(***************************************************************************)
(* No receive buffer is overwritten before it is read, although the link   *)
(* itself does not prevent it.                                             *)
(***************************************************************************)
THEOREM ReceiveBuffersSafe == Spec => []NoUnreadOverwrite
BY Invariance, PipelineSafety, PTL

(***************************************************************************)
(* No send buffer is refilled while its write is posted.                   *)
(***************************************************************************)
THEOREM SendBuffersSafe == Spec => []NoTornSend
BY Invariance, PipelineSafety, PTL

(***************************************************************************)
(* Each write carries a round of its own.                                  *)
(***************************************************************************)
THEOREM WritesMatchRounds == Spec => []OneWritePerRound
BY Invariance, PipelineSafety, PTL

(***************************************************************************)
(* The threads that share blocks without a lock exclude each other.        *)
(***************************************************************************)
THEOREM BlocksSafe == Spec => []BlockRaceFree
BY Invariance, PipelineSafety, PTL

(***************************************************************************)
(* The worker's equality test in CanSend never jumps over a round.         *)
(***************************************************************************)
THEOREM SendsNotSkipped == Spec => []SendNeverSkipped
BY Invariance, PipelineSafety, PTL

-----------------------------------------------------------------------------
(***************************************************************************)
(* Start-up.  No thread touches the connections or the arrival counters.   *)
(***************************************************************************)
LEMMA ThreadsDoNotConnect ==
  ASSUME PsThread \/ \E w \in Worker : WkThread(w)
  PROVE  UNCHANGED <<cm, buf_recv_counter>>
<1>1. CASE PsThread
  <2>1. ASSUME NEW w \in Worker, PsSendThread(w) \/ PsRecvThread(w)
        PROVE  UNCHANGED <<cm, buf_recv_counter>>
    BY <2>1 DEF PsSendThread, PsSendP, PsSendQ, PsRecvThread, PsRecvP, PsRecvQ, PsRecvRelease,
                FillP, FillQAndOffer, Release, linkVars, srvVars
  <2>2. CASE OperatorStart \/ PsMerge \/ PsExit
    BY <2>2 DEF OperatorStart, PsStart, PsMerge, PsExit, linkVars, srvVars
  <2>. QED  BY <1>1, <2>1, <2>2 DEF PsThread
<1>2. ASSUME NEW w \in Worker, WkThread(w)
      PROVE  UNCHANGED <<cm, buf_recv_counter>>
  <2>1. CASE WkMainThread(w)
    BY <2>1 DEF WkMainThread, linkVars, srvVars
  <2>2. CASE WkSendThread(w)
    BY <2>2 DEF WkSendThread, WkSendP, WkSendQ, WkSendCrash, FillP, FillQAndOffer, linkVars, srvVars
  <2>3. CASE WkRecvThread(w)
    BY <2>3 DEF WkRecvThread, WkRecvP, WkRecvQ, WkRecvRelease, Release, linkVars, srvVars
  <2>. QED  BY <1>2, <2>1, <2>2, <2>3 DEF WkThread
<1>. QED  BY <1>1, <1>2

(***************************************************************************)
(* A worker's rdma_sendTd has something to send only after it was sent a   *)
(* round, which takes main to be past getchar().                           *)
(***************************************************************************)
LEMMA CrashNeedsStart ==
  ASSUME IInv, StartUp, NEW w \in Worker, WkSendCrash(w)
  PROVE  started /\ ~ClientRegistered(Up(w))
<1>1. to_send_age[w] = wk_completed_iter[w] /\ ~ClientRegistered(Up(w))
  BY DEF WkSendCrash, WkCanSend
<1>2. to_send_age[w] \in Nat
  BY DEF IInv, TypeOK, WkTypeOK
<1>3. completed_iter # -1
  BY <1>1, <1>2, Pipeline
<1>. QED  BY <1>1, <1>3 DEF StartUp

LEMMA StartUpStep == IInv /\ StartUp /\ [Next]_vars => StartUp'
<1>. SUFFICES ASSUME IInv, StartUp, [Next]_vars PROVE StartUp'
  OBVIOUS
<1>. LinkIInv /\ WkTypeOK
  BY DEF IInv, TypeOK, LinkIInv
<1>1. CASE PsThread
  <2>1. UNCHANGED <<cm, buf_recv_counter, wkUp>>
    BY <1>1, ThreadsDoNotConnect DEF PsThread, wkVars
  <2>2. CASE OperatorStart
    BY <2>1, <2>2
    DEF OperatorStart, PsStart, StartUp, NoCrash, ServerRegistered, ClientRegistered
  <2>3. CASE PsMerge
    BY <2>1, <2>3 DEF PsMerge, StartUp, NoCrash, ServerRegistered, ClientRegistered
  <2>4. CASE PsExit \/ \E w \in Worker : PsSendThread(w) \/ PsRecvThread(w)
    <3>1. UNCHANGED <<started, completed_iter>>
      BY <2>4 DEF PsExit, PsSendThread, PsRecvThread
    <3>. QED  BY <2>1, <3>1 DEF StartUp, NoCrash, ServerRegistered, ClientRegistered
  <2>. QED  BY <1>1, <2>2, <2>3, <2>4 DEF PsThread
<1>2. ASSUME NEW w \in Worker, WkThread(w)
      PROVE  StartUp'
  <2>1. UNCHANGED <<cm, buf_recv_counter, started, completed_iter>>
    BY <1>2, ThreadsDoNotConnect DEF WkThread, psVars
  <2>2. CASE WkSendCrash(w)
    <3>1. started /\ ~ClientRegistered(Up(w))
      BY <2>2, CrashNeedsStart
    <3>2. ~OperatorWaits
      BY <3>1 DEF StartUp, ServerRegistered, ClientRegistered
    <3>3. wkUp' = [wkUp EXCEPT ![w] = FALSE]
      BY <2>2 DEF WkSendCrash
    <3>. QED  BY <2>1, <3>1, <3>2, <3>3 DEF StartUp, ClientRegistered, WkTypeOK
  <2>3. CASE ~WkSendCrash(w)
    <3>1. UNCHANGED wkUp
      BY <1>2, <2>3 DEF WkThread, WkMainThread, WkRecvThread, WkSendThread, WkSendP, WkSendQ
    <3>. QED  BY <2>1, <3>1 DEF StartUp, NoCrash, ServerRegistered, ClientRegistered
  <2>. QED  BY <2>2, <2>3
<1>3. ASSUME NEW l \in Link, ClientStep(l) \/ ServerStep(l) \/ NicStep(l),
             UNCHANGED <<psVars, wkVars>>,
             \A w \in Worker : l = Up(w) /\ ClientPreConn(l) => wkUp[w]
      PROVE  StartUp'
  <2>1. UNCHANGED <<started, completed_iter, wkUp>>
    BY <1>3 DEF psVars, wkVars
  <2>2. \A k \in Link : (cm[k] # "up" => buf_recv_counter[k] = 0)'
    BY <1>3, LinkStepConnects DEF StartUp
  <2>3. \A w \in Worker : ~wkUp[w] => ~ClientRegistered(Up(w))'
    BY <1>3, LinkStepConnects, LinkNames DEF StartUp
  <2>4. \A w \in Worker : ServerRegistered(Up(w)) => ServerRegistered(Up(w))'
    BY <1>3, LinkStepConnects, LinkNames
  <2>. QED  BY <2>1, <2>2, <2>3, <2>4 DEF StartUp, NoCrash
<1>4. CASE PsPoller
  <2>1. PICK w \in Worker : (started /\ ClientStep(Down(w))) \/ ServerStep(Up(w))
    BY <1>4 DEF PsPoller
  <2>2. CASE ClientStep(Down(w))
    BY <1>3, <1>4, <2>2, LinkNames DEF PsPoller
  <2>3. CASE ServerStep(Up(w))
    <3>1. ~ClientPreConn(Up(w))
      <4>1. CASE cm[Up(w)] # "new"
        BY <4>1 DEF ClientPreConn
      <4>2. CASE cm[Up(w)] = "new"
        <5>1. UNCHANGED cm
          BY <2>3, <4>2
          DEF ServerStep, ServerPreConn, ServerOnConnection, ServerOnWrite, ServerSendReady
        <5>. QED  BY <4>2, <5>1, LinkNames DEF ClientPreConn, LinkIInv, LinkTypeOK
      <4>. QED  BY <4>1, <4>2
    <3>. QED  BY <1>3, <1>4, <2>3, <3>1, LinkNames DEF PsPoller
  <2>. QED  BY <2>1, <2>2, <2>3
<1>5. ASSUME NEW w \in Worker, WkPoller(w) \/ Nic(w)
      PROVE  StartUp'
  <2>1. wkUp[w]
    BY <1>5 DEF WkPoller, Nic
  <2>2. PICK l \in {Down(w), Up(w)} : ClientStep(l) \/ ServerStep(l) \/ NicStep(l)
    BY <1>5 DEF WkPoller, Nic, NicStep
  <2>3. l \in Link /\ \A v \in Worker : l = Up(v) => v = w
    BY <2>2, LinkNames
  <2>. QED  BY <1>3, <1>5, <2>1, <2>2, <2>3, LinkSteps
<1>6. CASE UNCHANGED vars
  <2>1. UNCHANGED <<cm, buf_recv_counter, wkUp, started, completed_iter>>
    BY <1>6 DEF vars, linkVars, srvVars, psVars, wkVars
  <2>. QED  BY <2>1 DEF StartUp, NoCrash, ServerRegistered, ClientRegistered
<1>. QED  BY <1>1, <1>2, <1>4, <1>5, <1>6 DEF Next

LEMMA StartUpInvariance == Spec => []StartUp
<1>1. Init => StartUp
  BY DEF Init, LinkInit, PsInit, WkInit, StartUp, NoCrash
<1>. QED  BY <1>1, StartUpStep, Invariance, PTL DEF Spec

(***************************************************************************)
(* An operator who waits for the connections sees no worker die: its send  *)
(* buffer is registered before it was sent anything to train on.           *)
(***************************************************************************)
THEOREM PatientOperator == Spec => [](OperatorWaits => NoCrash)
BY StartUpInvariance, PTL DEF StartUp

(***************************************************************************)
(* Whatever the operator does, a worker that died has returned nothing and *)
(* main is held in its first round.                                        *)
(***************************************************************************)
THEOREM CrashContained == Spec => []CrashHoldsBarrier
<1>1. IInv /\ StartUp => CrashHoldsBarrier
  <2>. SUFFICES ASSUME IInv, StartUp, NEW w \in Worker, ~wkUp[w]
                PROVE  recved_iter[w] = -1 /\ completed_iter <= 0
    BY DEF CrashHoldsBarrier
  <2>1. buf_recv_counter[Up(w)] = 0
    BY LinkNames DEF StartUp, ClientRegistered
  <2>2. recved_iter[w] + 1 <= 0 /\ recved_iter[w] \in Nat \cup {-1}
    BY <2>1 DEF IInv, Rounds, PsRounds, TypeOK, PsTypeOK
  <2>. QED  BY <2>2, Pipeline
<1>. QED  BY <1>1, Invariance, StartUpInvariance, PTL

(***************************************************************************)
(* main ends the process at the last round only, and does nothing after.   *)
(***************************************************************************)
LEMMA ExitStep ==
  ASSUME ~psUp => completed_iter + 1 = MaxIter, [Next]_vars
  PROVE  (~psUp => completed_iter + 1 = MaxIter)'
<1>1. CASE PsThread
  <2>1. CASE OperatorStart
    BY <2>1 DEF OperatorStart, PsStart
  <2>2. CASE PsMerge
    BY <1>1, <2>2 DEF PsThread, PsMerge
  <2>3. CASE PsExit
    BY <2>3 DEF PsExit
  <2>4. CASE \E w \in Worker : PsSendThread(w) \/ PsRecvThread(w)
    BY <2>4 DEF PsSendThread, PsRecvThread
  <2>. QED  BY <1>1, <2>1, <2>2, <2>3, <2>4 DEF PsThread
<1>2. CASE PsPoller \/ (\E w \in Worker : WkThread(w) \/ WkPoller(w) \/ Nic(w)) \/ UNCHANGED vars
  BY <1>2 DEF PsPoller, WkThread, WkPoller, Nic, vars, psVars
<1>. QED  BY <1>1, <1>2 DEF Next

(***************************************************************************)
(* exit(0) loses at most the last round: when main calls it every earlier  *)
(* round has been collected from every worker.                             *)
(***************************************************************************)
THEOREM ExitSafe == Spec => []ExitLosesOnlyLastRound
<1> DEFINE EInv == ~psUp => completed_iter + 1 = MaxIter
<1>1. Init => EInv
  BY DEF Init, PsInit
<1>2. EInv /\ [Next]_vars => EInv'
  BY ExitStep
<1>3. IInv /\ EInv => ExitLosesOnlyLastRound
  <2>. SUFFICES ASSUME IInv, EInv, ~psUp
                PROVE  /\ completed_iter = MaxIter - 1
                       /\ \A w \in Worker : recved_iter[w] >= MaxIter - 2
    BY DEF ExitLosesOnlyLastRound
  <2>1. completed_iter + 1 = MaxIter /\ completed_iter \in Int
    BY DEF IInv, TypeOK, PsTypeOK
  <2>2. ASSUME NEW w \in Worker PROVE recved_iter[w] >= MaxIter - 2
    <3>1. completed_iter <= recved_iter[w] + 1 /\ recved_iter[w] \in Int
      BY DEF IInv, TypeOK, PsTypeOK, Rounds, PsRounds
    <3>. QED  BY <2>1, <3>1
  <2>3. MaxIter \in Int
    BY MaxIterAssumption
  <2>. QED  BY <2>1, <2>2, <2>3
<1>. HIDE DEF EInv
<1>. QED  BY <1>1, <1>2, <1>3, Invariance, PTL DEF Spec

-----------------------------------------------------------------------------
(***************************************************************************)
(* Refinement: every step of the cluster is a step of bulk-synchronous     *)
(* training or changes none of its variables.  A merge releases a round, a *)
(* worker's last store of a training trains one, the last store of         *)
(* rdma_recvTd at the parameter server collects one.                       *)
(***************************************************************************)
LEMMA InitRefines == Init => BSP!Init
BY DEF Init, PsInit, WkInit, BSP!Init

LEMMA StepRefines ==
  ASSUME IInv, [Next]_vars
  PROVE  [BSP!Next]_(BSP!vars)
<1>. USE DEF BSP!vars
<1>0. PsTypeOK /\ WkTypeOK
  BY DEF IInv, TypeOK
<1>1. ASSUME UNCHANGED <<completed_iter, recved_iter, wk_completed_iter>>
      PROVE  UNCHANGED BSP!vars
  BY <1>1
<1>2. CASE PsMerge /\ UNCHANGED wkVars
  <2>1. completed_iter + 1 < MaxIter /\ completed_iter' = completed_iter + 1
    BY <1>2 DEF PsMerge
  <2>2. ASSUME NEW w \in Worker PROVE recved_iter[w] + 1 = completed_iter + 1
    <3>1. recved_iter[w] <= completed_iter /\ recved_iter[w] \in Int /\ completed_iter \in Int
      BY Pipeline
    <3>2. completed_iter <= recved_iter[w]
      BY <1>2, <3>1 DEF PsMerge, CanMerge
    <3>. QED  BY <3>1, <3>2
  <2>3. UNCHANGED <<recved_iter, wk_completed_iter>>
    BY <1>2 DEF PsMerge, wkVars
  <2>4. BSP!ReleaseRound
    BY <2>1, <2>2, <2>3 DEF BSP!ReleaseRound
  <2>. QED  BY <2>4 DEF BSP!Next
<1>3. ASSUME NEW w \in Worker, WkTrainQ(w), UNCHANGED psVars
      PROVE  BSP!Next
  <2>1. /\ wk_completed_iter[w] + 1 = recved_iter[w] + 1
        /\ wk_completed_iter[w] + 1 < completed_iter + 1
    <3>1. wk_completed_iter[w] + 1 <= recved_age[w]
      BY <1>3, Busy DEF WkTrainQ
    <3>. QED  BY <3>1, Pipeline
  <2>2. [v \in Worker |-> wk_completed_iter[v] + 1]'
          = [[v \in Worker |-> wk_completed_iter[v] + 1] EXCEPT ![w] = @ + 1]
    BY <1>0, <1>3 DEF WkTrainQ, WkTypeOK
  <2>3. UNCHANGED <<completed_iter, recved_iter>>
    BY <1>3 DEF psVars
  <2>4. BSP!Train(w)
    BY <2>1, <2>2, <2>3 DEF BSP!Train
  <2>. QED  BY <2>4 DEF BSP!Next
<1>4. ASSUME NEW w \in Worker, PsRecvQ(w), UNCHANGED <<completed_iter, wkVars>>
      PROVE  BSP!Next
  <2>1. recved_iter[w] + 1 < wk_completed_iter[w] + 1
    BY <1>4, Pipeline, Busy DEF PsRecvQ
  <2>2. [v \in Worker |-> recved_iter[v] + 1]'
          = [[v \in Worker |-> recved_iter[v] + 1] EXCEPT ![w] = @ + 1]
    BY <1>0, <1>4 DEF PsRecvQ, PsTypeOK
  <2>3. UNCHANGED <<completed_iter, wk_completed_iter>>
    BY <1>4 DEF wkVars
  <2>4. BSP!Collect(w)
    BY <2>1, <2>2, <2>3 DEF BSP!Collect
  <2>. QED  BY <2>4 DEF BSP!Next
<1>5. CASE PsThread
  <2>1. CASE OperatorStart \/ PsExit
    BY <1>1, <1>5, <2>1 DEF PsThread, OperatorStart, PsStart, PsExit, wkVars
  <2>2. CASE PsMerge
    BY <1>2, <1>5, <2>2 DEF PsThread
  <2>3. ASSUME NEW w \in Worker, PsSendThread(w)
        PROVE  UNCHANGED BSP!vars
    BY <1>1, <1>5, <2>3 DEF PsThread, PsSendThread, wkVars
  <2>4. ASSUME NEW w \in Worker, PsRecvThread(w)
        PROVE  [BSP!Next]_(BSP!vars)
    BY <1>1, <1>4, <1>5, <2>4 DEF PsThread, PsRecvThread, PsRecvP, PsRecvRelease, wkVars
  <2>. QED  BY <1>5, <2>1, <2>2, <2>3, <2>4 DEF PsThread
<1>6. ASSUME NEW w \in Worker, WkThread(w)
      PROVE  [BSP!Next]_(BSP!vars)
  <2>1. CASE WkMainThread(w)
    BY <1>1, <1>3, <1>6, <2>1 DEF WkThread, WkMainThread, WkTrainP, psVars
  <2>2. CASE WkSendThread(w) \/ WkRecvThread(w)
    BY <1>1, <1>6, <2>2 DEF WkThread, WkSendThread, WkRecvThread, psVars
  <2>. QED  BY <1>6, <2>1, <2>2 DEF WkThread
<1>7. CASE PsPoller \/ \E w \in Worker : WkPoller(w) \/ Nic(w)
  BY <1>1, <1>7, LinkSteps DEF PsPoller, psVars, wkVars
<1>8. CASE UNCHANGED vars
  BY <1>1, <1>8 DEF vars, psVars, wkVars
<1>. QED  BY <1>5, <1>6, <1>7, <1>8 DEF Next

THEOREM Refinement == Spec => ImplementsBSP
<1>1. Spec => []IInv
  BY Invariance
<1>2. Init => BSP!Init
  BY InitRefines
<1>3. IInv /\ [Next]_vars => [BSP!Next]_(BSP!vars)
  BY StepRefines
<1>. QED  BY <1>1, <1>2, <1>3, PTL DEF Spec, ImplementsBSP, BSP!Spec
=============================================================================
