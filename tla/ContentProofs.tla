---------------------------- MODULE ContentProofs ----------------------------
(***************************************************************************)
(* What the blocks and buffers of the training cluster carry: proofs that  *)
(* ContentInv is kept and that ExactlyOneUpdate follows from it.           *)
(***************************************************************************)
EXTENDS StellarBenchProofs

(***************************************************************************)
(* A step leaves alone what LinkContents says of a link.                   *)
(***************************************************************************)
SameLink(l) ==
  /\ sbuf'[l] = sbuf[l]
  /\ rbuf'[l] = rbuf[l]
  /\ dma'[l] = dma[l]
  /\ Delivered(l)' = Delivered(l)

(***************************************************************************)
(* Each part of the invariant speaks of one worker's variables only.       *)
(***************************************************************************)
LEMMA ContentFrame ==
  ASSUME NEW v \in Worker
  PROVE  /\ PsContents(v) /\ psBlocks'[v] = psBlocks[v] /\ psRecv'[v] = psRecv[v]
              /\ recved_iter'[v] = recved_iter[v]
            => PsContents(v)'
         /\ WkContents(v) /\ wkBlock'[v] = wkBlock[v] /\ wkRecv'[v] = wkRecv[v]
              /\ wkMain'[v] = wkMain[v] /\ recved_age'[v] = recved_age[v]
              /\ wk_completed_iter'[v] = wk_completed_iter[v]
            => WkContents(v)'
         /\ DownContents(v) /\ SameLink(Down(v)) /\ psSend'[v] = psSend[v]
              /\ to_send_iter'[v] = to_send_iter[v]
            => DownContents(v)'
         /\ UpContents(v) /\ SameLink(Up(v)) /\ wkSend'[v] = wkSend[v]
              /\ to_send_age'[v] = to_send_age[v]
            => UpContents(v)'
<1>1. PsContents(v) /\ psBlocks'[v] = psBlocks[v] /\ psRecv'[v] = psRecv[v]
        /\ recved_iter'[v] = recved_iter[v]
      => PsContents(v)'
  BY DEF PsContents, Carries
<1>2. WkContents(v) /\ wkBlock'[v] = wkBlock[v] /\ wkRecv'[v] = wkRecv[v]
        /\ wkMain'[v] = wkMain[v] /\ recved_age'[v] = recved_age[v]
        /\ wk_completed_iter'[v] = wk_completed_iter[v]
      => WkContents(v)'
  BY DEF WkContents, Carries
<1>3. DownContents(v) /\ SameLink(Down(v)) /\ psSend'[v] = psSend[v]
        /\ to_send_iter'[v] = to_send_iter[v]
      => DownContents(v)'
  BY DEF DownContents, LinkContents, SameLink, Carries
<1>4. UpContents(v) /\ SameLink(Up(v)) /\ wkSend'[v] = wkSend[v]
        /\ to_send_age'[v] = to_send_age[v]
      => UpContents(v)'
  BY DEF UpContents, LinkContents, SameLink, Carries
<1>. QED  BY <1>1, <1>2, <1>3, <1>4

(***************************************************************************)
(* The application threads change no buffer but the one they fill.         *)
(***************************************************************************)
LEMMA AppSame ==
  ASSUME LinkTypeOK, NEW l \in Link, NEW c \in Content, NEW k \in Link
  PROVE  /\ UNCHANGED linkVars \/ Release(l) => SameLink(k)
         /\ FillP(l, c) \/ FillQAndOffer(l, c) =>
              /\ k # l => SameLink(k)
              /\ rbuf'[k] = rbuf[k] /\ dma'[k] = dma[k] /\ Delivered(k)' = Delivered(k)
<1>1. ASSUME UNCHANGED linkVars \/ Release(l)
      PROVE  SameLink(k)
  <2>1. UNCHANGED <<sbuf, rbuf, dma, imm, buf_recv_counter>>
    BY <1>1 DEF linkVars, srvVars, nicVars, Release
  <2>. QED  BY <2>1 DEF SameLink, Delivered
<1>2. ASSUME FillP(l, c) \/ FillQAndOffer(l, c)
      PROVE  /\ k # l => SameLink(k)
             /\ rbuf'[k] = rbuf[k] /\ dma'[k] = dma[k] /\ Delivered(k)' = Delivered(k)
  <2>1. UNCHANGED <<rbuf, dma, imm, buf_recv_counter>> /\ (k # l => sbuf'[k] = sbuf[k])
    BY <1>2 DEF LinkTypeOK, FillP, FillQAndOffer, srvVars, nicVars
  <2>. QED  BY <2>1 DEF SameLink, Delivered
<1>. QED  BY <1>1, <1>2

(***************************************************************************)
(* The pollers touch no buffer; a completion taken from the server's queue *)
(* (server_on_completion) was counted as delivered before.                 *)
(***************************************************************************)
LEMMA PollerSame ==
  ASSUME LinkTypeOK, NEW l \in Link, ClientStep(l) \/ ServerStep(l), NEW k \in Link
  PROVE  SameLink(k)
<1>1. UNCHANGED <<sbuf, rbuf, dma>>
  BY DEF ClientStep, ClientPreConn, ClientOnMessage, ClientWriteRemote, ClientClear,
         ServerStep, ServerPreConn, ServerOnConnection, ServerOnWrite, ServerSendReady, nicVars
<1>2. Delivered(k)' = Delivered(k)
  <2>1. CASE ServerOnWrite(l)
    BY <2>1 DEF LinkTypeOK, ServerOnWrite, Delivered, One
  <2>2. CASE ~ServerOnWrite(l)
    <3>1. UNCHANGED <<imm, buf_recv_counter>>
      BY <2>2 DEF ClientStep, ClientPreConn, ClientOnMessage, ClientWriteRemote, ClientClear,
                  ServerStep, ServerPreConn, ServerOnConnection, ServerSendReady, srvVars, nicVars
    <3>. QED  BY <3>1 DEF Delivered
  <2>. QED  BY <2>1, <2>2
<1>. QED  BY <1>1, <1>2 DEF SameLink

-----------------------------------------------------------------------------
(***************************************************************************)
(* The counters when a thread or the adapter works on a block or a buffer: *)
(* the pipeline of one round leaves it no choice which round it works on.  *)
(***************************************************************************)
LEMMA WorkingOn ==
  ASSUME IInv, NEW w \in Worker
  PROVE  /\ PsCanSend(to_send_iter[w], completed_iter) \/ psSend[w] = "copy" =>
              psRecv[w] # "copy" /\ to_send_iter[w] = recved_iter[w] + 1
         /\ PsCanRecv(w) \/ psRecv[w] = "copy" =>
              /\ Delivered(Up(w)) = recved_iter[w] + 2 /\ dma[Up(w)] # "half"
         /\ WkCanRecv(w) \/ wkRecv[w] = "copy" =>
              /\ Delivered(Down(w)) = wk_completed_iter[w] + 2 /\ dma[Down(w)] # "half"
              /\ wkMain[w] # "train"
              /\ recved_age[w] = wk_completed_iter[w]
         /\ CanCompute(wk_completed_iter[w] + 1, recved_age[w]) \/ wkMain[w] = "train" =>
              wkRecv[w] # "copy" /\ recved_age[w] = wk_completed_iter[w] + 1
         /\ WkCanSend(to_send_age[w], wk_completed_iter[w]) \/ wkSend[w] = "copy" =>
              /\ to_send_age[w] = wk_completed_iter[w]
              /\ wkMain[w] # "train" /\ wkRecv[w] # "copy" /\ recved_age[w] >= 0
         /\ posted[Down(w)] > 0 =>
              psSend[w] # "copy" /\ to_send_iter[w] = Delivered(Down(w)) + 1
         /\ posted[Up(w)] > 0 =>
              wkSend[w] # "copy" /\ to_send_age[w] = Delivered(Up(w)) + 1
<1>1. /\ to_send_age[w] \in Nat /\ wk_completed_iter[w] \in Int /\ recved_age[w] \in Int
      /\ \A l \in {Down(w), Up(w)} :
           /\ buf_recv_counter[l] \in Nat
           /\ buf_recv_counter[l] <= Delivered(l)
  BY LinkNames, LinkCounters DEF IInv, TypeOK, LinkIInv, WkTypeOK
<1>2. PsCanSend(to_send_iter[w], completed_iter) \/ psSend[w] = "copy" =>
        psRecv[w] # "copy" /\ to_send_iter[w] = recved_iter[w] + 1
  BY Pipeline, Busy DEF PsCanSend
<1>3. PsCanRecv(w) \/ psRecv[w] = "copy" =>
        Delivered(Up(w)) = recved_iter[w] + 2 /\ dma[Up(w)] # "half"
  BY <1>1, Pipeline, Busy DEF PsCanRecv
<1>4. WkCanRecv(w) \/ wkRecv[w] = "copy" =>
        /\ Delivered(Down(w)) = wk_completed_iter[w] + 2 /\ dma[Down(w)] # "half"
        /\ wkMain[w] # "train"
        /\ recved_age[w] = wk_completed_iter[w]
  <2>. SUFFICES ASSUME WkCanRecv(w) \/ wkRecv[w] = "copy"
                PROVE  /\ Delivered(Down(w)) = wk_completed_iter[w] + 2 /\ dma[Down(w)] # "half"
                       /\ wkMain[w] # "train"
                       /\ recved_age[w] = wk_completed_iter[w]
    OBVIOUS
  <2>1. recved_age[w] + 2 <= Delivered(Down(w))
    <3>1. WkCanRecv(w) => recved_age[w] + 2 <= buf_recv_counter[Down(w)]
      BY <1>1 DEF WkCanRecv
    <3>. QED  BY <1>1, <3>1, Pipeline, Busy
  <2>. QED  BY <2>1, Pipeline, Busy
<1>5. CanCompute(wk_completed_iter[w] + 1, recved_age[w]) \/ wkMain[w] = "train" =>
        wkRecv[w] # "copy" /\ recved_age[w] = wk_completed_iter[w] + 1
  <2>. SUFFICES ASSUME wk_completed_iter[w] + 1 <= recved_age[w]
                PROVE  wkRecv[w] # "copy" /\ recved_age[w] = wk_completed_iter[w] + 1
    BY Busy DEF CanCompute
  <2>1. recved_age[w] = wk_completed_iter[w] + 1
    BY Pipeline
  <2>2. wkRecv[w] # "copy"
    BY <2>1, Pipeline, Busy
  <2>. QED  BY <2>1, <2>2
<1>6. WkCanSend(to_send_age[w], wk_completed_iter[w]) \/ wkSend[w] = "copy" =>
        /\ to_send_age[w] = wk_completed_iter[w]
        /\ wkMain[w] # "train" /\ wkRecv[w] # "copy" /\ recved_age[w] >= 0
  BY <1>1, Pipeline, Busy DEF WkCanSend
<1>7. posted[Down(w)] > 0 =>
        psSend[w] # "copy" /\ to_send_iter[w] = Delivered(Down(w)) + 1
  BY Pipeline, Busy
<1>8. posted[Up(w)] > 0 =>
        wkSend[w] # "copy" /\ to_send_age[w] = Delivered(Up(w)) + 1
  BY Pipeline, Busy
<1>. QED  BY <1>2, <1>3, <1>4, <1>5, <1>6, <1>7, <1>8

-----------------------------------------------------------------------------
(***************************************************************************)
(* main of the parameter server touches no block; rdma_sendTd copies a     *)
(* whole block into the buffer, rdma_recvTd a whole buffer into the block. *)
(***************************************************************************)
LEMMA PsThreadContents ==
  ASSUME IInv, ContentInv, PsThread
  PROVE  ContentInv'
<1>. SUFFICES ASSUME NEW v \in Worker
              PROVE  PsContents(v)' /\ WkContents(v)' /\ DownContents(v)' /\ UpContents(v)'
  BY DEF ContentInv
<1>0. /\ Down(v) \in Link /\ Up(v) \in Link
      /\ LinkTypeOK /\ PsTypeOK /\ WkTypeOK
      /\ PsContents(v) /\ WkContents(v) /\ DownContents(v) /\ UpContents(v)
      /\ UNCHANGED wkVars
  BY LinkNames DEF IInv, TypeOK, ContentInv, PsThread
<1>1. WkContents(v)'
  BY <1>0, ContentFrame DEF wkVars
<1>2. UNCHANGED <<wkSend, to_send_age>>
  BY <1>0 DEF wkVars
<1>3. CASE OperatorStart \/ PsMerge \/ PsExit
  <2>1. UNCHANGED linkVars
    BY <1>3 DEF OperatorStart, PsStart, PsMerge, PsExit
  <2>2. UNCHANGED <<recved_iter, to_send_iter, psBlocks, psSend, psRecv>>
    BY <1>3 DEF OperatorStart, PsStart, PsMerge, PsExit
  <2>3. SameLink(Down(v)) /\ SameLink(Up(v))
    BY <1>0, <2>1, AppSame DEF Content
  <2>. QED  BY <1>0, <1>1, <1>2, <2>2, <2>3, ContentFrame
<1>4. ASSUME NEW w \in Worker, PsSendThread(w)
      PROVE  PsContents(v)' /\ DownContents(v)' /\ UpContents(v)'
  <2>1. /\ psBlocks[w]["P"] \in Content /\ psBlocks[w]["Q"] \in Content
        /\ Down(w) \in Link /\ Down(w) # Up(v) /\ (v # w => Down(v) # Down(w))
    BY <1>0, LinkNames DEF PsTypeOK, Part
  <2>2. \/ FillP(Down(w), psBlocks[w]["P"])
        \/ FillQAndOffer(Down(w), psBlocks[w]["Q"])
    BY <1>4 DEF PsSendThread, PsSendP, PsSendQ
  <2>3. PsContents(v)'
    BY <1>0, <1>4, ContentFrame DEF PsSendThread
  <2>4. SameLink(Up(v)) /\ (v # w => SameLink(Down(v)))
    BY <1>0, <2>1, <2>2, AppSame
  <2>5. UpContents(v)'
    BY <1>0, <1>2, <2>4, ContentFrame
  <2>6. CASE v # w
    <3>1. psSend'[v] = psSend[v] /\ to_send_iter'[v] = to_send_iter[v]
      BY <1>0, <1>4, <2>6 DEF PsSendThread, PsSendP, PsSendQ, PsTypeOK
    <3>2. DownContents(v)'
      BY <1>0, <2>4, <2>6, <3>1, ContentFrame
    <3>. QED  BY <2>3, <2>5, <3>2
  <2>7. CASE v = w
    <3>1. /\ psRecv[v] # "copy" /\ to_send_iter[v] = recved_iter[v] + 1
          /\ psBlocks[v]["P"] = to_send_iter[v] /\ psBlocks[v]["Q"] = to_send_iter[v]
          /\ to_send_iter[v] \in Nat
      BY <1>0, <1>4, <2>7, WorkingOn
      DEF PsSendThread, PsSendP, PsSendQ, PsContents, Carries, PsTypeOK
    <3>2. rbuf'[Down(v)] = rbuf[Down(v)] /\ dma'[Down(v)] = dma[Down(v)]
          /\ Delivered(Down(v))' = Delivered(Down(v))
      BY <1>0, <2>1, <2>2, AppSame
    <3>3. CASE PsSendP(v)
      <4>1. psSend'[v] = "copy" /\ to_send_iter'[v] = to_send_iter[v]
            /\ sbuf'[Down(v)]["P"] = psBlocks[v]["P"]
        BY <1>0, <3>3 DEF PsSendP, FillP, PsTypeOK, LinkTypeOK, Part
      <4>2. DownContents(v)'
        BY <1>0, <3>1, <3>2, <4>1 DEF DownContents, LinkContents, Carries
      <4>. QED  BY <2>3, <2>5, <4>2
    <3>4. CASE PsSendQ(v)
      <4>1. psSend[v] = "copy" /\ psSend'[v] = "check" /\ to_send_iter'[v] = to_send_iter[v] + 1
            /\ sbuf'[Down(v)]["P"] = sbuf[Down(v)]["P"]
            /\ sbuf'[Down(v)]["Q"] = psBlocks[v]["Q"]
        BY <1>0, <3>4 DEF PsSendQ, FillQAndOffer, PsTypeOK, LinkTypeOK, Part
      <4>2. DownContents(v)'
        BY <1>0, <3>1, <3>2, <4>1 DEF DownContents, LinkContents, Carries
      <4>. QED  BY <2>3, <2>5, <4>2
    <3>. QED  BY <1>4, <2>7, <3>3, <3>4 DEF PsSendThread
  <2>. QED  BY <2>6, <2>7
<1>5. ASSUME NEW w \in Worker, PsRecvThread(w)
      PROVE  PsContents(v)' /\ DownContents(v)' /\ UpContents(v)'
  <2>1. Up(w) \in Link /\ 0 \in Content
    BY LinkNames DEF Content
  <2>2. UNCHANGED linkVars \/ Release(Up(w))
    BY <1>5 DEF PsRecvThread, PsRecvP, PsRecvQ, PsRecvRelease
  <2>3. SameLink(Down(v)) /\ SameLink(Up(v))
    BY <1>0, <2>1, <2>2, AppSame
  <2>4. DownContents(v)' /\ UpContents(v)'
    BY <1>0, <1>2, <1>5, <2>3, ContentFrame DEF PsRecvThread
  <2>5. CASE v # w
    <3>1. psBlocks'[v] = psBlocks[v] /\ psRecv'[v] = psRecv[v] /\ recved_iter'[v] = recved_iter[v]
      BY <1>0, <1>5, <2>5 DEF PsRecvThread, PsRecvP, PsRecvQ, PsRecvRelease, PsTypeOK
    <3>. QED  BY <1>0, <2>4, <3>1, ContentFrame
  <2>6. CASE v = w /\ PsRecvRelease(v)
    <3>1. /\ psBlocks' = psBlocks /\ recved_iter' = recved_iter
          /\ psRecv[v] = "release" /\ psRecv'[v] = "wait"
      BY <1>0, <2>6 DEF PsRecvRelease, PsTypeOK
    <3>. QED  BY <1>0, <2>4, <3>1 DEF PsContents, Carries
  <2>7. CASE v = w /\ (PsRecvP(v) \/ PsRecvQ(v))
    <3>1. rbuf[Up(v)]["P"] = recved_iter[v] + 2 /\ rbuf[Up(v)]["Q"] = recved_iter[v] + 2
          /\ recved_iter[v] \in Nat \cup {-1}
      <4>1. Delivered(Up(v)) = recved_iter[v] + 2 /\ dma[Up(v)] # "half"
        BY <2>7, WorkingOn DEF PsRecvP, PsRecvQ
      <4>2. recved_iter[v] \in Nat \cup {-1}
        BY <1>0 DEF PsTypeOK
      <4>. QED  BY <1>0, <4>1, <4>2 DEF UpContents, LinkContents, Carries
    <3>2. CASE PsRecvP(v)
      <4>1. /\ psRecv[v] # "copy" /\ psRecv'[v] = "copy" /\ recved_iter' = recved_iter
            /\ psBlocks'[v]["P"] = rbuf[Up(v)]["P"] /\ psBlocks'[v]["Q"] = psBlocks[v]["Q"]
        BY <1>0, <3>2 DEF PsRecvP, PsTypeOK, Part
      <4>. QED  BY <1>0, <2>4, <3>1, <4>1 DEF PsContents, Carries
    <3>3. CASE PsRecvQ(v)
      <4>1. /\ psRecv[v] = "copy" /\ psRecv'[v] = "release" /\ recved_iter'[v] = recved_iter[v] + 1
            /\ psBlocks'[v]["Q"] = rbuf[Up(v)]["Q"] /\ psBlocks'[v]["P"] = psBlocks[v]["P"]
        BY <1>0, <3>3 DEF PsRecvQ, PsTypeOK, Part
      <4>. QED  BY <1>0, <2>4, <3>1, <4>1 DEF PsContents, Carries
    <3>. QED  BY <2>7, <3>2, <3>3
  <2>. QED  BY <1>5, <2>5, <2>6, <2>7 DEF PsRecvThread
<1>. QED  BY <1>1, <1>0, <1>3, <1>4, <1>5 DEF PsThread

(***************************************************************************)
(* A worker's main adds one update to both blocks (FakeSubMF), its         *)
(* rdma_sendTd copies whole trained blocks, its rdma_recvTd whole buffers. *)
(***************************************************************************)
LEMMA WkThreadContents ==
  ASSUME IInv, ContentInv, NEW w \in Worker, WkThread(w)
  PROVE  ContentInv'
<1>. SUFFICES ASSUME NEW v \in Worker
              PROVE  PsContents(v)' /\ WkContents(v)' /\ DownContents(v)' /\ UpContents(v)'
  BY DEF ContentInv
<1>0. /\ Down(v) \in Link /\ Up(v) \in Link
      /\ LinkTypeOK /\ PsTypeOK /\ WkTypeOK
      /\ PsContents(v) /\ WkContents(v) /\ DownContents(v) /\ UpContents(v)
      /\ UNCHANGED psVars
  BY LinkNames DEF IInv, TypeOK, ContentInv, WkThread
<1>1. PsContents(v)'
  BY <1>0, ContentFrame DEF psVars
<1>2. UNCHANGED <<psSend, to_send_iter>>
  BY <1>0 DEF psVars
<1>3. /\ wk_completed_iter[v] \in Nat \cup {-1} /\ recved_age[v] \in Nat \cup {-1}
      /\ to_send_age[v] \in Nat
      /\ Up(w) \in Link /\ Down(w) \in Link /\ Up(w) # Down(v) /\ (v # w => Up(v) # Up(w))
      /\ wkBlock[w]["P"] \in Content /\ wkBlock[w]["Q"] \in Content /\ 0 \in Content
  BY <1>0, LinkNames DEF WkTypeOK, Part, Content
<1>4. ASSUME UNCHANGED linkVars \/ Release(Down(w)), UNCHANGED <<wkSend, to_send_age>>
      PROVE  DownContents(v)' /\ UpContents(v)'
  <2>1. SameLink(Down(v)) /\ SameLink(Up(v))
    BY <1>0, <1>3, <1>4, AppSame
  <2>. QED  BY <1>0, <1>2, <1>4, <2>1, ContentFrame
<1>5. CASE WkMainThread(w)
  <2>1. DownContents(v)' /\ UpContents(v)'
    BY <1>4, <1>5 DEF WkMainThread
  <2>2. UNCHANGED <<wkRecv, recved_age>>
    BY <1>5 DEF WkMainThread
  <2>3. CASE v # w
    <3>1. wkBlock'[v] = wkBlock[v] /\ wkMain'[v] = wkMain[v]
          /\ wk_completed_iter'[v] = wk_completed_iter[v]
      BY <1>0, <1>5, <2>3 DEF WkMainThread, WkTrainP, WkTrainQ, WkTypeOK
    <3>. QED  BY <1>0, <1>1, <2>1, <2>2, <3>1, ContentFrame
  <2>4. CASE v = w
    <3>1. wkRecv[v] # "copy" /\ recved_age[v] = wk_completed_iter[v] + 1
      BY <1>5, <2>4, WorkingOn DEF WkMainThread, WkTrainP, WkTrainQ
    <3>2. ASSUME NEW n \in Nat PROVE Trained(n) = n + 1
      BY DEF Trained, NoData
    <3>3. CASE WkTrainP(v)
      <4>1. Carries(wkBlock[v], wk_completed_iter[v] + 1, wk_completed_iter[v] + 1)
        BY <1>0, <1>3, <3>1, <3>3 DEF WkTrainP, WkContents
      <4>2. /\ wkMain'[v] = "train" /\ UNCHANGED wk_completed_iter
            /\ wkBlock'[v]["P"] = Trained(wkBlock[v]["P"])
            /\ wkBlock'[v]["Q"] = wkBlock[v]["Q"]
        BY <1>0, <3>3 DEF WkTrainP, WkTypeOK, Part
      <4>3. Carries(wkBlock[v], wk_completed_iter[v] + 2, wk_completed_iter[v] + 1)'
        BY <1>3, <3>2, <4>1, <4>2 DEF Carries
      <4>4. WkContents(v)'
        BY <1>3, <2>2, <3>1, <4>2, <4>3 DEF WkContents
      <4>. QED  BY <1>1, <2>1, <4>4
    <3>4. CASE WkTrainQ(v)
      <4>1. Carries(wkBlock[v], wk_completed_iter[v] + 2, wk_completed_iter[v] + 1)
        BY <1>0, <1>3, <3>1, <3>4 DEF WkTrainQ, WkContents
      <4>2. /\ wkMain'[v] = "check" /\ wk_completed_iter'[v] = wk_completed_iter[v] + 1
            /\ wkBlock'[v]["Q"] = Trained(wkBlock[v]["Q"])
            /\ wkBlock'[v]["P"] = wkBlock[v]["P"]
        BY <1>0, <3>4 DEF WkTrainQ, WkTypeOK, Part
      <4>3. Carries(wkBlock[v], wk_completed_iter[v] + 1, wk_completed_iter[v] + 1)'
        BY <1>3, <3>2, <4>1, <4>2 DEF Carries
      <4>4. WkContents(v)'
        BY <1>3, <2>2, <3>1, <4>2, <4>3 DEF WkContents
      <4>. QED  BY <1>1, <2>1, <4>4
    <3>. QED  BY <1>5, <2>4, <3>3, <3>4 DEF WkMainThread
  <2>. QED  BY <2>3, <2>4
<1>6. CASE WkSendThread(w)
  <2>1. WkContents(v)'
    BY <1>0, <1>6, ContentFrame DEF WkSendThread
  <2>2. CASE WkSendCrash(w)
    BY <1>1, <1>4, <2>1, <2>2 DEF WkSendCrash
  <2>3. CASE WkSendP(w) \/ WkSendQ(w)
    <3>1. FillP(Up(w), wkBlock[w]["P"]) \/ FillQAndOffer(Up(w), wkBlock[w]["Q"])
      BY <2>3 DEF WkSendP, WkSendQ
    <3>2. SameLink(Down(v)) /\ (v # w => SameLink(Up(v)))
      BY <1>0, <1>3, <3>1, AppSame
    <3>3. DownContents(v)'
      BY <1>0, <1>2, <3>2, ContentFrame
    <3>4. CASE v # w
      <4>1. wkSend'[v] = wkSend[v] /\ to_send_age'[v] = to_send_age[v]
        BY <1>0, <2>3, <3>4 DEF WkSendP, WkSendQ, WkTypeOK
      <4>. QED  BY <1>0, <1>1, <2>1, <3>2, <3>3, <3>4, <4>1, ContentFrame
    <3>5. CASE v = w
      <4>1. /\ to_send_age[v] = wk_completed_iter[v]
            /\ wkBlock[v]["P"] = to_send_age[v] + 1 /\ wkBlock[v]["Q"] = to_send_age[v] + 1
        <5>1. /\ to_send_age[v] = wk_completed_iter[v]
              /\ wkMain[v] # "train" /\ wkRecv[v] # "copy" /\ recved_age[v] >= 0
          BY <2>3, <3>5, WorkingOn DEF WkSendP, WkSendQ
        <5>. QED  BY <1>0, <5>1 DEF WkContents, Carries
      <4>2. rbuf'[Up(v)] = rbuf[Up(v)] /\ dma'[Up(v)] = dma[Up(v)]
            /\ Delivered(Up(v))' = Delivered(Up(v))
        BY <1>0, <1>3, <3>1, AppSame
      <4>3. CASE WkSendP(v)
        <5>1. wkSend'[v] = "copy" /\ to_send_age'[v] = to_send_age[v]
              /\ sbuf'[Up(v)]["P"] = wkBlock[v]["P"]
          BY <1>0, <4>3 DEF WkSendP, FillP, WkTypeOK, LinkTypeOK, Part
        <5>2. UpContents(v)'
          BY <1>0, <1>3, <4>1, <4>2, <5>1 DEF UpContents, LinkContents, Carries
        <5>. QED  BY <1>1, <2>1, <3>3, <5>2
      <4>4. CASE WkSendQ(v)
        <5>1. wkSend[v] = "copy" /\ wkSend'[v] = "check" /\ to_send_age'[v] = to_send_age[v] + 1
              /\ sbuf'[Up(v)]["P"] = sbuf[Up(v)]["P"]
              /\ sbuf'[Up(v)]["Q"] = wkBlock[v]["Q"]
          BY <1>0, <4>4 DEF WkSendQ, FillQAndOffer, WkTypeOK, LinkTypeOK, Part
        <5>2. UpContents(v)'
          BY <1>0, <1>3, <4>1, <4>2, <5>1 DEF UpContents, LinkContents, Carries
        <5>. QED  BY <1>1, <2>1, <3>3, <5>2
      <4>. QED  BY <2>3, <3>5, <4>3, <4>4
    <3>. QED  BY <3>4, <3>5
  <2>. QED  BY <1>6, <2>2, <2>3 DEF WkSendThread
<1>7. CASE WkRecvThread(w)
  <2>1. DownContents(v)' /\ UpContents(v)'
    BY <1>4, <1>7 DEF WkRecvThread, WkRecvP, WkRecvQ, WkRecvRelease
  <2>2. UNCHANGED <<wkMain, wk_completed_iter>>
    BY <1>7 DEF WkRecvThread
  <2>3. CASE v # w
    <3>1. wkBlock'[v] = wkBlock[v] /\ wkRecv'[v] = wkRecv[v] /\ recved_age'[v] = recved_age[v]
      BY <1>0, <1>7, <2>3 DEF WkRecvThread, WkRecvP, WkRecvQ, WkRecvRelease, WkTypeOK
    <3>. QED  BY <1>0, <1>1, <2>1, <2>2, <3>1, ContentFrame
  <2>4. CASE v = w /\ WkRecvRelease(v)
    <3>1. UNCHANGED <<wkBlock, recved_age>> /\ wkRecv[v] = "release" /\ wkRecv'[v] = "wait"
      BY <1>0, <2>4 DEF WkRecvRelease, WkTypeOK
    <3>. QED  BY <1>0, <1>1, <2>1, <2>2, <3>1 DEF WkContents, Carries
  <2>5. CASE v = w /\ (WkRecvP(v) \/ WkRecvQ(v))
    <3>1. Delivered(Down(v)) = wk_completed_iter[v] + 2 /\ dma[Down(v)] # "half"
          /\ wkMain[v] # "train"
      BY <2>5, WorkingOn DEF WkRecvP, WkRecvQ
    <3>2. /\ rbuf[Down(v)]["P"] = wk_completed_iter[v] + 1
          /\ rbuf[Down(v)]["Q"] = wk_completed_iter[v] + 1
      BY <1>0, <1>3, <3>1 DEF DownContents, LinkContents, Carries
    <3>3. CASE WkRecvP(v)
      <4>1. wkRecv'[v] = "copy" /\ wkBlock'[v]["P"] = rbuf[Down(v)]["P"]
        BY <1>0, <3>3 DEF WkRecvP, WkTypeOK, Part
      <4>. QED  BY <1>1, <2>1, <2>2, <3>1, <3>2, <4>1 DEF WkContents, Carries
    <3>4. CASE WkRecvQ(v)
      <4>1. /\ wkRecv[v] = "copy" /\ wkRecv'[v] = "release"
            /\ wkBlock'[v]["Q"] = rbuf[Down(v)]["Q"] /\ wkBlock'[v]["P"] = wkBlock[v]["P"]
        BY <1>0, <3>4 DEF WkRecvQ, WkTypeOK, Part
      <4>. QED  BY <1>0, <1>1, <2>1, <2>2, <3>1, <3>2, <4>1 DEF WkContents, Carries
    <3>. QED  BY <2>5, <3>3, <3>4
  <2>. QED  BY <1>7, <2>3, <2>4, <2>5 DEF WkRecvThread
<1>. QED  BY <1>5, <1>6, <1>7 DEF WkThread

(***************************************************************************)
(* The adapter reads the send buffer only between two fills, and what it   *)
(* finds there is the round after the last one delivered.                  *)
(***************************************************************************)
LEMMA NicContents ==
  ASSUME LinkTypeOK, NEW l \in Link, NicStep(l),
         NEW n \in Nat, NEW extra \in Nat, n = Delivered(l),
         NEW fills, fills = n + 1,
         LinkContents(l, FALSE, fills, extra)
  PROVE  /\ sbuf' = sbuf
         /\ dma'[l] = "half" => rbuf'[l]["P"] = Delivered(l)' + extra
         /\ dma'[l] # "half" =>
              Carries(rbuf[l], Delivered(l) - 1 + extra, Delivered(l) - 1 + extra)'
<1>1. Carries(sbuf[l], n + extra, n + extra)
  BY DEF LinkContents
<1>2. CASE NicFirstHalf(l)
  <2>1. /\ rbuf'[l]["P"] = sbuf[l]["P"] /\ dma'[l] = "half" /\ sbuf' = sbuf
        /\ UNCHANGED <<imm, buf_recv_counter>>
    BY <1>2 DEF NicFirstHalf, LinkTypeOK, Part, srvVars
  <2>. QED  BY <1>1, <2>1 DEF Carries, Delivered
<1>3. CASE NicSecondHalf(l)
  <2>1. /\ dma[l] = "half" /\ rbuf'[l]["P"] = rbuf[l]["P"] /\ rbuf'[l]["Q"] = sbuf[l]["Q"]
        /\ dma'[l] = "idle" /\ sbuf' = sbuf
    BY <1>3 DEF NicSecondHalf, LinkTypeOK, Part
  <2>2. Delivered(l)' = n + 1
    BY <1>3 DEF NicSecondHalf, LinkTypeOK, Delivered, One, srvVars
  <2>3. rbuf[l]["P"] = n + extra
    BY <2>1 DEF LinkContents
  <2>. QED  BY <1>1, <2>1, <2>2, <2>3 DEF Carries
<1>. QED  BY <1>2, <1>3 DEF NicStep

(***************************************************************************)
(* So the pollers and the adapters keep the invariant.                     *)
(***************************************************************************)
LEMMA LinkStepContents ==
  ASSUME IInv, ContentInv, UNCHANGED <<psVars, wkVars>>,
         (\E l \in Link : ClientStep(l) \/ ServerStep(l) \/ NicStep(l)) \/ UNCHANGED linkVars
  PROVE  ContentInv'
<1>. SUFFICES ASSUME NEW v \in Worker
              PROVE  PsContents(v)' /\ WkContents(v)' /\ DownContents(v)' /\ UpContents(v)'
  BY DEF ContentInv
<1>0. /\ Down(v) \in Link /\ Up(v) \in Link /\ Down(v) # Up(v)
      /\ LinkTypeOK /\ PsTypeOK /\ WkTypeOK /\ LinkIInv
      /\ PsContents(v) /\ WkContents(v) /\ DownContents(v) /\ UpContents(v)
  BY LinkNames DEF IInv, TypeOK, LinkIInv, ContentInv
<1>1. PsContents(v)' /\ WkContents(v)'
  BY <1>0, ContentFrame DEF psVars, wkVars
<1>2. UNCHANGED <<psSend, to_send_iter, wkSend, to_send_age>>
  BY DEF psVars, wkVars
<1>3. ASSUME NEW l \in Link, NicStep(l)
      PROVE  /\ posted[l] > 0
             /\ \A k \in Link : k # l => SameLink(k)
  <2>1. posted[l] > 0
    BY <1>0, <1>3 DEF NicStep, NicFirstHalf, NicSecondHalf, LinkIInv, PostedInv
  <2>2. ASSUME NEW k \in Link, k # l PROVE SameLink(k)
    <3>1. /\ sbuf' = sbuf /\ rbuf'[k] = rbuf[k] /\ dma'[k] = dma[k] /\ imm'[k] = imm[k]
          /\ buf_recv_counter' = buf_recv_counter
      BY <1>0, <1>3, <2>2 DEF NicStep, NicFirstHalf, NicSecondHalf, LinkTypeOK, srvVars
    <3>. QED  BY <3>1 DEF SameLink, Delivered
  <2>. QED  BY <2>1, <2>2
<1>4. ASSUME SameLink(Down(v)) \/ NicStep(Down(v))
      PROVE  DownContents(v)'
  <2>1. CASE SameLink(Down(v))
    BY <1>0, <1>2, <2>1, ContentFrame
  <2>2. CASE NicStep(Down(v))
    <3>1. psSend[v] # "copy" /\ to_send_iter[v] = Delivered(Down(v)) + 1
      BY <1>0, <1>3, <2>2, WorkingOn
    <3>2. Delivered(Down(v)) \in Nat
      BY <1>0, LinkCounters
    <3>3. PICK n \in Nat : n = Delivered(Down(v))
      BY <3>2
    <3>4. (psSend[v] = "copy") = FALSE
      BY <3>1
    <3>5. LinkContents(Down(v), FALSE, to_send_iter[v], 0)
      BY <1>0, <3>4 DEF DownContents
    <3>6. /\ sbuf' = sbuf
          /\ dma'[Down(v)] = "half" => rbuf'[Down(v)]["P"] = Delivered(Down(v))' + 0
          /\ dma'[Down(v)] # "half" =>
               Carries(rbuf[Down(v)], Delivered(Down(v)) - 1 + 0, Delivered(Down(v)) - 1 + 0)'
      BY <1>0, <2>2, <3>1, <3>3, <3>5, NicContents
    <3>. QED  BY <1>0, <1>2, <3>1, <3>6 DEF DownContents, LinkContents, Carries
  <2>. QED  BY <1>4, <2>1, <2>2
<1>5. ASSUME SameLink(Up(v)) \/ NicStep(Up(v))
      PROVE  UpContents(v)'
  <2>1. CASE SameLink(Up(v))
    BY <1>0, <1>2, <2>1, ContentFrame
  <2>2. CASE NicStep(Up(v))
    <3>1. wkSend[v] # "copy" /\ to_send_age[v] = Delivered(Up(v)) + 1
      BY <1>0, <1>3, <2>2, WorkingOn
    <3>2. Delivered(Up(v)) \in Nat
      BY <1>0, LinkCounters
    <3>3. PICK n \in Nat : n = Delivered(Up(v))
      BY <3>2
    <3>4. (wkSend[v] = "copy") = FALSE
      BY <3>1
    <3>5. LinkContents(Up(v), FALSE, to_send_age[v], 1)
      BY <1>0, <3>4 DEF UpContents
    <3>6. /\ sbuf' = sbuf
          /\ dma'[Up(v)] = "half" => rbuf'[Up(v)]["P"] = Delivered(Up(v))' + 1
          /\ dma'[Up(v)] # "half" =>
               Carries(rbuf[Up(v)], Delivered(Up(v)) - 1 + 1, Delivered(Up(v)) - 1 + 1)'
      BY <1>0, <2>2, <3>1, <3>3, <3>5, NicContents
    <3>. QED  BY <1>0, <1>2, <3>1, <3>6 DEF UpContents, LinkContents, Carries
  <2>. QED  BY <1>5, <2>1, <2>2
<1>6. CASE UNCHANGED linkVars
  <2>1. SameLink(Down(v)) /\ SameLink(Up(v))
    BY <1>0, <1>6, AppSame DEF Content
  <2>. QED  BY <1>1, <1>4, <1>5, <2>1
<1>7. ASSUME NEW l \in Link, ClientStep(l) \/ ServerStep(l) \/ NicStep(l)
      PROVE  DownContents(v)' /\ UpContents(v)'
  <2>1. ASSUME NEW k \in Link PROVE SameLink(k) \/ (k = l /\ NicStep(l))
    BY <1>0, <1>3, <1>7, PollerSame
  <2>2. SameLink(Down(v)) \/ NicStep(Down(v))
    BY <1>0, <2>1
  <2>3. SameLink(Up(v)) \/ NicStep(Up(v))
    BY <1>0, <2>1
  <2>. QED  BY <1>4, <1>5, <2>2, <2>3
<1>. QED  BY <1>1, <1>6, <1>7

-----------------------------------------------------------------------------
(***************************************************************************)
(* Every block and buffer carries the updates its counters say, in every   *)
(* reachable state.                                                        *)
(***************************************************************************)
THEOREM ContentsCorrect == Spec => []ContentInv
<1>1. Init => ContentInv
  <2>. SUFFICES ASSUME Init, NEW w \in Worker
                PROVE  PsContents(w) /\ WkContents(w) /\ DownContents(w) /\ UpContents(w)
    BY DEF ContentInv
  <2>1. PsContents(w)
    BY DEF Init, PsInit, PsContents, Carries, Part
  <2>2. WkContents(w)
    BY DEF Init, WkInit, WkContents
  <2>3. ASSUME NEW l \in Link PROVE Delivered(l) = 0 /\ dma[l] = "idle"
    BY DEF Init, LinkInit, Delivered, One
  <2>4. /\ psSend[w] = "check" /\ to_send_iter[w] = 0
        /\ wkSend[w] = "check" /\ to_send_age[w] = 0
    BY DEF Init, PsInit, WkInit
  <2>5. DownContents(w) /\ UpContents(w)
    BY <2>3, <2>4, LinkNames DEF DownContents, UpContents, LinkContents
  <2>. QED  BY <2>1, <2>2, <2>5
<1>2. IInv /\ ContentInv /\ [Next]_vars => ContentInv'
  <2>. SUFFICES ASSUME IInv, ContentInv, [Next]_vars PROVE ContentInv'
    OBVIOUS
  <2>1. CASE PsThread
    BY <2>1, PsThreadContents
  <2>2. CASE \E w \in Worker : WkThread(w)
    BY <2>2, WkThreadContents
  <2>3. CASE PsPoller \/ \E w \in Worker : WkPoller(w) \/ Nic(w)
    BY <2>3, LinkSteps, LinkStepContents DEF PsPoller
  <2>4. CASE UNCHANGED vars
    BY <2>4, LinkStepContents DEF vars
  <2>. QED  BY <2>1, <2>2, <2>3, <2>4 DEF Next
<1>. QED  BY <1>1, <1>2, Invariance, PTL DEF Spec

(***************************************************************************)
(* No update is lost, repeated or half applied: a round trains on blocks   *)
(* that carry every round before it once, and the parameter server holds   *)
(* exactly the rounds it collected.                                        *)
(***************************************************************************)
THEOREM UpdatesExact == Spec => []ExactlyOneUpdate
<1>1. ASSUME NEW f \in [Part -> Content], NEW p, NEW q, Carries(f, p, q)
      PROVE  f = [P |-> p, Q |-> q] /\ (p = q => f = Both(p))
  BY <1>1 DEF Carries, Both, Part
<1>2. IInv /\ ContentInv => ExactlyOneUpdate
  <2>. SUFFICES ASSUME IInv, ContentInv, NEW w \in Worker
                PROVE  /\ wkMain[w] = "train" =>
                            wkBlock[w] = [P |-> wk_completed_iter[w] + 2, Q |-> wk_completed_iter[w] + 1]
                       /\ psRecv[w] # "copy" => psBlocks[w] = Both(recved_iter[w] + 1)
    BY DEF ExactlyOneUpdate
  <2>1. /\ wkBlock[w] \in [Part -> Content] /\ psBlocks[w] \in [Part -> Content]
        /\ wk_completed_iter[w] \in Int
    BY DEF IInv, TypeOK, PsTypeOK, WkTypeOK
  <2>2. wkMain[w] = "train" =>
          Carries(wkBlock[w], wk_completed_iter[w] + 2, wk_completed_iter[w] + 1)
    BY <2>1 DEF ContentInv, WkContents, Carries
  <2>3. psRecv[w] # "copy" => Carries(psBlocks[w], recved_iter[w] + 1, recved_iter[w] + 1)
    BY DEF ContentInv, PsContents
  <2>. QED  BY <1>1, <2>1, <2>2, <2>3
<1>. QED  BY <1>2, Invariance, ContentsCorrect, PTL
=============================================================================
