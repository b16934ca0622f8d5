------------------------- MODULE TwoSidedLinkProofs -------------------------
(***************************************************************************)
(* Lemmas about the steps of a link: each keeps LinkTypeOK, OneTurn and    *)
(* PostedInv, and what it may do to the quantities the applications'       *)
(* invariants speak of.                                                    *)
(***************************************************************************)
EXTENDS TwoSidedLink, TLAPS

LinkIInv == LinkTypeOK /\ OneTurn /\ PostedInv

(***************************************************************************)
(* A new link (contexts reset by InitContext) satisfies the invariants.    *)
(***************************************************************************)
LEMMA LinkInitInv ==
  ASSUME NEW r \in BOOLEAN, LinkInit(r)
  PROVE  LinkIInv
<1>1. LinkTypeOK
  BY DEF LinkInit, LinkTypeOK, Blank, Content, NoData
<1>. SUFFICES ASSUME NEW l \in Link
              PROVE  /\ ready[l] + One(cpc[l] = "spin") + posted[l] + One(imm[l])
                          + One(spc[l] = "spin") = One(cm[l] = "up")
                     /\ Written(l) = Delivered(l) + posted[l]
                     /\ dma[l] = "half" => posted[l] > 0
  BY <1>1 DEF OneTurn, PostedInv, LinkIInv
<1>2. ready[l] = 0 /\ posted[l] = 0 /\ buf_write_counter[l] = 0 /\ buf_recv_counter[l] = 0
  BY DEF LinkInit
<1>3. cpc[l] = "poll" /\ spc[l] = "poll" /\ cm[l] = "new" /\ dma[l] = "idle"
  BY DEF LinkInit
<1>4. ~imm[l]
  BY DEF LinkInit
<1>. QED  BY <1>2, <1>3, <1>4 DEF Written, Delivered, One

-----------------------------------------------------------------------------
(***************************************************************************)
(* The pollers and the connection manager of a link keep the invariants:   *)
(* client_on_completion and server_on_completion hand the turn over.       *)
(***************************************************************************)
LEMMA LinkStepType ==
  ASSUME LinkIInv, NEW l \in Link, ClientStep(l) \/ ServerStep(l) \/ NicStep(l)
  PROVE  LinkTypeOK'
<1>. USE DEF LinkIInv, LinkTypeOK, cliVars, srvVars, nicVars
<1>1. CASE ClientPreConn(l) BY <1>1 DEF ClientPreConn
<1>2. CASE ClientOnMessage(l) BY <1>2 DEF ClientOnMessage
<1>3. CASE ClientWriteRemote(l) BY <1>3 DEF ClientWriteRemote
<1>4. CASE ClientClear(l) BY <1>4 DEF ClientClear
<1>5. CASE ServerPreConn(l) BY <1>5 DEF ServerPreConn
<1>6. CASE ServerOnConnection(l) BY <1>6 DEF ServerOnConnection
<1>7. CASE ServerOnWrite(l) BY <1>7 DEF ServerOnWrite
<1>8. CASE ServerSendReady(l) BY <1>8 DEF ServerSendReady
<1>9. CASE NicFirstHalf(l) BY <1>9 DEF NicFirstHalf, Part
<1>10. CASE NicSecondHalf(l) BY <1>10 DEF NicSecondHalf, PostedInv, Part
<1>. QED
  BY <1>1, <1>2, <1>3, <1>4, <1>5, <1>6, <1>7, <1>8, <1>9, <1>10
  DEF ClientStep, ServerStep, NicStep

LEMMA LinkStepTurn ==
  ASSUME LinkIInv, NEW l \in Link, ClientStep(l) \/ ServerStep(l) \/ NicStep(l)
  PROVE  OneTurn'
<1>. USE DEF LinkIInv, LinkTypeOK, OneTurn, One, cliVars, srvVars, nicVars
<1>1. CASE ClientPreConn(l) BY <1>1 DEF ClientPreConn
<1>2. CASE ClientOnMessage(l) BY <1>2 DEF ClientOnMessage
<1>3. CASE ClientWriteRemote(l) BY <1>3 DEF ClientWriteRemote
<1>4. CASE ClientClear(l) BY <1>4 DEF ClientClear
<1>5. CASE ServerPreConn(l) BY <1>5 DEF ServerPreConn
<1>6. CASE ServerOnConnection(l) BY <1>6 DEF ServerOnConnection
<1>7. CASE ServerOnWrite(l) BY <1>7 DEF ServerOnWrite
<1>8. CASE ServerSendReady(l) BY <1>8 DEF ServerSendReady
<1>9. CASE NicFirstHalf(l) BY <1>9 DEF NicFirstHalf
<1>10. CASE NicSecondHalf(l) BY <1>10 DEF NicSecondHalf
<1>. QED
  BY <1>1, <1>2, <1>3, <1>4, <1>5, <1>6, <1>7, <1>8, <1>9, <1>10
  DEF ClientStep, ServerStep, NicStep

LEMMA LinkStepPosted ==
  ASSUME LinkIInv, NEW l \in Link, ClientStep(l) \/ ServerStep(l) \/ NicStep(l)
  PROVE  PostedInv'
<1>. USE DEF LinkIInv, LinkTypeOK, PostedInv, Written, Delivered, One, cliVars, srvVars, nicVars
<1>1. CASE ClientPreConn(l) BY <1>1 DEF ClientPreConn
<1>2. CASE ClientOnMessage(l) BY <1>2 DEF ClientOnMessage
<1>3. CASE ClientWriteRemote(l)
  <2>. SUFFICES ASSUME NEW k \in Link
                PROVE  /\ Written(k)' = Delivered(k)' + posted'[k]
                       /\ dma'[k] = "half" => posted'[k] > 0
    OBVIOUS
  <2>1. CASE k = l
    <3>1. Written(k)' = Written(k) + 1  BY <1>3, <2>1 DEF ClientWriteRemote
    <3>2. posted'[k] = posted[k] + 1    BY <1>3, <2>1 DEF ClientWriteRemote
    <3>3. Delivered(k)' = Delivered(k)  BY <1>3 DEF ClientWriteRemote
    <3>4. Written(k) = Delivered(k) + posted[k] /\ Delivered(k) \in Nat /\ posted[k] \in Nat
      OBVIOUS
    <3>. HIDE DEF LinkIInv, LinkTypeOK, PostedInv, Written, Delivered, One
    <3>. QED  BY <3>1, <3>2, <3>3, <3>4
  <2>2. CASE k # l  BY <1>3, <2>2 DEF ClientWriteRemote
  <2>. QED  BY <2>1, <2>2
<1>4. CASE ClientClear(l) BY <1>4 DEF ClientClear
<1>5. CASE ServerPreConn(l) BY <1>5 DEF ServerPreConn
<1>6. CASE ServerOnConnection(l) BY <1>6 DEF ServerOnConnection
<1>7. CASE ServerOnWrite(l) BY <1>7 DEF ServerOnWrite
<1>8. CASE ServerSendReady(l) BY <1>8 DEF ServerSendReady
<1>9. CASE NicFirstHalf(l) BY <1>9 DEF NicFirstHalf
<1>10. CASE NicSecondHalf(l) BY <1>10, SMTT(30) DEF NicSecondHalf, OneTurn
<1>. QED
  BY <1>1, <1>2, <1>3, <1>4, <1>5, <1>6, <1>7, <1>8, <1>9, <1>10
  DEF ClientStep, ServerStep, NicStep

(***************************************************************************)
(* Steps that leave the link alone keep the invariants.                    *)
(***************************************************************************)
LEMMA LinkStutter ==
  ASSUME LinkIInv, UNCHANGED linkVars
  PROVE  LinkIInv'
BY DEF LinkIInv, LinkTypeOK, OneTurn, PostedInv, Written, Delivered, One,
       linkVars, cliVars, srvVars, nicVars

(***************************************************************************)
(* So do the accesses of the application threads.                          *)
(***************************************************************************)
LEMMA AppStepInv ==
  ASSUME LinkIInv, NEW l \in Link, NEW c \in Content,
         FillP(l, c) \/ FillQAndOffer(l, c) \/ Release(l)
  PROVE  LinkIInv'
<1>. USE DEF FillP, FillQAndOffer, Release, cliVars, srvVars, nicVars, LinkIInv, LinkTypeOK
<1>1. LinkTypeOK'
  <2>1. CASE FillP(l, c)          BY <2>1 DEF Part
  <2>2. CASE FillQAndOffer(l, c)  BY <2>2 DEF Part
  <2>3. CASE Release(l)           BY <2>3
  <2>. QED  BY <2>1, <2>2, <2>3
<1>2. OneTurn'     BY DEF OneTurn, One
<1>3. PostedInv'   BY DEF PostedInv, Written, Delivered, One
<1>. QED  BY <1>1, <1>2, <1>3

-----------------------------------------------------------------------------
(***************************************************************************)
(* What the applications can rely on: a step of the link never takes back  *)
(* an arrival, and it writes only what is offered (can_send), withdrawing  *)
(* the offer no later than client_on_completion returns.                   *)
(***************************************************************************)
LEMMA LinkStepEffect ==
  ASSUME LinkTypeOK, NEW l \in Link, ClientStep(l) \/ ServerStep(l) \/ NicStep(l), NEW k \in Link
  PROVE  /\ buf_recv_counter'[k] >= buf_recv_counter[k]
         /\ \/ Written(k)' = Written(k) /\ (Pending(k)' => Pending(k))
            \/ Written(k)' = Written(k) + 1 /\ Pending(k) /\ ~Pending(k)'
<1>. USE DEF LinkTypeOK, Written, Pending, One, cliVars, srvVars, nicVars
<1>1. CASE ClientPreConn(l) BY <1>1 DEF ClientPreConn
<1>2. CASE ClientOnMessage(l) BY <1>2 DEF ClientOnMessage
<1>3. CASE ClientWriteRemote(l) BY <1>3 DEF ClientWriteRemote
<1>4. CASE ClientClear(l) BY <1>4 DEF ClientClear
<1>5. CASE ServerPreConn(l) BY <1>5 DEF ServerPreConn
<1>6. CASE ServerOnConnection(l) BY <1>6 DEF ServerOnConnection
<1>7. CASE ServerOnWrite(l) BY <1>7 DEF ServerOnWrite
<1>8. CASE ServerSendReady(l) BY <1>8 DEF ServerSendReady
<1>9. CASE NicFirstHalf(l) BY <1>9 DEF NicFirstHalf
<1>10. CASE NicSecondHalf(l) BY <1>10 DEF NicSecondHalf
<1>. QED
  BY <1>1, <1>2, <1>3, <1>4, <1>5, <1>6, <1>7, <1>8, <1>9, <1>10
  DEF ClientStep, ServerStep, NicStep

(***************************************************************************)
(* A connection is only ever set up further; the client's side of it is    *)
(* registered by the client's own thread (client_on_pre_conn), and nothing *)
(* arrives before the server has sent MSG_MR.                              *)
(***************************************************************************)
LEMMA LinkStepConnects ==
  ASSUME LinkIInv, NEW l \in Link, ClientStep(l) \/ ServerStep(l) \/ NicStep(l), NEW k \in Link
  PROVE  /\ ServerRegistered(k) => ServerRegistered(k)'
         /\ ClientRegistered(k)' => ClientRegistered(k) \/ (k = l /\ ClientPreConn(l))
         /\ (cm[k] # "up" => buf_recv_counter[k] = 0)
              => (cm[k] # "up" => buf_recv_counter[k] = 0)'
<1>. USE DEF LinkIInv, LinkTypeOK, ServerRegistered, ClientRegistered, cliVars, srvVars, nicVars
<1>1. CASE ClientPreConn(l) BY <1>1 DEF ClientPreConn
<1>2. CASE ServerPreConn(l) BY <1>2 DEF ServerPreConn
<1>3. CASE ServerOnConnection(l) BY <1>3 DEF ServerOnConnection
<1>4. CASE ServerOnWrite(l)
  <2>1. imm[l] /\ ready[l] \in Nat /\ posted[l] \in Nat
    BY <1>4 DEF ServerOnWrite
  <2>2. ready[l] + One(cpc[l] = "spin") + posted[l] + One(imm[l]) + One(spc[l] = "spin")
          = One(cm[l] = "up")
    BY DEF OneTurn
  <2>3. cm[l] = "up"
    BY <2>1, <2>2 DEF One
  <2>. QED  BY <1>4, <2>3 DEF ServerOnWrite
<1>5. CASE ClientOnMessage(l) \/ ClientWriteRemote(l) \/ ClientClear(l)
  BY <1>5 DEF ClientOnMessage, ClientWriteRemote, ClientClear
<1>6. CASE ServerSendReady(l) \/ NicStep(l)
  BY <1>6 DEF ServerSendReady, NicStep, NicFirstHalf, NicSecondHalf
<1>. QED  BY <1>1, <1>2, <1>3, <1>4, <1>5, <1>6 DEF ClientStep, ServerStep

(***************************************************************************)
(* The counters are numbers, and between them a link holds at most one     *)
(* message: the one that has the turn.                                     *)
(***************************************************************************)
LEMMA LinkCounters ==
  ASSUME LinkIInv, NEW l \in Link
  PROVE  /\ Written(l) \in Nat /\ Delivered(l) \in Nat /\ posted[l] \in Nat
         /\ buf_recv_counter[l] \in Nat
         /\ buf_recv_counter[l] <= Delivered(l)
         /\ Written(l) = Delivered(l) + posted[l]
         /\ dma[l] = "half" => Delivered(l) < Written(l)
BY DEF LinkIInv, LinkTypeOK, PostedInv, Written, Delivered, One
=============================================================================
