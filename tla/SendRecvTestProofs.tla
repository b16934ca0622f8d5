------------------------- MODULE SendRecvTestProofs -------------------------
(***************************************************************************)
(* The safety of the pair of test programs, for any number of links and    *)
(* fills.  The counter that test_send compares with is stored after the    *)
(* poller has cleared can_send, so that a fill is never wiped.             *)
(***************************************************************************)
EXTENDS SendRecvTest, TwoSidedLinkProofs

(***************************************************************************)
(* A step of a link takes an offer only to write it, a poller with nothing *)
(* to send and nothing to clear stays so, and the reader's counter grows.  *)
(***************************************************************************)
LEMMA OfferKept ==
  ASSUME LinkTypeOK, NEW l \in Link, ClientStep(l) \/ ServerStep(l) \/ NicStep(l), NEW k \in Link
  PROVE  /\ buf_recv_counter[k] <= buf_recv_counter'[k]
         /\ (Written(k) + One(Pending(k)))' = Written(k) + One(Pending(k))
         /\ ~can_send[k] /\ cpc[k] # "posted" => ~can_send'[k] /\ cpc'[k] # "posted"
<1>. USE DEF LinkTypeOK, Written, Pending, One, cliVars, srvVars, nicVars
<1>1. CASE ClientPreConn(l)     BY <1>1 DEF ClientPreConn
<1>2. CASE ClientOnMessage(l)   BY <1>2 DEF ClientOnMessage
<1>3. CASE ClientWriteRemote(l) BY <1>3 DEF ClientWriteRemote
<1>4. CASE ClientClear(l)       BY <1>4 DEF ClientClear
<1>5. CASE ServerStep(l)
  BY <1>5 DEF ServerStep, ServerPreConn, ServerOnConnection, ServerOnWrite, ServerSendReady
<1>6. CASE NicStep(l)
  BY <1>6 DEF NicStep, NicFirstHalf, NicSecondHalf
<1>. QED  BY <1>1, <1>2, <1>3, <1>4, <1>5, <1>6 DEF ClientStep

LEMMA TestInit == Init => TestIInv
<1>. SUFFICES ASSUME Init PROVE TestIInv
  OBVIOUS
<1>1. LinkIInv
  BY LinkInitInv DEF Init
<1>2. TestTypeOK
  BY <1>1 DEF Init, TestTypeOK, LinkIInv, Blank, Content, NoData
<1>3. ASSUME NEW l \in Link
      PROVE  /\ to_send_counter[l] = Written(l) + One(Pending(l))
             /\ sender[l] # "copy" /\ reader[l] # "copy"
  BY DEF Init, LinkInit, Written, Pending, One
<1>. QED  BY <1>1, <1>2, <1>3 DEF TestIInv, LinkIInv

LEMMA TestNext ==
  ASSUME TestIInv, [Next]_vars
  PROVE  TestIInv'
<1>1. LinkIInv
  BY DEF TestIInv, LinkIInv, TestTypeOK
<1>2. CASE UNCHANGED vars
  BY <1>1, <1>2, LinkStutter
  DEF vars, linkVars, testVars, cliVars, srvVars, TestIInv, TestTypeOK, LinkIInv, Written, Pending, One
<1>3. ASSUME NEW l \in Link, LinkStep(l)
      PROVE  TestIInv'
  <2>1. LinkIInv'
    BY <1>1, <1>3, LinkStepType, LinkStepTurn, LinkStepPosted DEF LinkStep, LinkIInv
  <2>2. UNCHANGED testVars
    BY <1>3 DEF LinkStep
  <2>3. \A k \in Link :
          /\ buf_recv_counter[k] <= buf_recv_counter'[k]
          /\ (Written(k) + One(Pending(k)))' = Written(k) + One(Pending(k))
          /\ ~can_send[k] /\ cpc[k] # "posted" => ~can_send'[k] /\ cpc'[k] # "posted"
    BY <1>3, OfferKept DEF LinkStep, TestIInv, TestTypeOK
  <2>4. \A k \in Link : reader'[k] = "copy" => read_counter'[k] < buf_recv_counter'[k]
    <3>1. \A k \in Link : /\ read_counter[k] \in Nat /\ buf_recv_counter[k] \in Nat
                         /\ buf_recv_counter'[k] \in Nat
      BY <2>1 DEF TestIInv, TestTypeOK, LinkIInv, LinkTypeOK
    <3>. QED  BY <2>2, <2>3, <3>1 DEF TestIInv, testVars
  <2>. QED  BY <2>1, <2>2, <2>3, <2>4 DEF TestIInv, TestTypeOK, LinkIInv, testVars
<1>4. ASSUME NEW l \in Link, SendFirstHalf(l)
      PROVE  TestIInv'
  <2>1. to_send_counter[l] \in Content /\ FillP(l, to_send_counter[l])
    BY <1>4 DEF SendFirstHalf, TestIInv, TestTypeOK, Content
  <2>2. LinkIInv'
    BY <1>1, <2>1, AppStepInv
  <2>3. ~can_send[l] /\ cpc[l] # "posted"
    BY <1>4 DEF SendFirstHalf, TestCanSend, TestIInv, TestTypeOK, LinkTypeOK, Written, Pending, One
  <2>4. /\ sender' = [sender EXCEPT ![l] = "copy"]
        /\ UNCHANGED <<to_send_counter, read_counter, reader, printed, can_send,
                      buf_write_counter, cpc, buf_recv_counter>>
    BY <1>4 DEF SendFirstHalf, FillP, cliVars, srvVars
  <2>. QED
    BY <2>2, <2>3, <2>4 DEF TestIInv, TestTypeOK, LinkIInv, Written, Pending, One
<1>5. ASSUME NEW l \in Link, SendSecondHalf(l)
      PROVE  TestIInv'
  <2>1. to_send_counter[l] \in Content /\ FillQAndOffer(l, to_send_counter[l])
    BY <1>5 DEF SendSecondHalf, TestIInv, TestTypeOK, Content
  <2>2. LinkIInv'
    BY <1>1, <2>1, AppStepInv
  <2>3. ~can_send[l] /\ cpc[l] # "posted"
    BY <1>5 DEF SendSecondHalf, TestIInv
  <2>4. /\ sender' = [sender EXCEPT ![l] = "check"]
        /\ to_send_counter' = [to_send_counter EXCEPT ![l] = @ + 1]
        /\ can_send' = [can_send EXCEPT ![l] = TRUE]
        /\ UNCHANGED <<read_counter, reader, printed, buf_write_counter, cpc, buf_recv_counter>>
    BY <1>5 DEF SendSecondHalf, FillQAndOffer, srvVars
  <2>5. TestTypeOK'
    BY <2>2, <2>4 DEF TestIInv, TestTypeOK, LinkIInv
  <2>6. ASSUME NEW k \in Link
        PROVE  /\ (to_send_counter[k] = Written(k) + One(Pending(k)))'
               /\ sender'[k] = "copy" => ~can_send'[k] /\ cpc'[k] # "posted"
               /\ reader'[k] = "copy" => read_counter'[k] < buf_recv_counter'[k]
    BY <2>3, <2>4 DEF TestIInv, TestTypeOK, LinkTypeOK, Written, Pending, One
  <2>. QED  BY <2>2, <2>5, <2>6 DEF TestIInv, LinkIInv
<1>6. ASSUME NEW l \in Link, ReadFirstHalf(l) \/ ReadSecondHalf(l)
      PROVE  TestIInv'
  <2>1. LinkIInv'
    BY <1>1, <1>6, LinkStutter DEF ReadFirstHalf, ReadSecondHalf
  <2>2. UNCHANGED <<to_send_counter, sender, can_send, buf_write_counter, cpc, buf_recv_counter>>
    BY <1>6 DEF ReadFirstHalf, ReadSecondHalf, linkVars, cliVars, srvVars
  <2>3. \A x \in Part : [printed EXCEPT ![l][x] = rbuf[l][x]] \in [Link -> [Part -> Content]]
    BY DEF TestIInv, TestTypeOK, LinkTypeOK
  <2>4. printed' \in [Link -> [Part -> Content]]
    BY <1>6, <2>3 DEF ReadFirstHalf, ReadSecondHalf, Part
  <2>5. TestTypeOK'
    BY <1>6, <2>1, <2>4 DEF ReadFirstHalf, ReadSecondHalf, TestIInv, TestTypeOK, LinkIInv
  <2>6. \A k \in Link : reader'[k] = "copy" => read_counter'[k] < buf_recv_counter'[k]
    <3>1. CASE ReadFirstHalf(l)
      BY <2>2, <3>1 DEF ReadFirstHalf, TestCanRead, TestIInv, TestTypeOK, LinkTypeOK
    <3>2. CASE ReadSecondHalf(l)
      BY <2>2, <3>2 DEF ReadSecondHalf, TestIInv, TestTypeOK
    <3>. QED  BY <1>6, <3>1, <3>2
  <2>. QED  BY <2>1, <2>2, <2>5, <2>6 DEF TestIInv, LinkIInv, Written, Pending, One
<1>7. ASSUME NEW l \in Link, ReadRelease(l)
      PROVE  TestIInv'
  <2>1. LinkIInv'
    BY <1>1, <1>7, AppStepInv DEF ReadRelease, Content
  <2>2. /\ UNCHANGED <<to_send_counter, sender, read_counter, printed, can_send,
                      buf_write_counter, cpc, buf_recv_counter>>
        /\ reader' = [reader EXCEPT ![l] = "wait"]
    BY <1>7 DEF ReadRelease, Release, cliVars
  <2>. QED  BY <2>1, <2>2 DEF TestIInv, TestTypeOK, LinkIInv, Written, Pending, One
<1>. QED  BY <1>2, <1>3, <1>4, <1>5, <1>6, <1>7 DEF Next, Sender, Reader

-----------------------------------------------------------------------------
(***************************************************************************)
(* TestIInv holds however the two main threads, the pollers and the        *)
(* adapter interleave.                                                     *)
(***************************************************************************)
THEOREM TestInvariance == Spec => []TestIInv
BY TestInit, TestNext, PTL DEF Spec

(***************************************************************************)
(* The variables of test_send, test_recv and their link keep their types.  *)
(***************************************************************************)
THEOREM TestTypes == Spec => []TestTypeOK
<1>1. TestIInv => TestTypeOK
  BY DEF TestIInv
<1>. QED  BY TestInvariance, <1>1, PTL

(***************************************************************************)
(* test_send waits for buf_write_counter, which the poller stores after it *)
(* cleared can_send: no fill is written twice, and none is skipped.        *)
(***************************************************************************)
THEOREM WritesMatchFills == Spec => []OneWritePerFill
<1>1. TestIInv => OneWritePerFill
  <2>. SUFFICES ASSUME TestIInv, NEW l \in Link
                PROVE  to_send_counter[l] \in {Written(l), Written(l) + 1}
    BY DEF OneWritePerFill
  <2>1. Written(l) \in Nat
    BY DEF TestIInv, TestTypeOK, LinkTypeOK, Written, One
  <2>2. to_send_counter[l] = Written(l) + One(Pending(l))
    BY DEF TestIInv
  <2>. QED  BY <2>1, <2>2 DEF One
<1>. QED  BY TestInvariance, <1>1, PTL

(***************************************************************************)
(* One party of the link has the turn, though the test programs set        *)
(* can_recv whether or not they have read.                                 *)
(***************************************************************************)
THEOREM TestTurn == Spec => []OneTurn
<1>1. TestIInv => OneTurn
  BY DEF TestIInv
<1>. QED  BY TestInvariance, <1>1, PTL

-----------------------------------------------------------------------------
(***************************************************************************)
(* Refinement.  Of a link's own steps the client's post sends a message    *)
(* and the end of the adapter's write lets it arrive; no other counts.     *)
(***************************************************************************)
LEMMA LinkRelays ==
  ASSUME TestIInv, NEW l \in Link, ClientStep(l) \/ ServerStep(l) \/ NicStep(l)
  PROVE  \/ \A k \in Link : Written(k)' = Written(k) /\ Delivered(k)' = Delivered(k)
         \/ /\ Written(l) < to_send_counter[l] /\ Delivered(l) = Written(l)
            /\ Written(l)' = Written(l) + 1
            /\ \A k \in Link : Delivered(k)' = Delivered(k) /\ (k # l => Written(k)' = Written(k))
         \/ /\ Delivered(l) < Written(l)
            /\ Delivered(l)' = Delivered(l) + 1
            /\ \A k \in Link : Written(k)' = Written(k) /\ (k # l => Delivered(k)' = Delivered(k))
<1>1. LinkTypeOK
  BY DEF TestIInv, TestTypeOK
<1>2. Written(l) = Delivered(l) + posted[l] /\ Written(l) \in Nat /\ Delivered(l) \in Nat /\ posted[l] \in Nat
  BY <1>1 DEF TestIInv, PostedInv, LinkTypeOK, Written, Delivered, One
<1>3. CASE ClientWriteRemote(l)
  <2>1. cpc[l] = "spin" /\ can_send[l] /\ cpc' = [cpc EXCEPT ![l] = "posted"]
        /\ UNCHANGED <<buf_write_counter, buf_recv_counter, imm>>
    BY <1>3 DEF ClientWriteRemote, srvVars
  <2>2. posted[l] = 0
    <3>. DEFINE message == One(imm[l])
                answer  == One(spc[l] = "spin")
                turns   == One(cm[l] = "up")
    <3>1. ready[l] + 1 + posted[l] + message + answer = turns
      BY <2>1 DEF TestIInv, OneTurn, One
    <3>2. /\ ready[l] \in Nat /\ message \in Nat /\ answer \in Nat
          /\ turns \in {0, 1} /\ posted[l] \in Nat
      BY <1>1, <1>2 DEF LinkTypeOK, One
    <3>. HIDE DEF message, answer, turns
    <3>. QED  BY <3>1, <3>2
  <2>3. to_send_counter[l] = Written(l) + 1
    <3>1. Pending(l)
      BY <2>1 DEF Pending
    <3>. QED  BY <3>1 DEF TestIInv, One
  <2>4. Written(l)' = Written(l) + 1
    BY <1>1, <2>1 DEF LinkTypeOK, Written, One
  <2>5. \A k \in Link : Delivered(k)' = Delivered(k) /\ (k # l => Written(k)' = Written(k))
    BY <1>1, <2>1 DEF LinkTypeOK, Written, Delivered
  <2>. QED  BY <1>2, <2>2, <2>3, <2>4, <2>5
<1>4. CASE NicSecondHalf(l)
  <2>1. ~imm[l] /\ dma[l] = "half" /\ imm' = [imm EXCEPT ![l] = TRUE]
        /\ UNCHANGED <<buf_write_counter, cpc, buf_recv_counter>>
    BY <1>4 DEF NicSecondHalf, cliVars, srvVars
  <2>2. posted[l] > 0
    BY <2>1 DEF TestIInv, PostedInv
  <2>3. Delivered(l)' = Delivered(l) + 1
    BY <1>1, <2>1 DEF LinkTypeOK, Delivered, One
  <2>4. \A k \in Link : Written(k)' = Written(k) /\ (k # l => Delivered(k)' = Delivered(k))
    BY <1>1, <2>1 DEF LinkTypeOK, Written, Delivered
  <2>. QED  BY <1>2, <2>2, <2>3, <2>4
<1>5. CASE \/ ClientPreConn(l) \/ ClientOnMessage(l) \/ ClientClear(l)
           \/ ServerStep(l) \/ NicFirstHalf(l)
  <2>. USE DEF LinkTypeOK, Written, Delivered, One, cliVars, srvVars, nicVars
  <2>1. CASE ClientPreConn(l)   BY <1>1, <2>1 DEF ClientPreConn
  <2>2. CASE ClientOnMessage(l) BY <1>1, <2>2 DEF ClientOnMessage
  <2>3. CASE ClientClear(l)     BY <1>1, <2>3 DEF ClientClear
  <2>4. CASE NicFirstHalf(l)    BY <1>1, <2>4 DEF NicFirstHalf
  <2>5. CASE ServerPreConn(l) \/ ServerOnConnection(l) \/ ServerSendReady(l)
    BY <2>5 DEF ServerPreConn, ServerOnConnection, ServerSendReady
  <2>6. CASE ServerOnWrite(l)
    <3>1. UNCHANGED <<cpc, buf_write_counter>>
      BY <2>6 DEF ServerOnWrite
    <3>2. ASSUME NEW k \in Link PROVE Delivered(k)' = Delivered(k)
      <4>1. CASE k = l
        BY <1>1, <2>6, <4>1 DEF ServerOnWrite
      <4>2. CASE k # l
        BY <1>1, <2>6, <4>2 DEF ServerOnWrite
      <4>. QED  BY <4>1, <4>2
    <3>. QED  BY <3>1, <3>2
  <2>. QED  BY <1>5, <2>1, <2>2, <2>3, <2>4, <2>5, <2>6 DEF ServerStep
<1>. QED  BY <1>3, <1>4, <1>5 DEF ClientStep, NicStep

LEMMA RelayStep ==
  ASSUME TestIInv, [Next]_vars
  PROVE  [Messages!Next]_(Messages!vars)
<1>. USE DEF Messages!vars
<1>. DEFINE sent    == [l \in Link |-> Written(l)]
            arrived == [l \in Link |-> Delivered(l)]
<1>1. LinkTypeOK /\ TestTypeOK
  BY DEF TestIInv, TestTypeOK
<1>2. ASSUME UNCHANGED <<to_send_counter, read_counter>>,
             \A k \in Link : Written(k)' = Written(k) /\ Delivered(k)' = Delivered(k)
      PROVE  UNCHANGED Messages!vars
  BY <1>2
<1>3. CASE UNCHANGED vars
  BY <1>2, <1>3 DEF vars, linkVars, testVars, cliVars, srvVars, nicVars, Written, Delivered
<1>4. ASSUME NEW l \in Link, LinkStep(l) PROVE [Messages!Next]_(Messages!vars)
  <2>1. UNCHANGED <<to_send_counter, read_counter>>
    BY <1>4 DEF LinkStep, testVars
  <2>2. CASE \A k \in Link : Written(k)' = Written(k) /\ Delivered(k)' = Delivered(k)
    BY <1>2, <2>1, <2>2
  <2>3. CASE /\ Written(l) < to_send_counter[l] /\ Delivered(l) = Written(l)
             /\ Written(l)' = Written(l) + 1
             /\ \A k \in Link : Delivered(k)' = Delivered(k) /\ (k # l => Written(k)' = Written(k))
    <3>1. sent' = [sent EXCEPT ![l] = @ + 1] /\ UNCHANGED arrived
      BY <2>3
    <3>2. Messages!Send(l)
      BY <2>1, <2>3, <3>1 DEF Messages!Send
    <3>. QED  BY <3>2 DEF Messages!Next
  <2>4. CASE /\ Delivered(l) < Written(l)
             /\ Delivered(l)' = Delivered(l) + 1
             /\ \A k \in Link : Written(k)' = Written(k) /\ (k # l => Delivered(k)' = Delivered(k))
    <3>1. arrived' = [arrived EXCEPT ![l] = @ + 1] /\ UNCHANGED sent
      BY <2>4
    <3>2. Messages!Arrive(l)
      BY <2>1, <2>4, <3>1 DEF Messages!Arrive
    <3>. QED  BY <3>2 DEF Messages!Next
  <2>. QED  BY <1>4, <2>2, <2>3, <2>4, LinkRelays DEF LinkStep
<1>5. ASSUME NEW l \in Link, Sender(l) PROVE [Messages!Next]_(Messages!vars)
  <2>1. CASE SendFirstHalf(l)
    BY <1>2, <2>1 DEF SendFirstHalf, FillP, cliVars, srvVars, nicVars, Written, Delivered
  <2>2. CASE SendSecondHalf(l)
    <3>1. UNCHANGED <<sent, arrived, read_counter>>
      BY <2>2 DEF SendSecondHalf, FillQAndOffer, srvVars, nicVars, Written, Delivered
    <3>2. to_send_counter' = [to_send_counter EXCEPT ![l] = @ + 1]
      BY <2>2 DEF SendSecondHalf
    <3>3. sent[l] = to_send_counter[l]
      BY <1>1, <2>2 DEF SendSecondHalf, TestIInv, TestTypeOK, LinkTypeOK, Pending, Written, One
    <3>4. Messages!Fill(l)
      BY <3>1, <3>2, <3>3 DEF Messages!Fill
    <3>. QED  BY <3>4 DEF Messages!Next
  <2>. QED  BY <1>5, <2>1, <2>2 DEF Sender
<1>6. ASSUME NEW l \in Link, Reader(l) PROVE [Messages!Next]_(Messages!vars)
  <2>1. UNCHANGED <<sent, arrived, to_send_counter>>
    BY <1>6 DEF Reader, ReadFirstHalf, ReadSecondHalf, ReadRelease, Release, linkVars, cliVars,
                srvVars, nicVars, Written, Delivered
  <2>2. CASE UNCHANGED read_counter
    BY <2>1, <2>2
  <2>3. CASE ReadSecondHalf(l)
    <3>1. read_counter' = [read_counter EXCEPT ![l] = @ + 1] /\ read_counter[l] < buf_recv_counter[l]
      BY <2>3 DEF ReadSecondHalf, TestIInv
    <3>2. read_counter[l] < arrived[l]
      BY <1>1, <3>1 DEF TestTypeOK, LinkTypeOK, Delivered, One
    <3>3. Messages!Read(l)
      BY <2>1, <3>1, <3>2 DEF Messages!Read
    <3>. QED  BY <3>3 DEF Messages!Next
  <2>. QED  BY <1>6, <2>2, <2>3 DEF Reader, ReadFirstHalf, ReadRelease
<1>. QED  BY <1>3, <1>4, <1>5, <1>6 DEF Next

(***************************************************************************)
(* Every behaviour of test_send and test_recv relays messages one by one,  *)
(* for any number of links and fills.                                      *)
(***************************************************************************)
THEOREM RelayRefinement == Spec => ImplementsRelay
<1>1. Init => Messages!Init
  BY DEF Init, LinkInit, Messages!Init, Written, Delivered, One
<1>2. TestIInv /\ [Next]_vars => [Messages!Next]_(Messages!vars)
  BY RelayStep
<1>. QED  BY <1>1, <1>2, TestInvariance, PTL DEF Spec, ImplementsRelay, Messages!Spec
=============================================================================
