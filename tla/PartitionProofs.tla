-------------------------- MODULE PartitionProofs ---------------------------
(***************************************************************************)
(* partitionBlock for every size and every number of workers: the blocks   *)
(* partition the rows, and the bounds below which none is empty and none   *)
(* overruns the registered buffer.                                         *)
(***************************************************************************)
EXTENDS Partition, TLAPS

-----------------------------------------------------------------------------
(***************************************************************************)
(* Arithmetic.  Products of two variables are beyond the solver's linear   *)
(* reasoning; these few facts about them are all that is needed.           *)
(***************************************************************************)
LEMMA TimesMonotone ==
  ASSUME NEW a \in Nat, NEW b \in Nat, NEW h \in Nat, a <= b
  PROVE  a * h <= b * h
<1>1. PICK d \in Nat : b = a + d
  <2>1. b - a \in Nat /\ b = a + (b - a)
    OBVIOUS
  <2>. QED  BY <2>1
<1>2. b * h = a * h + d * h
  BY <1>1
<1>3. d * h \in Nat /\ a * h \in Nat
  OBVIOUS
<1>. QED  BY <1>2, <1>3

LEMMA DivRange ==
  ASSUME NEW a \in Nat, NEW b \in Nat \ {0}
  PROVE  /\ a \div b \in Nat
         /\ b * (a \div b) <= a
         /\ a < b * (a \div b) + b
OBVIOUS

(***************************************************************************)
(* The height partitionBlock rounds up to: worker_num blocks of it cover   *)
(* the rows, with less than one row per block to spare.                    *)
(***************************************************************************)
LEMMA HeightRange ==
  ASSUME NEW rc \in Nat \ {0}, NEW p \in Nat \ {0}
  PROVE  /\ Height(rc, p) \in Nat \ {0}
         /\ rc <= p * Height(rc, p)
         /\ p * Height(rc, p) <= rc + p - 1
<1>1. rc + p - 1 \in Nat
  OBVIOUS
<1>2. /\ Height(rc, p) \in Nat
      /\ p * Height(rc, p) <= rc + p - 1
      /\ rc + p - 1 < p * Height(rc, p) + p
  BY <1>1, DivRange DEF Height
<1>3. p * Height(rc, p) \in Nat
  BY <1>2
<1>4. rc <= p * Height(rc, p)
  BY <1>2, <1>3
<1>5. Height(rc, p) # 0
  BY <1>4, <1>2
<1>. QED  BY <1>2, <1>4, <1>5

(***************************************************************************)
(* The rows the first w blocks of height h get of rc.                      *)
(***************************************************************************)
Reached(w, h, rc) == IF w * h <= rc THEN w * h ELSE rc

LEMMA ReachedStep ==
  ASSUME NEW w \in Nat, NEW h \in Nat \ {0}, NEW rc \in Nat
  PROVE  /\ Reached(w, h, rc) \in Nat
         /\ Given(Reached(w, h, rc), h, rc) \in Nat
         /\ Reached(w + 1, h, rc) = Reached(w, h, rc) + Given(Reached(w, h, rc), h, rc)
         /\ Given(Reached(w, h, rc), h, rc) <= h
         /\ w * h < rc => /\ Given(Reached(w, h, rc), h, rc) > 0
                          /\ Reached(w, h, rc) = w * h
         /\ w * h >= rc => Given(Reached(w, h, rc), h, rc) = 0
         /\ (w + 1) * h <= rc => Reached(w + 1, h, rc) = (w + 1) * h
         /\ (w + 1) * h >= rc => Reached(w + 1, h, rc) = rc
         /\ Reached(w + 1, h, rc) <= rc
<1>1. (w + 1) * h = w * h + h /\ w * h \in Nat
  OBVIOUS
<1>. DEFINE m == w * h
<1>2. m \in Nat /\ (w + 1) * h = m + h
  BY <1>1
<1>. HIDE DEF m
<1>3. Reached(w, h, rc) = IF m <= rc THEN m ELSE rc
  BY DEF Reached, m
<1>4. Reached(w + 1, h, rc) = IF m + h <= rc THEN m + h ELSE rc
  BY <1>2 DEF Reached
<1>. QED  BY <1>2, <1>3, <1>4 DEF Given, m

-----------------------------------------------------------------------------
(***************************************************************************)
(* The inductive invariant: the loop has given out the rows the blocks     *)
(* before its counter reach, and every block written is where its index    *)
(* says.  What is sent, and who has crashed, follows from the blocks.      *)
(***************************************************************************)
H(x) == Height(rows[x], worker_num)

Written(x, w) == Partitioned(x) \/ (matrix = x /\ w < i)

BlocksInv ==
  \A x \in Matrix, w \in Worker : Written(x, w) =>
    /\ sta_idx[x][w] = w * H(x)
    /\ height[x][w] = Given(Reached(w, H(x), rows[x]), H(x), rows[x])

LoopInv == matrix # "done" => acc_height = Reached(i, H(matrix), rows[matrix])

UseInv ==
  /\ sent # {} => matrix = "done"
  /\ ~psRuns => matrix = "done" /\ \E w \in Worker : Payload(w) > BUFFER_SIZE
  /\ \A w \in crashed : height["P"][w] = 0 \/ height["Q"][w] = 0

IInv == PtTypeOK /\ BlocksInv /\ LoopInv /\ UseInv

LEMMA HeightsOK ==
  ASSUME PtTypeOK, NEW x \in Matrix
  PROVE  /\ H(x) \in Nat \ {0}
         /\ rows[x] <= worker_num * H(x)
         /\ worker_num * H(x) <= rows[x] + worker_num - 1
BY HeightRange DEF PtTypeOK, H

LEMMA InitIInv == Init => IInv
<1>. SUFFICES ASSUME Init PROVE IInv
  OBVIOUS
<1>1. PtTypeOK
  BY PartitionAssumption DEF Init, PtTypeOK, Worker, Matrix
<1>2. BlocksInv
  BY <1>1 DEF Init, BlocksInv, Written, Partitioned, Worker, Matrix, PtTypeOK
<1>3. LoopInv
  <2>1. 0 * H(matrix) = 0 /\ 0 <= rows[matrix]
    BY <1>1, HeightsOK DEF PtTypeOK, Init, Matrix
  <2>. QED  BY <2>1 DEF Init, LoopInv, Reached
<1>4. UseInv
  BY DEF Init, UseInv
<1>. QED  BY <1>1, <1>2, <1>3, <1>4 DEF IInv

LEMMA NextBlockIInv == IInv /\ NextBlock => IInv'
<1>. SUFFICES ASSUME IInv, NextBlock PROVE IInv'
  OBVIOUS
<1>. USE DEF LoopContinues
<1> DEFINE x == matrix
           h == H(x)
           g == Given(acc_height, h, rows[x])
<1>0. /\ x \in Matrix
      /\ i \in Worker
      /\ i \in Nat
      /\ UNCHANGED <<rows, worker_num, psRuns, matrix, sent, trained, crashed>>
  BY DEF NextBlock, IInv, PtTypeOK, Worker
<1>1. /\ sta_idx' = [sta_idx EXCEPT ![x][i] = i * h]
      /\ height' = [height EXCEPT ![x][i] = g]
      /\ acc_height' = acc_height + g
      /\ i' = i + 1
  BY DEF NextBlock, H
<1>2. h \in Nat \ {0} /\ rows[x] \in Nat \ {0}
  BY <1>0, HeightsOK DEF IInv, PtTypeOK
<1>3. acc_height = Reached(i, h, rows[x])
  BY <1>0 DEF IInv, LoopInv, Matrix
<1>4. g \in Nat /\ Reached(i + 1, h, rows[x]) = acc_height + g /\ i * h \in Nat
  <2>. HIDE DEF h
  <2>1. /\ Given(Reached(i, h, rows[x]), h, rows[x]) \in Nat
        /\ Reached(i + 1, h, rows[x])
             = Reached(i, h, rows[x]) + Given(Reached(i, h, rows[x]), h, rows[x])
    BY <1>0, <1>2, ReachedStep
  <2>2. i * h \in Nat
    BY <1>0, <1>2
  <2>. QED  BY <1>3, <2>1, <2>2
<1>5. PtTypeOK'
  <2>1. i + 1 \in 0 .. worker_num /\ acc_height + g \in Nat
    BY <1>0, <1>4 DEF IInv, PtTypeOK, Worker
  <2>2. i * h \in Nat /\ g \in Nat
    BY <1>4
  <2>. HIDE DEF h, g
  <2>3. /\ sta_idx' \in [Matrix -> [Worker -> Nat]]
        /\ height' \in [Matrix -> [Worker -> Nat]]
    BY <1>0, <1>1, <2>2 DEF IInv, PtTypeOK
  <2>. QED  BY <1>0, <1>1, <2>1, <2>3 DEF IInv, PtTypeOK, Worker
<1>6. BlocksInv'
  <2>. SUFFICES ASSUME NEW y \in Matrix, NEW w \in Worker, Written(y, w)'
                PROVE  /\ sta_idx'[y][w] = w * H(y)
                       /\ height'[y][w] = Given(Reached(w, H(y), rows[y]), H(y), rows[y])
    BY <1>0 DEF BlocksInv, H, Worker
  <2>1. CASE y = x /\ w = i
    BY <2>1, <1>0, <1>1, <1>3 DEF IInv, PtTypeOK, Worker
  <2>2. CASE ~(y = x /\ w = i)
    <3>1. Written(y, w)
      BY <2>2, <1>0, <1>1 DEF Written, Partitioned, Worker, Matrix
    <3>2. sta_idx'[y][w] = sta_idx[y][w] /\ height'[y][w] = height[y][w]
      BY <2>2, <1>0, <1>1 DEF IInv, PtTypeOK
    <3>. QED  BY <3>1, <3>2 DEF IInv, BlocksInv
  <2>. QED  BY <2>1, <2>2
<1>7. LoopInv'
  BY <1>0, <1>1, <1>4 DEF LoopInv, H, Matrix
<1>8. UseInv'
  BY <1>0 DEF IInv, UseInv, Matrix, PtTypeOK
<1>. QED  BY <1>5, <1>6, <1>7, <1>8 DEF IInv

LEMMA NextMatrixIInv == IInv /\ NextMatrix => IInv'
<1>. SUFFICES ASSUME IInv, NextMatrix PROVE IInv'
  OBVIOUS
<1>. USE DEF LoopContinues
<1>0. /\ matrix \in Matrix
      /\ i = worker_num
      /\ matrix' = IF matrix = "P" THEN "Q" ELSE "done"
      /\ i' = 0
      /\ acc_height' = 0
      /\ UNCHANGED <<rows, worker_num, psRuns, sta_idx, height, sent, trained, crashed>>
  BY DEF NextMatrix, IInv, PtTypeOK
<1>1. PtTypeOK'
  BY <1>0 DEF IInv, PtTypeOK, Worker, Matrix
<1>2. BlocksInv'
  <2>. SUFFICES ASSUME NEW y \in Matrix, NEW w \in Worker, Written(y, w)'
                PROVE  Written(y, w)
    BY <1>0 DEF IInv, BlocksInv, H, Worker
  <2>. QED  BY <1>0 DEF Written, Partitioned, Worker, Matrix, IInv, PtTypeOK
<1>3. LoopInv'
  <2>. SUFFICES ASSUME matrix' # "done" PROVE 0 = Reached(0, H(matrix)', rows[matrix'])
    BY <1>0 DEF LoopInv
  <2>1. H(matrix)' \in Nat /\ rows[matrix'] \in Nat
    BY <1>0, <1>1, HeightRange DEF H, PtTypeOK, Matrix
  <2>. QED  BY <2>1 DEF Reached
<1>4. UseInv'
  BY <1>0 DEF IInv, UseInv, PtTypeOK, Matrix
<1>. QED  BY <1>1, <1>2, <1>3, <1>4 DEF IInv

LEMMA UseIInv ==
  ASSUME IInv, NEW w \in Worker, SendBlocks(w) \/ TrainBlocks(w)
  PROVE  IInv'
<1>1. UNCHANGED <<rows, worker_num, blockVars>>
  BY DEF SendBlocks, TrainBlocks
<1>2. PtTypeOK'
  BY <1>1 DEF IInv, PtTypeOK, SendBlocks, TrainBlocks, Worker, blockVars
<1>3. BlocksInv' /\ LoopInv'
  BY <1>1 DEF IInv, BlocksInv, LoopInv, Written, Partitioned, H, Worker, blockVars
<1>4. UseInv'
  <2>1. CASE SendBlocks(w)
    BY <1>1, <2>1 DEF IInv, UseInv, SendBlocks, Payload, Worker, blockVars
  <2>2. CASE TrainBlocks(w)
    <3>1. height["P"][w] \in Nat /\ height["Q"][w] \in Nat
      BY DEF IInv, PtTypeOK, Matrix
    <3>. QED  BY <1>1, <2>2, <3>1 DEF IInv, UseInv, TrainBlocks, Payload, Worker, blockVars
  <2>. QED  BY <2>1, <2>2
<1>. QED  BY <1>2, <1>3, <1>4 DEF IInv

LEMMA Invariance == Spec => []IInv
<1>1. IInv /\ [Next]_vars => IInv'
  <2>. SUFFICES ASSUME IInv, [Next]_vars PROVE IInv'
    OBVIOUS
  <2>1. CASE UNCHANGED vars
    BY <2>1 DEF IInv, PtTypeOK, BlocksInv, LoopInv, UseInv, Written, Partitioned, H, Payload,
                Worker, vars, blockVars
  <2>. QED  BY <2>1, NextBlockIInv, NextMatrixIInv, UseIInv DEF Next
<1>. QED  BY <1>1, InitIInv, PTL DEF Spec

(***************************************************************************)
(* Type correctness.                                                       *)
(***************************************************************************)
THEOREM PartitionTyped == Spec => []PtTypeOK
BY Invariance, PTL DEF IInv

-----------------------------------------------------------------------------
(***************************************************************************)
(* A block of a divided matrix: it is not empty exactly when its first row *)
(* exists, and the next one starts where it ends.                          *)
(***************************************************************************)
End(x, w) == sta_idx[x][w] + height[x][w]

LEMMA BlockFacts ==
  ASSUME IInv, NEW x \in Matrix, Partitioned(x), NEW w \in Worker
  PROVE  /\ sta_idx[x][w] = w * H(x) /\ w * H(x) \in Nat
         /\ height[x][w] \in Nat /\ height[x][w] <= H(x)
         /\ height[x][w] > 0 <=> w * H(x) < rows[x]
         /\ height[x][w] > 0 => End(x, w) = Reached(w + 1, H(x), rows[x])
<1>. DEFINE h == H(x)
            rc == rows[x]
<1>1. h \in Nat \ {0} /\ rc \in Nat \ {0} /\ w \in Nat
  <2>1. worker_num \in Nat /\ rc \in Nat \ {0}
    BY DEF IInv, PtTypeOK
  <2>2. w \in Nat
    BY <2>1 DEF Worker
  <2>. QED  BY <2>1, <2>2, HeightsOK DEF IInv
<1>2. sta_idx[x][w] = w * h /\ height[x][w] = Given(Reached(w, h, rc), h, rc)
  BY DEF IInv, BlocksInv, Written
<1>. HIDE DEF h, rc
<1>3. w * h \in Nat
  BY <1>1
<1>4. /\ Given(Reached(w, h, rc), h, rc) \in Nat
      /\ Given(Reached(w, h, rc), h, rc) <= h
      /\ w * h < rc => /\ Given(Reached(w, h, rc), h, rc) > 0
                       /\ Reached(w, h, rc) = w * h
      /\ w * h >= rc => Given(Reached(w, h, rc), h, rc) = 0
      /\ Reached(w + 1, h, rc) = Reached(w, h, rc) + Given(Reached(w, h, rc), h, rc)
  BY <1>1, ReachedStep
<1>5. height[x][w] > 0 <=> w * h < rc
  BY <1>1, <1>2, <1>3, <1>4
<1>6. height[x][w] > 0 => End(x, w) = Reached(w + 1, h, rc)
  BY <1>2, <1>4, <1>5 DEF End
<1>. QED  BY <1>2, <1>3, <1>4, <1>5, <1>6 DEF h, rc

(***************************************************************************)
(* For every size and every number of workers the blocks partition the     *)
(* rows of each matrix.                                                    *)
(***************************************************************************)
LEMMA TilingHolds == IInv => Tiling
<1>. SUFFICES ASSUME IInv, NEW x \in Matrix, Partitioned(x)
              PROVE  LET Full == {w \in Worker : height[x][w] > 0}
                         Last(w) == sta_idx[x][w] + height[x][w]
                     IN /\ \A v, w \in Full : v < w => Last(v) <= sta_idx[x][w]
                        /\ \A w \in Full : Last(w) <= rows[x]
                        /\ \A w \in Full : sta_idx[x][w] = 0 \/ \E v \in Full : Last(v) = sta_idx[x][w]
                        /\ \E w \in Full : Last(w) = rows[x]
  BY DEF Tiling
<1>. DEFINE h == H(x)
            rc == rows[x]
            Full == {w \in Worker : height[x][w] > 0}
<1>0. /\ h \in Nat \ {0} /\ rc \in Nat \ {0} /\ worker_num \in Nat \ {0}
      /\ rc <= worker_num * h
  BY HeightsOK DEF IInv, PtTypeOK
<1>1. ASSUME NEW w \in Worker
      PROVE  /\ w \in Nat /\ w + 1 \in Nat /\ w < worker_num
             /\ sta_idx[x][w] = w * h /\ w * h \in Nat
             /\ height[x][w] > 0 <=> w * h < rc
             /\ height[x][w] > 0 => End(x, w) = Reached(w + 1, h, rc)
  BY <1>0, BlockFacts DEF Worker
<1>. HIDE DEF h, rc
<1>2. ASSUME NEW w \in Nat
      PROVE  /\ Reached(w + 1, h, rc) <= rc
             /\ (w + 1) * h <= rc => Reached(w + 1, h, rc) = (w + 1) * h
             /\ (w + 1) * h >= rc => Reached(w + 1, h, rc) = rc
             /\ (w + 1) * h \in Nat
             /\ (w + 1) * h = w * h + h
  BY <1>0, ReachedStep
<1>3. ASSUME NEW v \in Full, NEW w \in Full, v < w
      PROVE  End(x, v) <= sta_idx[x][w]
  <2>1. v + 1 <= w /\ v \in Nat /\ w \in Nat
    BY <1>1, <1>3
  <2>2. (v + 1) * h <= w * h
    BY <1>0, <2>1, TimesMonotone
  <2>3. w * h < rc
    BY <1>1
  <2>4. Reached(v + 1, h, rc) = (v + 1) * h
    BY <1>0, <1>1, <1>2, <2>1, <2>2, <2>3
  <2>. QED  BY <1>1, <2>2, <2>4
<1>4. ASSUME NEW w \in Full PROVE End(x, w) <= rc
  BY <1>1, <1>2
<1>5. ASSUME NEW w \in Full PROVE sta_idx[x][w] = 0 \/ \E v \in Full : End(x, v) = sta_idx[x][w]
  <2>1. CASE w = 0
    BY <1>0, <1>1, <2>1
  <2>2. CASE w # 0
    <3>0. w \in Nat /\ w < worker_num
      BY <1>1
    <3>1. w - 1 \in Worker /\ w - 1 \in Nat /\ (w - 1) + 1 = w
      BY <1>0, <2>2, <3>0 DEF Worker
    <3>2. ((w - 1) + 1) * h = (w - 1) * h + h /\ (w - 1) * h \in Nat
      BY <1>2, <1>0, <3>1
    <3>3. w * h < rc /\ w * h \in Nat
      BY <1>1
    <3>4. (w - 1) * h < rc
      BY <1>0, <3>1, <3>2, <3>3
    <3>5. w - 1 \in Full
      BY <1>1, <3>1, <3>4
    <3>6. Reached(w, h, rc) = w * h
      BY <3>3, <1>0 DEF Reached
    <3>. QED  BY <1>1, <3>1, <3>5, <3>6
  <2>. QED  BY <2>1, <2>2
<1>6. \E w \in Full : End(x, w) = rc
  <2>. DEFINE w == (rc - 1) \div h
  <2>1. rc - 1 \in Nat
    BY <1>0
  <2>2. w \in Nat /\ h * w <= rc - 1 /\ rc - 1 < h * w + h
    BY <1>0, <2>1, DivRange
  <2>. HIDE DEF w
  <2>3. w * h = h * w /\ h * w \in Nat /\ (w + 1) * h = h * w + h
    BY <1>0, <2>2
  <2>4. w * h < rc /\ (w + 1) * h >= rc
    BY <1>0, <2>2, <2>3
  <2>5. w < worker_num
    <3>. SUFFICES ASSUME worker_num <= w PROVE FALSE
      BY <1>0, <2>2
    <3>1. worker_num * h <= w * h /\ worker_num * h \in Nat
      BY <1>0, <2>2, TimesMonotone
    <3>. QED  BY <1>0, <2>3, <2>4, <3>1
  <2>6. w \in Full
    BY <1>0, <1>1, <2>2, <2>4, <2>5 DEF Worker
  <2>. QED  BY <1>1, <1>2, <2>2, <2>4, <2>6
<1>. QED  BY <1>3, <1>4, <1>5, <1>6 DEF End, rc

THEOREM TilingCorrect == Spec => []Tiling
BY Invariance, TilingHolds, PTL

-----------------------------------------------------------------------------
(***************************************************************************)
(* With (worker_num - 1)^2 below the number of rows even the last block    *)
(* has a row: p times the rows before it stay below p times all rows.      *)
(***************************************************************************)
LEMMA LastBlockStarts ==
  ASSUME NEW rc \in Nat \ {0}, NEW p \in Nat \ {0}, (p - 1) * (p - 1) < rc
  PROVE  (p - 1) * Height(rc, p) < rc
<1>. DEFINE q == p - 1
            h == Height(rc, p)
            m == q * h
<1>1. q \in Nat /\ p = q + 1 /\ h \in Nat /\ p * h <= rc + p - 1
  BY HeightRange
<1>2. q * q < rc
  OBVIOUS
<1>. HIDE DEF q, h
<1>3. p * h = m + h /\ m \in Nat
  BY <1>1
<1>4. m + h <= rc + q
  BY <1>1, <1>3
<1>. SUFFICES ASSUME rc <= m PROVE FALSE
  BY <1>1 DEF q, h
<1>5. h <= q
  BY <1>1, <1>3, <1>4
<1>6. m <= q * q
  <2>1. h * q <= q * q /\ h * q = q * h
    BY <1>1, <1>5, TimesMonotone
  <2>. QED  BY <2>1
<1>7. q * q \in Nat
  BY <1>1
<1>. QED  BY <1>2, <1>3, <1>6, <1>7

LEMMA NoneEmpty ==
  ASSUME IInv, FewWorkers, NEW x \in Matrix, Partitioned(x), NEW w \in Worker
  PROVE  height[x][w] > 0
<1>. DEFINE h == H(x)
<1>1. /\ worker_num \in Nat \ {0} /\ rows[x] \in Nat \ {0}
      /\ (worker_num - 1) * (worker_num - 1) < rows[x]
  BY DEF IInv, PtTypeOK, FewWorkers
<1>2. h \in Nat /\ (worker_num - 1) * h < rows[x]
  BY <1>1, HeightRange, LastBlockStarts DEF H
<1>3. w \in Nat /\ worker_num - 1 \in Nat /\ w <= worker_num - 1
  BY <1>1 DEF Worker
<1>4. w * h <= (worker_num - 1) * h
  BY <1>2, <1>3, TimesMonotone
<1>5. w * h \in Nat /\ (worker_num - 1) * h \in Nat
  BY <1>2, <1>3
<1>6. w * h < rows[x]
  BY <1>1, <1>2, <1>4, <1>5
<1>. QED  BY <1>6, BlockFacts

(***************************************************************************)
(* For every size: no worker divides by zero while the square of           *)
(* worker_num - 1 is below the number of rows of both matrices.            *)
(***************************************************************************)
THEOREM NoDivisionByZero == Spec => []NoEmptyBlock
<1>1. IInv => NoEmptyBlock
  <2>. SUFFICES ASSUME IInv, FewWorkers, NEW w \in crashed PROVE FALSE
    BY DEF NoEmptyBlock
  <2>1. w \in Worker /\ w \in sent /\ matrix = "done"
    BY DEF IInv, PtTypeOK, UseInv
  <2>2. height["P"][w] > 0 /\ height["Q"][w] > 0
    BY <2>1, NoneEmpty DEF Partitioned, Matrix
  <2>3. height["P"][w] = 0 \/ height["Q"][w] = 0
    BY DEF IInv, UseInv
  <2>. QED  BY <2>2, <2>3
<1>. QED  BY <1>1, Invariance, PTL

(***************************************************************************)
(* Three blocks or more: a third of the rows, rounded up, bounds each.     *)
(***************************************************************************)
LEMMA ThirdOfRows ==
  ASSUME NEW rc \in Nat \ {0}, NEW p \in Nat, p >= 3
  PROVE  3 * Height(rc, p) <= rc + 2
<1>. DEFINE k == Height(rc, p) - 1
<1>1. Height(rc, p) \in Nat \ {0} /\ p * Height(rc, p) <= rc + p - 1
  BY HeightRange
<1>2. k \in Nat /\ Height(rc, p) = k + 1
  BY <1>1
<1>. HIDE DEF k
<1>3. p * (k + 1) = p * k + p /\ p * k \in Nat
  BY <1>2
<1>4. p * k <= rc - 1
  BY <1>1, <1>2, <1>3
<1>5. 3 * k <= p * k
  BY <1>2, TimesMonotone
<1>. QED  BY <1>2, <1>3, <1>4, <1>5

(***************************************************************************)
(* The shipped sizes and buffer: from three workers on no payload overruns *)
(* the registered buffer.                                                  *)
(***************************************************************************)
THEOREM BufferSuffices ==
  ASSUME K = 100, BUFFER_SIZE = 500 * 1024 * 1024
  PROVE  Spec => []PayloadFits
<1>1. IInv => PayloadFits
  <2>. SUFFICES ASSUME IInv, rows = Shipped, worker_num >= 3, ~psRuns PROVE FALSE
    BY DEF PayloadFits
  <2>1. matrix = "done" /\ worker_num \in Nat
    BY DEF IInv, UseInv, PtTypeOK
  <2>2. PICK w \in Worker : Payload(w) > BUFFER_SIZE
    BY DEF IInv, UseInv
  <2>3. ASSUME NEW x \in Matrix
        PROVE  height[x][w] \in Nat /\ 3 * height[x][w] <= rows[x] + 2
    <3>1. height[x][w] \in Nat /\ height[x][w] <= H(x) /\ H(x) \in Nat
      BY <2>1, BlockFacts, HeightsOK DEF Partitioned, IInv
    <3>2. 3 * H(x) <= rows[x] + 2 /\ rows[x] \in Nat
      BY <2>1, ThirdOfRows DEF H, IInv, PtTypeOK
    <3>. QED  BY <3>1, <3>2
  <2>4. rows["P"] = 1000990 /\ rows["Q"] = 624961
    BY DEF Shipped
  <2>5. /\ height["P"][w] \in Nat /\ 3 * height["P"][w] <= 1000992
        /\ height["Q"][w] \in Nat /\ 3 * height["Q"][w] <= 624963
    BY <2>3, <2>4 DEF Matrix
  <2>6. Payload(w) = 64 + 800 * (height["P"][w] + height["Q"][w])
    BY <2>5 DEF Payload, SizeofBlock, SizeofDouble
  <2>. QED  BY <2>2, <2>5, <2>6
<1>. QED  BY <1>1, Invariance, PTL
=============================================================================
