----------------------------- MODULE Partition ------------------------------
(***************************************************************************)
(* How the parameter server divides the two matrices among the workers     *)
(* (partitionBlock of ps.cpp, called for the rows of P and then for those  *)
(* of Q), and the two places that trust the result: rdma_sendTd copies a   *)
(* worker's two blocks into its registered buffer, and FakeSubMF picks     *)
(* rows of them with random() % height.                                    *)
(***************************************************************************)
EXTENDS Integers

CONSTANTS
  RowCounts,    \* the sizes N and M: functions of the matrix
  WorkerNums,   \* the values of worker_num, main's argument
  K,            \* the dimension, 100
  BUFFER_SIZE   \* bytes registered for a link, 500 * 1024 * 1024

Matrix == {"P", "Q"}

ASSUME PartitionAssumption ==
  /\ RowCounts \subseteq [Matrix -> Nat \ {0}]
  /\ WorkerNums \subseteq Nat \ {0}
  /\ K \in Nat \ {0}
  /\ BUFFER_SIZE \in Nat

VARIABLES
  rows,         \* N and M
  worker_num,
  psRuns,       \* the parameter server runs
  matrix,       \* the matrix partitionBlock is at, "done" after the second
  i,            \* its loop counter
  acc_height,   \* rows given out so far
  sta_idx,      \* sta_idx[x][w]: first row of block w of matrix x
  height,       \* height[x][w]: its number of rows
  sent,         \* workers whose blocks were copied into their buffer
  trained,      \* workers that have trained on them
  crashed       \* workers that have divided by zero

blockVars == <<matrix, i, acc_height, sta_idx, height>>
vars == <<rows, worker_num, psRuns, blockVars, sent, trained, crashed>>

Worker == 0 .. worker_num - 1

PtTypeOK ==
  /\ rows \in [Matrix -> Nat \ {0}]
  /\ worker_num \in Nat \ {0}
  /\ psRuns \in BOOLEAN
  /\ matrix \in Matrix \cup {"done"}
  /\ i \in 0 .. worker_num
  /\ acc_height \in Nat
  /\ sta_idx \in [Matrix -> [Worker -> Nat]]
  /\ height \in [Matrix -> [Worker -> Nat]]
  /\ sent \subseteq Worker
  /\ trained \subseteq sent
  /\ crashed \subseteq sent

\* Pblocks and Qblocks are globals: they start zeroed.
Init ==
  /\ rows \in RowCounts
  /\ worker_num \in WorkerNums
  /\ psRuns = TRUE
  /\ matrix = "P"
  /\ i = 0
  /\ acc_height = 0
  /\ sta_idx = [x \in Matrix |-> [w \in Worker |-> 0]]
  /\ height = [x \in Matrix |-> [w \in Worker |-> 0]]
  /\ sent = {}
  /\ trained = {}
  /\ crashed = {}

-----------------------------------------------------------------------------
(***************************************************************************)
(* partitionBlock.                                                         *)
(***************************************************************************)
\* mutant: round down
HeightDown(rc_num, portion_num) == rc_num \div portion_num

\* mutant: one more than rounding down
HeightMore(rc_num, portion_num) == rc_num \div portion_num + 1

Height(rc_num, portion_num) == (rc_num + portion_num - 1) \div portion_num

Given(acc, h, rc_num) == IF acc + h <= rc_num THEN h ELSE rc_num - acc

\* mutant: one block too many
LoopGoesOn == i <= worker_num

LoopContinues == i < worker_num

NextBlock ==
  /\ matrix # "done"
  /\ LoopContinues
  /\ LET h == Height(rows[matrix], worker_num)
         g == Given(acc_height, h, rows[matrix])
     IN /\ sta_idx' = [sta_idx EXCEPT ![matrix][i] = i * h]
        /\ height' = [height EXCEPT ![matrix][i] = g]
        /\ acc_height' = acc_height + g
  /\ i' = i + 1
  /\ UNCHANGED <<rows, worker_num, psRuns, matrix, sent, trained, crashed>>

NextMatrix ==
  /\ matrix # "done"
  /\ ~LoopContinues
  /\ matrix' = IF matrix = "P" THEN "Q" ELSE "done"
  /\ i' = 0
  /\ acc_height' = 0
  /\ UNCHANGED <<rows, worker_num, psRuns, sta_idx, height, sent, trained, crashed>>

-----------------------------------------------------------------------------
(***************************************************************************)
(* What becomes of the blocks of worker w.  A payload is two struct Block  *)
(* and the doubles of both blocks; nothing compares it with the buffer.    *)
(***************************************************************************)
SizeofBlock  == 32
SizeofDouble == 8

\* mutant: the P block counted twice
PayloadOfP(w) == 2 * (SizeofBlock + SizeofDouble * K * height["P"][w])

Payload(w) == 2 * SizeofBlock + SizeofDouble * K * (height["P"][w] + height["Q"][w])

\* Beyond the buffer the copy's effect is undefined; the model ends the process.
SendBlocks(w) ==
  /\ psRuns
  /\ matrix = "done"
  /\ w \notin sent
  /\ \/ Payload(w) <= BUFFER_SIZE /\ sent' = sent \cup {w} /\ UNCHANGED psRuns
     \/ Payload(w) > BUFFER_SIZE /\ psRuns' = FALSE /\ UNCHANGED sent
  /\ UNCHANGED <<rows, worker_num, blockVars, trained, crashed>>

TrainBlocks(w) ==
  /\ w \in sent \ (trained \cup crashed)
  /\ IF height["P"][w] > 0 /\ height["Q"][w] > 0
       THEN trained' = trained \cup {w} /\ UNCHANGED crashed
       ELSE crashed' = crashed \cup {w} /\ UNCHANGED trained
  /\ UNCHANGED <<rows, worker_num, psRuns, blockVars, sent>>

Next ==
  \/ NextBlock
  \/ NextMatrix
  \/ \E w \in Worker : SendBlocks(w) \/ TrainBlocks(w)

Spec == Init /\ [][Next]_vars

\* main, the send threads and the workers keep running.
FairSpec == Spec /\ WF_vars(Next)

-----------------------------------------------------------------------------
Partitioned(x) == matrix = "done" \/ (x = "P" /\ matrix = "Q")

Rows(x, w) == sta_idx[x][w] .. sta_idx[x][w] + height[x][w] - 1

(***************************************************************************)
(* The blocks of a matrix are a partition of its rows: none overlaps       *)
(* another, none reaches beyond the last row, and none leaves a gap (each  *)
(* starts where another ends, and one ends at the last row).               *)
(***************************************************************************)
Tiling ==
  \A x \in Matrix : Partitioned(x) =>
    LET Full == {w \in Worker : height[x][w] > 0}
        End(w) == sta_idx[x][w] + height[x][w]
    IN /\ \A v, w \in Full : v < w => End(v) <= sta_idx[x][w]
       /\ \A w \in Full : End(w) <= rows[x]
       /\ \A w \in Full : sta_idx[x][w] = 0 \/ \E v \in Full : End(v) = sta_idx[x][w]
       /\ \E w \in Full : End(w) = rows[x]

(***************************************************************************)
(* Rounding the height up can leave the last blocks empty, and a worker    *)
(* with an empty block dies of random() % 0.  No worker does while the     *)
(* square of worker_num - 1 is below the number of rows.                   *)
(***************************************************************************)
FewWorkers == \A x \in Matrix : (worker_num - 1) * (worker_num - 1) < rows[x]

NoEmptyBlock == FewWorkers => crashed = {}

(***************************************************************************)
(* The two blocks of a worker fit in the buffer: with the sizes of         *)
(* mf_common.h they do for three workers and more, and not for two.        *)
(***************************************************************************)
Shipped == [P |-> 1000990, Q |-> 624961]

PayloadFits == rows = Shipped /\ worker_num >= 3 => psRuns

(***************************************************************************)
(* With that few workers every worker gets to train, unless a payload      *)
(* overran its buffer.                                                     *)
(***************************************************************************)
EveryWorkerTrains == FewWorkers => <>(trained = Worker \/ ~psRuns)
=============================================================================
