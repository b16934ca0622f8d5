# Stellar-Bench in TLA+

Stellar-Bench trains a matrix factorisation on a cluster: one parameter server
holds the P and Q blocks, sends every worker a pair of them, collects the
trained pairs, and starts the next round when all are back. Blocks travel over
RDMA writes with immediate data. This directory models the program, checks the
models with TLC and proves their main safety properties with TLAPS.

## The system

| Component | State | Operations | Where |
|---|---|---|---|
| Two-sided link, client end (`RdmaTwoSidedClientOp`) | `client_context`: buffer, `can_send`, `buf_registered`, `buf_write_counter` | event loop (connection set-up), CQ poller: `client_on_completion` | `rdma_two_sided_client_op.cpp` |
| Two-sided link, server end (`RdmaTwoSidedServerOp`) | `conn_context`: buffer, `can_recv`, `buf_registered`, `buf_recv_counter` | event loop, CQ poller: `server_on_completion` | `rdma_two_sided_server_op.cpp` |
| Parameter server | `recved_iter[]`, `to_send_iter[]`, `completed_iter`, `iter_t`, `Pblocks[]`, `Qblocks[]` | `main`, `rdma_sendTd` and `rdma_recvTd` per worker | `ps.cpp` |
| Worker | `recved_age`, `to_send_age`, `completed_iter`, `iter_t`, `Pblock`, `Qblock` | `main`, `rdma_sendTd`, `rdma_recvTd` | `worker.cu` (`worker.cpp` is a copy that the Makefile does not build) |
| Test programs | one context each, a counter of fills, a counter of reads | `main` | `test_send.cpp`, `test_recv.cpp` |
| One-sided session | CM ids, PD, CQ, QP, memory regions, metadata | sequential set-up, write, tear-down | `client_rdma_op.cpp`, `server_rdma_op.cpp`, `rdma_common.cpp` |
| GPU kernels | none | floating-point kernels | `*.cu` but `worker.cu`, `testHybrid.cpp` |

**Interaction.** Every worker is joined to the server by two links. The server
is the client of port 20000+w (*down*) and the server of port 10000+w (*up*).
On each link the application thread and the link's CQ poller share a context
without a lock or an atomic. The client's poller, on MSG_MR or MSG_READY, waits
for `can_send`, posts the write, clears `can_send`, counts. The server's poller,
on the completion of a write, counts, waits for `can_recv`, answers MSG_READY.
`rdma_sendTd` fills the buffer and sets `can_send`; `rdma_recvTd` waits for the
counter, copies the buffer into the blocks, and sets `can_recv`. The server end
of a link is to outlive its clients (`// don't exit on disconnect`): its event
loop allocates the buffer when a client connects and frees it when one leaves,
while the poller and the reader use it.

**What is hard.** `can_recv` is never cleared, so READY is flow control for the
first message only. `can_send` is cleared after the write is posted. Send
buffers are refilled without looking for the completion. Blocks are shared by
up to three threads. The only thing that keeps all of it apart in the cluster is
the numbering of the rounds, spread over six counters in two programs with four
different comparisons (`>`, `<=`, `==`, `>=`). Connections come up in any order,
and a human presses Enter in the middle. When a client process ends, three
threads of the server find out at different times, and any failed call or
completion ends the server (`rc_die`).

**What makes each component correct.** A link: one party has the turn at any
time, one write per offer. The server: no round starts before every worker's
previous result is in, each result is merged once. The worker: it trains each
round once, on blocks that are complete and carry every earlier update, and it
sends each round once. The partition: the blocks tile the rows of each matrix,
none is empty, and two of them fit the buffer. The cluster: it is
bulk-synchronous training, and it ends.

`PROJECT.json` lists all hazards with their lines and the properties that guard
them.

## The modules

| Module | Models |
|---|---|
| `TwoSidedLink` | a set of links: set-up, both pollers, the adapter, and what the application does to the contexts (`FillP`, `FillQAndOffer`, `Release`) |
| `Topology` | which links a cluster has |
| `ParamServer` | the server's `main`, send and receive threads |
| `MFWorker` | the workers' `main`, send and receive threads |
| `StellarBench` | the cluster: processes, links, fairness, properties |
| `BspTraining` | the abstract promise: numbered rounds, train once, collect once |
| `SendRecvTest` | `test_send` and `test_recv` on one link |
| `Relay` | the abstract promise of a link: messages filled, sent, delivered and read one by one |
| `OneSidedSession` | clients and a server of the one-sided classes: every method as the sequence of its calls |
| `BufferLease` | the abstract promise of a session: the server's buffer is registered, lent once, returned, released |
| `LinkLifetime` | a server port with clients that come, write and end; event loop, poller and reader of the server |
| `Partition` | `partitionBlock` for both matrices, and the copy and the division that trust its result |
| `MCStellarBench`, `MCLinkLifetime`, `MCPartition` | instances for TLC |
| `TwoSidedLinkProofs`, `StellarBenchProofs`, `ContentProofs`, `SendRecvTestProofs`, `LinkLifetimeProofs`, `PartitionProofs`, `OneSidedProofs` | lemmas and theorems |

Conventions of the translation:

- A variable has the name of the field or global it models; `wk_completed_iter`
  is the worker's `completed_iter`. `iter_t` is `completed_iter + 1` wherever
  another thread can look, and is not a variable. `buf_prepared` is written and
  never read ("maybe deprecated"); `buf_len` is the same in every round.
- A thread's step is one access to what it shares. A copy of blocks or a write
  by the adapter takes two steps, the P half and the Q half, so that a reader
  can see a torn buffer. The counter or flag that publishes a copy is stored in
  the step of its second half; nobody else reads the copy before it. Counters
  that only one thread uses move with that thread's step.
- A block's content is the number of training updates it carries, `NoData` for
  memory nothing was copied to. Numbers of updates are what the properties tell
  apart; the floating-point values are not.
- A flag is a plain `bool` read in a loop around a sleep, in a build without
  optimisation: each store becomes visible, in order (x86).
- The adapter executes a posted write at any later time, in order, reading the
  buffer as it then is. Answers and completions are reliable; receiver-not-ready
  is retried for ever (`rnr_retry_count = 7`), so an answer the client has no
  receive for waits.
- `worker.cu:304-322` does not wait for `buf_registered`. The copy to a null
  pointer is `WkSendCrash`: the process is gone.
- `PsExit` is `exit(0)` of the last round. Nothing stops the workers: the
  system comes to rest, and no run checks for deadlock.

Operators with the comment `mutant:` are plausible mistakes in the definition
that follows. No specification uses them; replacing the definition by them must
break the property `PROJECT.json` names.

Two constants of `StellarBench` state what the environment does:
`OperatorWaits`, that Enter is pressed when all workers have connected, and
`PollerPrompt`, that no write is answered by its own completion before the
client's poller has executed the one statement after `ibv_post_send`
(`can_send = false`). The code guarantees neither; the runs show what depends
on them, and the theorems hold without.

### The one-sided session

`client_rdma_op` and `server_rdma_op` are sequential: each method is a chain of
library calls with an error return after each. `OneSidedSession` writes a method
down as the sequence of its calls (`ClientPrepareConnection`, `StartServer`, ...)
and a process as the sequence of its methods; one action per *kind* of call
(create an object, wait for a CM event, reap completions, destroy, ...) says what
it does, how it fails and what the method does then. `rdma_server_init` is the
sequence `ServerSetup`. The repository contains no caller of these classes: the
programs of the model call the methods in the order their comments give, stop at
the first error, and may end at any time. `process_rdma_cm_event` and the
acknowledgement by its caller are `ExpectedEvent` and `UnexpectedEvent`; an
unexpected event, or none (`NoEvent`), is an error for all callers but two: the
client's clean-up goes on (and acknowledges the freed event again, which has no effect in the model),
and `accept_client_connection` returns `-errno`, which an unexpected event has not
set and which may be 0. Every call may fail but three kinds: `rdma_ack_cm_event`
fails only without an event, a destroy only while something uses the object, and
the registration of the server's buffer ends the process (`RegisterCrash`). An
error during set-up releases nothing, as the TODO in `server_rdma_op.cpp` says:
`CleanLeavesNothing` is about a clean-up that runs to its end, and promises
nothing to a process that never comes to it.

### The life of a server port

`TwoSidedLink` is about one connection that stays. `LinkLifetime` is about what
happens when it does not: client processes connect one after the other or at the
same time, write, and end at any moment; the server is `test_recv`, whose main
never clears `can_recv`. A client's `turn` says how far the server's last
SEND to it is; `events` is the queue of the event channel; each event is one
action, but DISCONNECTED two, because the poller may run between
`rdma_destroy_qp` and the `free`. `ctx->buffer` and `ctx->msg` are `buffer`, the
name of an allocation, and `live` are the allocations not freed: a dangling
pointer is `buffer \notin live`. What the code does then is undefined, and for
buffers of 500 MB, which are mapped and unmapped, and for `id->qp`, which
`rdma_destroy_qp` sets to null, it is the end of the process (`Die`), like
`rc_die`. A SEND to a process that is gone fails when its retries are used up,
unless the disconnect comes first.

Nothing good holds of clients that overlap: the second one's `server_on_pre_conn`
replaces the first one's buffer, which is then never freed, while the second is
freed twice. Nor does the server survive a client that ends at the wrong moment.
The history variables `alone` (no client started before the one before it was
gone) and `quiet` (each ended with its last message answered and read) name the
uses for which the promises hold, and the violated run shows what is lost
without `quiet`. So `NothingLeaks` says nothing of clients that overlap,
`ServerSurvives` and `ClientServed` nothing of one that leaves in the middle of
an exchange, and `ClientServed` nothing of one that came before the server and
was refused: these hazards are in the model, without a property that holds.

### The partition

`Partition` runs `partitionBlock` for the rows of P and then of Q as the loop it
is, for every pair of sizes and number of workers given, and then lets the send
threads copy the blocks and the workers train on them. Rounding the height up
gives `w * height` rows to the first `w` workers, which may be all: 10 rows for
6 workers are 2, 2, 2, 2, 2, 0. The worker with the empty block computes
`random() % 0`. `FewWorkers`, `(worker_num - 1)^2 < rows`, excludes it; for the
shipped sizes that is up to 791 workers. Two blocks of the shipped sizes need 1.3 GB
for a single worker, 650 MB for two, and fit 500 MB from three on.

## The runs

| Run | Instance | Shows |
|---|---|---|
| `safety` | 1 worker, 4 rounds | `IInv`, `ContentInv`, `NoUnreadOverwrite`, `NoTornSend`, `OneWritePerRound`, `ExactlyOneUpdate`, `SendNeverSkipped`, `CrashHoldsBarrier`, `ExitLosesOnlyLastRound`, whenever Enter is pressed |
| `liveness` | 2 workers, 3 rounds, `OperatorWaits`, `PollerPrompt`, fair | `TypeOK`, `OneTurn`, `BlockRaceFree`, `ExactlyOneUpdate`, `NoCrash`, `ImplementsBSP`, `TrainingCompletes` |
| `send_recv` | 1 link, 4 fills, fair | `TestTypeOK`, `TestIInv`, `OneTurn`, `OneWritePerFill`, `ImplementsRelay`, `EveryFillDelivered`: the test pair writes each fill once and announces it, and relays them one by one |
| `link_lifetime` | 2 clients, 2 writes each, fair | `LlTypeOK`, `LlIInv`, `NothingLeaks`, `ServerSurvives`, `ClientServed`, `EveryMessageRead` |
| `partition` | 1 to 7 workers, 37 pairs of sizes, fair | `PtTypeOK`, `Tiling`, `NoEmptyBlock`, `PayloadFits`, `EveryWorkerTrains` |
| `one_sided_failures` | 2 clients, any failure, send queue of 1 | `OsTypeOK`, `OsIInv`, `RemoteWriteSafe`, `CleanLeavesNothing`, `ImplementsLease` |
| `one_sided_completes` | 1 client, no failure, fair | `SessionCompletes` |
| `lost_send` | 1 worker, 3 rounds, fair | **violated**: `ShouldHaveSent` |
| `unregistered` | 1 worker, 2 rounds | **violated**: `NoCrash` |
| `send_recv_overwrite` | 1 link, 3 fills | **violated**: `ReadBeforeOverwrite` |
| `link_survives` | 1 client, 1 write | **violated**: `SurvivesDisconnect` |
| `one_sided_backlog` | 2 clients, no failure, fair | **violated**: `SessionCompletes` |

*Bounds.* `MaxIter` stands for 1200. Flow control ends with the first message
of a link, the second is the first that can race with a read, the third the
first whose write can meet an unread second, and the fourth follows on a link in
that state: four rounds with one worker contain every such case. Two workers let
one be a full round ahead of the other, as far as the barrier allows; a third
adds no new relation, since workers interact through `CanMerge` only. Two workers
run for three rounds: round 0 is released freely and sent under MSG_MR, and the
server exits when the last round is released, so only the third makes the exit
depend on what an early end hides, a MSG_READY, a refilled buffer, a second message
and a second pass of the equality tests on every link. With the lost send of
finding 1 (`PollerPrompt` FALSE) the cluster ends after two rounds but not after
three. The theorems hold for any number of both. `MaxSends` bounds the test
sender. No run uses symmetry with a temporal property.

Two clients of a server port are a first and a successor, or two that overlap;
two writes are one under the first SEND and one under an answer. The sizes in
`MCPartition` lie on both sides of the multiples and squares of the numbers of
workers; the shipped ones are among them.

A second client of the one-sided server is one whose request can come at any
time; a third could do nothing else. Remote writes are bounded by the send queue
alone, of which a single slot is either free or taken.

In the cluster a client finds its server's port listening: `ServerPreConn` has no
failure. The operator has to start the processes in such an order; a client that
is too early gets REJECTED and ends (`rdma_two_sided_client_op.cpp:267-270`), and
only `LinkLifetime` has it. For the safety properties a worker that ends then is
one that never connects; the liveness run takes the order for granted.

*Fairness.* Every thread is a loop that sleeps and looks again, every poller
blocks on its channel, the adapter executes what is posted. `StellarBench` asks
less than weak fairness of each: that a process does not stop for ever while one
of its threads can go on, nor an adapter with a write posted. It is enough since
no step repeats: each brings a round forward. The test pair has weak fairness of
each thread. The operator is assumed to press Enter. In `LinkLifetime` the server's
three threads, the clients' pollers, the handshake and the delivery of a posted
write are weakly fair; that a process starts, writes or ends is not, nor that
the end of a client is noticed. In `Partition` main, the send threads and the
workers go on.

*Findings.*

1. `lost_send`: the poller posts the write, is delayed, the round trip
   completes, the application fills the next round and sets `can_send`, and the
   poller's late `can_send = false` wipes it. The round reported as "should have
   sent" is never written, and training stops. `test_send` is immune: it looks
   at `buf_write_counter`, which is stored after the clear.
2. `unregistered`: a worker prints "has registered send buffer" without
   waiting for it, and dies if it has trained round 0 before its own connection
   is resolved.
3. `send_recv_overwrite`: "this buf I have read it, so please prepare new buf
   content" is what `can_recv = true` should mean; but it is never reset, and
   the second write may overwrite a message that is being read. In the cluster
   the rounds prevent that (`NoUnreadOverwrite`).
4. `one_sided_backlog`: the listening id and the accepted connection share an
   event channel. The request of a second client, which "backlog = 8 clients,
   same as TCP" invites, arrives where the server waits for ESTABLISHED; the
   server then either gives up on the first client or, with `errno` 0, takes it
   for connected.
5. `link_survives`: "don't exit on disconnect", but a client that ends while the
   server's MSG_MR or MSG_READY to it is in flight makes that SEND fail, and
   `server_poll_cq` calls `rc_die` on every failed completion.

## The proofs

For every number of workers and rounds, and whatever the operator and the
pollers do (assumptions: `TopologyAssumption`, `MaxIterAssumption`,
`TimingAssumption`):

- `Invariance`: `Spec => []IInv`.
- `TypeCorrect`, `TurnCorrect`, `ReceiveBuffersSafe`, `SendBuffersSafe`,
  `WritesMatchRounds`, `BlocksSafe`, `SendsNotSkipped`: the safety properties.
- `PatientOperator`: with `OperatorWaits`, no worker dies (`NoCrash`).
- `CrashContained`: `CrashHoldsBarrier`, whatever the operator does.
- `ExitSafe`: `ExitLosesOnlyLastRound`, when `exit(0)` ends the server every
  round is released and only the last may be uncollected.
- `Refinement`: `Spec => BSP!Spec`.
- `ContentsCorrect`: `Spec => []ContentInv`, and from it `UpdatesExact`
  (`ExactlyOneUpdate`), both in `ContentProofs`.

For all sizes and numbers of workers (`PartitionAssumption`): `PartitionTyped`,
`TilingCorrect`, `NoDivisionByZero`; and `BufferSuffices` for the shipped `K` and
`BUFFER_SIZE`, which the theorem assumes.

For any number of clients of a server port and of writes (`LifetimeAssumption`):
`Invariance` (`LlIInv`), `Types`, `NoLeak`, `Survival`. For any number of links
between test programs and of fills: `TestInvariance` (`TestIInv`), `TestTypes`,
`WritesMatchFills`, `TestTurn`, and `RelayRefinement`, `Spec => Messages!Spec`.

For any number of one-sided clients, any length of the send queue, and whatever
call fails or process ends (`SessionAssumption`): `OsInvariance` (`OsIInv`),
`OsTypeCorrect`, `CleanComplete` (`CleanLeavesNothing`), `WritesSafe`
(`RemoteWriteSafe`), and `LeaseRefinement`, `Spec => Lease!Spec`.

*The argument.* A round passes through a pipeline: released by `main`, offered
on the down link, written, delivered, received by the worker, trained, offered
on the up link, written, delivered, collected. `Rounds` says that each stage is
at most as far as the one before, strictly less while a thread is in the middle
of a copy or a training, and that the release is at most one ahead of the
collection. So at most one round is in the pipeline of a worker, and two threads
that touch the same memory, each of which would need a round of its own to be
active, are never active together (lemma `PipelineSafety`). `Rounds` alone is
not inductive: what is written and what is delivered are tied by the adapter's
queue (`PostedInv`), and that there is a single write in it by the turn
(`OneTurn`). `TwoSidedLinkProofs` proves the link's share once for all links;
`StellarBenchProofs` adds one step per thread. `PatientOperator` and `CrashContained`
add `StartUp`: nothing arrives on a link before it is up, and no round is released
before the operator pressed Enter. By the pipeline a worker has something to
send only when a round was released, hence only after all send buffers the
operator waited for are there.

*The argument for the contents.* `ExactlyOneUpdate` speaks of the blocks alone
and is not inductive: what a receive thread is about to merge lies in a
registered buffer, and what the adapter is about to put there in the buffer of
the other end. `ContentInv` gives the number of updates in the blocks at both ends
of a worker's pipeline and in both buffers of its two links as a function of the
counter that has passed it: fill n of a down link, counted from 0, carries n
updates, fill n of an up link n + 1, the blocks of the server as many as were
collected. While a copy, a training or a transfer is half done, the
halves differ by one. A step moves a number from one stage to the next, so each
case needs two things: the stage it reads is not being changed (`IInv`, by
`PipelineSafety`), and the counters of the two stages are those that `Rounds`
allows. `ContentFrame` disposes of the other workers and of the stages the step
does not touch; `PsThreadContents`, `WkThreadContents` and `LinkStepContents`
are the rest.

*The argument for the partition.* With `h` the rounded-up height, block `w`
starts at row `w * h` and has `h`, fewer or no rows, and the rows given out so
far are the lesser of `i * h` and all rows: the loop invariant `HeightsOK`. All
else is arithmetic about it. A block starts before the end of the matrix when
`w * h < rows`; the sum `rows + n - 1` is between `n * h` and `n * h + n - 1`
(`DivRange`, the definition of `\div`), so the last block does if
`(n - 1)^2 < rows` (`LastBlockStarts`).

*The argument for a server port.* An event is in the queue once, and while it is
its client and queue pair are as they were when it arose (`EventInv`): the
disconnect, for example, finds the queue pair there. With one client at a time
the context's pointer is that of the only connection there is (`MemoryInv`), so
`server_on_disconnect` frees what `server_on_pre_conn` of the same client
allocated: nothing leaks. If besides each client ends quietly, one thing at a
time happens on a connection, and none of it outlives the client (`Tidy`); the
reader is behind the counter only while a client is connected (`ReadInv`). So
each branch that ends the server has a guard that contradicts `QuietInv`: the
queue pair the poller posts to and the buffer the reader reads are those of a
client that is up. The proof has one lemma for each part of the invariant and
group of actions; `Raised` and `Taken` say what a step does to the event queue.

*The argument for the test pair.* `to_send_counter` is the number of writes plus
the pending offer. `test_send` fills when it is at most `buf_write_counter`;
then nothing is pending, and the poller is not between its write and its clear,
which is where an offer would be wiped (finding 1). The poller cannot get there
without an offer, so it still is not when the offer is made (`OfferKept`).
For the refinement: nothing is pending at a fill, so a fill is one message of the relay; the poller's
post and the end of the adapter's write are the next two (`LinkRelays`: by
`OneTurn` and `PostedInv` the message before has arrived when the next is posted).

*The argument for a one-sided session.* A process is a position in a list of
calls, so most of what is true of it is what it has `Done`. `HeldInv`: it holds
exactly the objects it made and has not come to destroy. Every object the lists
make, they destroy (`Balanced`), so nothing is held at the end. `ConnectionInv`:
only the client the server serves is connected; the server reads DISCONNECTED
only after that connection has gone down, and a connection never comes up again
(`Orderly`, `LinkMoves`). `ExchangeInv` counts a client's good completions: it
waits for two, its own send and the server's metadata, and cannot have both
before the server has sent. Before that send the server has registered the
buffer, and it destroys it only after DISCONNECTED (`ServerOrder`); so the buffer
of a client that is set up and connected is there (`LentBuffer`). The failures
change none of this: a method that fails does not go on, and the process stays
where it is. For the refinement, the steps that register and release the buffer
are calls of the server that leave all connections alone (`BufferStep`); all
others change at most who may write, to one client when nobody could
(`LeaseStep`).

*Model-checked only*: liveness, which is out of the prover's reach
(`TrainingCompletes`, `EveryFillDelivered`, `ClientServed`, `EveryMessageRead`,
`EveryWorkerTrains`, `SessionCompletes`). Every invariant and every refinement
that a passing run checks is also proved, `NoCrash` and `PayloadFits` under the
hypothesis their runs make true (`OperatorWaits`; the shipped `K` and
`BUFFER_SIZE` with three workers or more).

## Not modelled

- The GPU kernels, their demo, and the floating-point arithmetic of `FakeSubMF`:
  no protocol state.
- `worker.cpp`, a copy of `worker.cu` the build does not use; `wait4connection`,
  `check_src_dst`, `get_addr` and the loaders, which nothing calls.
- `client_remote_memory_ops`, an endless demonstration around one write, and
  `client_send_metadata_to_server`: both use `src`, which no code sets.
- What is reached only in the other role: a client that accepts, a server that
  resolves, MSG_DONE.
- The end of a parameter server or a worker in the middle of training as a whole:
  `StellarBench` has the two ends the programs have themselves (`exit(0)`, the
  copy to a null pointer), `LinkLifetime` the end of any client process for one
  port. Nothing in the programs recovers from either.
- Memory exhaustion; addresses and ports; the values of elements.

## Plan

1. *Done*: link, server, worker, cluster, test pair, one-sided session, life of a
   server port, partition; the abstract specifications `BspTraining`, `Relay` and
   `BufferLease`.
2. *Done*: the inductive invariant of each, every safety property, the three
   refinements.
3. To come: an abstract specification of a server port (a client is accepted,
   served and gone; memory belongs to the client) and its refinement by
   `LinkLifetime`.
