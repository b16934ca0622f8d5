----------------------------- MODULE BspTraining ----------------------------
(***************************************************************************)
(* What the cluster promises: bulk-synchronous training in numbered rounds.*)
(* No round starts before every block trained in the round before is back  *)
(* at the parameter server, and in each round every worker trains once and *)
(* every result is collected once.                                         *)
(***************************************************************************)
EXTENDS Integers

CONSTANTS Worker, MaxIter

VARIABLES
  round,       \* rounds released
  trained,     \* trained[w]: rounds worker w has trained
  collected    \* collected[w]: rounds of worker w's results collected

vars == <<round, trained, collected>>

Init ==
  /\ round = 0
  /\ trained = [w \in Worker |-> 0]
  /\ collected = [w \in Worker |-> 0]

ReleaseRound ==
  /\ round < MaxIter
  /\ \A w \in Worker : collected[w] = round
  /\ round' = round + 1
  /\ UNCHANGED <<trained, collected>>

Train(w) ==
  /\ trained[w] = collected[w]
  /\ trained[w] < round
  /\ trained' = [trained EXCEPT ![w] = @ + 1]
  /\ UNCHANGED <<round, collected>>

Collect(w) ==
  /\ collected[w] < trained[w]
  /\ collected' = [collected EXCEPT ![w] = @ + 1]
  /\ UNCHANGED <<round, trained>>

Next ==
  \/ ReleaseRound
  \/ \E w \in Worker : Train(w) \/ Collect(w)

Spec == Init /\ [][Next]_vars
=============================================================================
