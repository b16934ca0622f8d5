------------------------------- MODULE Relay -------------------------------
(***************************************************************************)
(* What the test programs promise of each link: messages pass it one by    *)
(* one and in order.  A message is filled in when the one before is sent,  *)
(* sent when the one before has arrived, and read at most once.            *)
(***************************************************************************)
EXTENDS Integers

CONSTANT Link

VARIABLES
  filled,    \* filled[l]: messages put into the send buffer
  sent,      \* sent[l]: messages handed to the adapter
  arrived,   \* arrived[l]: messages in the receive buffer so far
  read       \* read[l]: messages read

vars == <<filled, sent, arrived, read>>

Init ==
  /\ filled = [l \in Link |-> 0]
  /\ sent = [l \in Link |-> 0]
  /\ arrived = [l \in Link |-> 0]
  /\ read = [l \in Link |-> 0]

Fill(l) ==
  /\ sent[l] = filled[l]
  /\ filled' = [filled EXCEPT ![l] = @ + 1]
  /\ UNCHANGED <<sent, arrived, read>>

Send(l) ==
  /\ sent[l] < filled[l]
  /\ arrived[l] = sent[l]
  /\ sent' = [sent EXCEPT ![l] = @ + 1]
  /\ UNCHANGED <<filled, arrived, read>>

Arrive(l) ==
  /\ arrived[l] < sent[l]
  /\ arrived' = [arrived EXCEPT ![l] = @ + 1]
  /\ UNCHANGED <<filled, sent, read>>

Read(l) ==
  /\ read[l] < arrived[l]
  /\ read' = [read EXCEPT ![l] = @ + 1]
  /\ UNCHANGED <<filled, sent, arrived>>

Next == \E l \in Link : Fill(l) \/ Send(l) \/ Arrive(l) \/ Read(l)

Spec == Init /\ [][Next]_vars
=============================================================================
