---------------------------- MODULE BufferLease ----------------------------
(***************************************************************************)
(* What a one-sided session promises about the server's buffer: it is      *)
(* registered, lent to at most one client, once, and released only when    *)
(* the session is over.                                                    *)
(***************************************************************************)
CONSTANT Client

VARIABLES
  buffer,   \* "none", "registered" or "released"
  lessees,  \* the clients that may write into the buffer
  over      \* the session has ended, whether or not the buffer was lent

vars == <<buffer, lessees, over>>

Init ==
  /\ buffer = "none"
  /\ lessees = {}
  /\ over = FALSE

Register ==
  /\ buffer = "none"
  /\ buffer' = "registered"
  /\ UNCHANGED <<lessees, over>>

Lend(c) ==
  /\ buffer = "registered"
  /\ lessees = {}
  /\ ~over
  /\ lessees' = {c}
  /\ UNCHANGED <<buffer, over>>

Return ==
  /\ ~over
  /\ over' = TRUE
  /\ lessees' = {}
  /\ UNCHANGED buffer

Release ==
  /\ buffer = "registered"
  /\ over
  /\ buffer' = "released"
  /\ UNCHANGED <<lessees, over>>

Next == Register \/ (\E c \in Client : Lend(c)) \/ Return \/ Release

Spec == Init /\ [][Next]_vars
=============================================================================
