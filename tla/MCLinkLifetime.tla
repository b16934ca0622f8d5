--------------------------- MODULE MCLinkLifetime ---------------------------
(***************************************************************************)
(* LinkLifetime for TLC, and what needs a sum over the clients.            *)
(***************************************************************************)
EXTENDS LinkLifetime, FiniteSetsExt

Written == MapThenSumSet(LAMBDA c : writes[c], Client)

(***************************************************************************)
(* Of clients that come one after the other and end with their last        *)
(* message answered and read, every message posted is read: the counters   *)
(* of test_recv carry on from one client to the next.                      *)
(***************************************************************************)
EveryMessageRead ==
  [](alone /\ quiet) =>
    \A k \in 1 .. MaxWrites * Cardinality(Client) : Written = k ~> read_counter >= k
=============================================================================
