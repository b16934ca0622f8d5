------------------------------ MODULE Topology ------------------------------
(***************************************************************************)
(* The links of a training cluster.  For worker number w the parameter     *)
(* server is the client of port 20000 + w (Down) and the server of port    *)
(* 10000 + w (Up); the worker is the other end of both.                    *)
(***************************************************************************)
EXTENDS TwoSidedLink

CONSTANT Worker            \* the worker numbers, 0 .. worker_num - 1

Down(w) == <<"down", w>>   \* parameter server to worker
Up(w)   == <<"up", w>>     \* worker to parameter server

ASSUME TopologyAssumption == Link = {Down(w) : w \in Worker} \cup {Up(w) : w \in Worker}
=============================================================================
