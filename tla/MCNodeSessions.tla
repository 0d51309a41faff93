-------------------------- MODULE MCNodeSessions --------------------------
(* A small instance of NodeSessions for TLC. *)
EXTENDS NodeSessions

CONSTANTS a, b, none, k1, k2

\* A node that follows a vehicle, under either name, one that says where it is,
\* and the end of both.
Requests == [type : {"config"}, name : {k1, k2}, vehicle : {TRUE}, location : {FALSE}]
            \cup {[type |-> "config", name |-> k1, vehicle |-> FALSE, location |-> TRUE],
                  [type |-> "disconnect"]}
=============================================================================
