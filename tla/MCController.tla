---------------------------- MODULE MCController ----------------------------
(* Small instances of Controller for TLC. *)
EXTENDS Controller, TLC

CONSTANTS n1, n2

NodePerms == Permutations(Node)

\* The first two uplinks are 5 kHz apart, too close for a retune.
SomeTunings == {[ul |-> 10, dl |-> 10], [ul |-> 11, dl |-> 20], [ul |-> 20, dl |-> 10]}
=============================================================================
