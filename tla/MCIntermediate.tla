--------------------------- MODULE MCIntermediate ---------------------------
(* Small instances of Intermediate for TLC. *)
EXTENDS Intermediate, TLC

CONSTANTS a, b, t1, t2, none, slow, fast

Perms == Permutations({a, b}) \cup Permutations({t1, t2}) \cup Permutations({slow, fast})
=============================================================================
