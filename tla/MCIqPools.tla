---------------------------- MODULE MCIqPools ----------------------------
(* A small instance of IqPools for TLC. *)
EXTENDS IqPools

CONSTANTS r1, r2, t1, t2

\* One pool that is large enough, one that runs dry while two workers take two
\* buffers each, and two pools between which the buffers drift.
Setups == {[nodes |-> 1, cap |-> 11, attached |-> {t1}],
           [nodes |-> 1, cap |-> 3, attached |-> {t1, t2}],
           [nodes |-> 2, cap |-> 3, attached |-> {t1}]}
=============================================================================
