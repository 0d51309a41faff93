----------------------------- MODULE MCUdpSend -----------------------------
(* The instance of UdpSend with the sizes of common.h. *)
EXTENDS UdpSend

\* Every short burst, and frames around the limits of one and more batches.
SomeSamples == 1 .. 400 \cup {1000, 1024, 1447, 1448, 1449, 2000, 4096}
SomeRatios == {<<1, 1>>, <<1, 2>>, <<2, 1>>}
=============================================================================
