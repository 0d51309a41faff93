---------------------------- MODULE MCUdpReceive ----------------------------
(* Instances of UdpReceive with the batch size of common.h. *)
EXTENDS UdpReceive

MixedBursts == <<4, 4, 5>>   \* two frames of one size, then a longer one
=============================================================================
