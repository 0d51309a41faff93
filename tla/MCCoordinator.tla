--------------------------- MODULE MCCoordinator ---------------------------
(* Small instances of Coordinator for TLC. *)
EXTENDS Coordinator

CONSTANTS a, b

\* A node with both devices has a channel to itself as well.
SomeLinks == {<<a, a>>, <<a, b>>}

SomeSettings == {<<"TWO_RAY", 1>>, <<"3GPP", 0>>, <<"3GPP", 1>>, <<"HATA", 1>>}
=============================================================================
