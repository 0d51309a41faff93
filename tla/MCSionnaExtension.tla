------------------------- MODULE MCSionnaExtension -------------------------
(* Instances of SionnaExtension: two nodes, two positions. *)
EXTENDS SionnaExtension
=============================================================================
