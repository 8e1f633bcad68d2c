---------------------------- MODULE MCPpmRing ----------------------------
(* The ring on a small instance: see PpmRing.cfg. *)
EXTENDS PpmRing
=============================================================================
