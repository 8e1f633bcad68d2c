---------------------------- MODULE MCSinspRules ----------------------------
(***************************************************************************)
(* Long filters that are only read, and two rules with one check each.     *)
(* Names, tags and kinds are only compared: they are symmetric.            *)
(***************************************************************************)
EXTENDS SinspRules

Symmetry == Permutations(Names) \cup Permutations(Tags) \cup Permutations(Kinds)
=============================================================================
