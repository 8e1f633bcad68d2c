------------------------- MODULE MCSinspContainers -------------------------
(* One inspector; a container that both engines recognise, one of CRI's only. *)
EXTENDS SinspContainers

NoWait == [wait |-> FALSE, handlers |-> {TRUE}, expire |-> FALSE]
DockerUses == {NoWait, [NoWait EXCEPT !.expire = TRUE]}
=============================================================================
