--------------------------- MODULE MCPpmConsumers ---------------------------
(* Two threads and two CPUs, which are model values, in several set-ups. *)
EXTENDS PpmConsumers

\* Every call may fail, with room for both threads and for one of them only.
FailUse == [limit |-> 2, hotplug |-> {}, fails |-> TRUE, probes |-> TRUE]
\* A CPU comes and goes, and calls may fail.
HotplugUse == [limit |-> 2, hotplug |-> {CHOOSE c \in Cpus : TRUE}, fails |-> TRUE, probes |-> FALSE]

AllUses == {FailUse, [FailUse EXCEPT !.limit = 1], HotplugUse}
=============================================================================
