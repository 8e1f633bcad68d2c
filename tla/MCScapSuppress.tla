--------------------------- MODULE MCScapSuppress ---------------------------
(* Two devices, or one, and three processes. *)
EXTENDS ScapSuppress

\* One process on all CPUs, whose clocks may agree: the merge.
TieUse == [processes |-> FALSE, ticks |-> {0, 1}, cpus |-> Devs, evts |-> 2,
           flushes |-> FALSE]
\* The same with clocks that differ, and buffers that are discarded.
FlushUse == [TieUse EXCEPT !.ticks = {1}, !.flushes = TRUE]
\* Processes on one CPU.
OneCpuUse == [processes |-> TRUE, ticks |-> {1}, cpus |-> {0}, evts |-> 3,
              flushes |-> FALSE]
\* Processes on all CPUs.
RaceUse == [processes |-> TRUE, ticks |-> {1}, cpus |-> Devs, evts |-> 1,
            flushes |-> FALSE]

AllUses == {TieUse, FlushUse, OneCpuUse, RaceUse}
OrphanUses == {[OneCpuUse EXCEPT !.evts = 4]}
=============================================================================
