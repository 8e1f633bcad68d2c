-------------------------- MODULE MCSinspThreads --------------------------
(* Two processes, of which one is the root of all, and a thread, seen live or *)
(* in a file, in a container, with lost events, reused ids, and small tables. *)
EXTENDS SinspThreads

LiveUse == [live |-> TRUE, container |-> FALSE, reuse |-> FALSE, losses |-> 0, limit |-> 9,
            numbers |-> Tids, names |-> {RootName}]
LiveUses == {LiveUse}
\* A use with losses has the behaviours of LiveUse among its own.
AllUses == {[LiveUse EXCEPT !.losses = 1], [LiveUse EXCEPT !.container = TRUE],
            [LiveUse EXCEPT !.live = FALSE], [LiveUse EXCEPT !.limit = 1],
            [LiveUse EXCEPT !.numbers = Procs, !.names = {1, 2}],
            [LiveUse EXCEPT !.numbers = Threads, !.names = {1, 2}],
            [LiveUse EXCEPT !.limit = 2, !.reuse = TRUE]}
=============================================================================
