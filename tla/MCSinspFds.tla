---------------------------- MODULE MCSinspFds ----------------------------
(* Two threads that share a descriptor table, and one alone that makes every *)
(* kind of call, with and without lost events and a small table.             *)
EXTENDS SinspFds

Shared == [threads |-> Threads, ops |-> {"openat", "accept", "close", "read"},
           losses |-> 0, limit |-> 9]
Alone == [Shared EXCEPT !.threads = {CHOOSE t \in Threads : TRUE}, !.ops = Ops]
Lossy == [Alone EXCEPT !.losses = 2, !.ops = Ops \ {"getfl", "accept"}]
Small == [Shared EXCEPT !.limit = 1, !.ops = @ \ {"accept"}]
AllUses == {Shared, Alone, Lossy, Small}
SharedUses == {[Shared EXCEPT !.ops = {"openat", "close"}]}
=============================================================================
