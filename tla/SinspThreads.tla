---------------------------- MODULE SinspThreads ----------------------------
(***************************************************************************)
(* The thread table of libsinsp: sinsp_thread_manager, the parsers of      *)
(* clone, execve and exit events that change it, and the delayed and the   *)
(* periodic removals of sinsp::next.  The kernel is the environment: it    *)
(* runs threads, which emit their events when the kernel lets them, and    *)
(* /proc shows its present, while the events show its past.  Events may be *)
(* lost.  One step of the inspector is one call of sinsp::next.            *)
(***************************************************************************)
EXTENDS Naturals, FiniteSetsExt, Sequences

CONSTANTS Root,      \* a process that exists when the capture starts
          Procs,     \* the numbers of processes, that is, of main threads
          Threads,   \* the numbers of the other threads
          RootName,  \* what that process is called then
          Uses,      \* the kinds of capture
          MaxQueue   \* bound: events between the kernel and the inspector

Tids == Procs \cup Threads
NoTid == 0
NoName == 0   \* "<NA>", the name of a thread that is known by number only

\* live: from a driver, with /proc at hand (FALSE: from a file); container: the
\* processes run in a pid namespace; reuse: the kernel uses numbers again; losses:
\* how many events may never reach the inspector; limit: m_max_thread_table_size;
\* numbers: those that the kernel gives out; names: what threads may be called.
Use == [live : BOOLEAN, container : BOOLEAN, reuse : BOOLEAN, losses : Nat, limit : Nat,
        numbers : SUBSET Tids, names : SUBSET (Nat \ {NoName})]

ASSUME ThreadsAssumption ==
    /\ Root \in Procs /\ Procs \cap Threads = {} /\ NoTid \notin Tids
    /\ RootName \in Nat \ {NoName}
    /\ Tids \subseteq Nat /\ IsFiniteSet(Tids)
    /\ Uses \subseteq Use /\ MaxQueue \in Nat

VARIABLES
    use,     \* the kind of this capture
    kernel,  \* per number: what the kernel does with it
    events,  \* emitted, not yet read by sinsp::next
    lost,    \* how many events were lost
    table,   \* m_threadtable: a function on the tids that have an entry
    tidToRemove,  \* m_tid_to_remove
    scanDue, \* m_inactive_thread_scan_time_ns is over since the last scan
    early    \* history: a scan removed a thread that events not yet read are about
             \* (kept while no event is lost and no number is used twice)

vars == <<use, kernel, events, lost, table, tidToRemove, scanDue, early>>

\* A number is free, or of a thread that is being born (its clone() has not
\* returned), runs, is inside clone(), is a zombie, or is gone (not reused yet).
\* renamed is a history: the thread took another name after its clone or execve.
Slot(s) == [state |-> s, pid |-> NoTid, child |-> NoTid, parent |-> NoTid,
            comm |-> NoName, renamed |-> FALSE]
Runs(p, name) == [Slot("run") EXCEPT !.pid = p, !.comm = name]

\* An entry of the table, of the fields that decide about entries: fds stands for an
\* fd table that is the process's, cloned for m_clone_ts, idle for an m_lastaccess_ts
\* older than the timeout.
Entry(pid, thread, comm) ==
    [pid |-> pid, thread |-> thread, inverted |-> FALSE, closed |-> FALSE, nchilds |-> 0,
     comm |-> comm, fds |-> ~thread, cloned |-> "proc", idle |-> TRUE]

Init ==
    /\ use \in Uses
    /\ kernel = [t \in Tids |-> IF t = Root THEN Runs(t, RootName) ELSE Slot("free")]
    /\ events = <<>> /\ lost = 0
    /\ table = [t \in {Root} |-> Entry(Root, FALSE, RootName)]
    /\ tidToRemove = NoTid
    /\ scanDue = FALSE /\ early = FALSE

inspectorVars == <<table, tidToRemove, scanDue, early>>

---------------------------------------------------------------------------
\* The kernel

\* The driver records an event, or loses it.
Emit(e) ==
    \/ /\ Len(events) < MaxQueue
       /\ events' = Append(events, e) /\ UNCHANGED lost
    \/ /\ lost < use.losses
       /\ lost' = lost + 1 /\ UNCHANGED events

Mentioned(t) ==
    \/ \E i \in DOMAIN events : t \in {events[i].tid, events[i].ret}
    \/ \E p \in Tids : kernel[p].child = t

Alive(t) == kernel[t].state \in {"born", "run", "clone"}
InProc(t) == Alive(t) \/ kernel[t].state = "zombie"
Group(p) == {t \in Tids : InProc(t) /\ kernel[t].pid = p}

\* clone, fork and vfork begin: a child exists, and neither side has returned.
Clone(p, c) ==
    /\ kernel[p].state = "run"
    /\ c \in use.numbers /\ kernel[c].state = "free" /\ ~Mentioned(c)
    /\ LET pid == IF c \in Threads THEN kernel[p].pid ELSE c
       IN  kernel' = [kernel EXCEPT
             ![p].state = "clone", ![p].child = c,
             ![c] = [Slot("born") EXCEPT !.pid = pid, !.parent = p, !.comm = kernel[p].comm]]
    /\ UNCHANGED <<use, events, lost, inspectorVars>>

Event(kind, t) == [kind |-> kind, tid |-> t, ret |-> NoTid, pid |-> kernel[t].pid,
                   ptid |-> NoTid, thread |-> FALSE, comm |-> NoName]

\* clone returns in the parent.
CloneParent(p) ==
    /\ kernel[p].state = "clone"
    /\ LET c == kernel[p].child
       IN  Emit([Event("clone", p) EXCEPT !.ret = c, !.thread = c \in Threads,
                                          !.comm = kernel[p].comm])
    /\ kernel' = [kernel EXCEPT ![p].state = "run", ![p].child = NoTid]
    /\ UNCHANGED <<use, inspectorVars>>

\* clone returns in the child; its parent is the thread that called clone, or
\* Root once that is gone.
CloneChild(c) ==
    /\ kernel[c].state = "born"
    /\ LET p == kernel[c].parent
       IN  Emit([Event("clone", c) EXCEPT !.ptid = IF Alive(p) THEN p ELSE Root,
                                          !.thread = c \in Threads, !.comm = kernel[c].comm])
    /\ kernel' = [kernel EXCEPT ![c].state = "run", ![c].parent = NoTid]
    /\ UNCHANGED <<use, inspectorVars>>

\* Any other system call on an fd.
Syscall(t) ==
    /\ kernel[t].state = "run"
    /\ Emit(Event("syscall", t))
    /\ UNCHANGED <<use, kernel, inspectorVars>>

\* prctl(PR_SET_NAME), or a write to /proc/self/comm: no parser looks at them.  Bound:
\* a thread does it once after its clone or execve.
Rename(t, name) ==
    /\ kernel[t].state = "run" /\ kernel[t].comm # name /\ ~kernel[t].renamed
    /\ kernel' = [kernel EXCEPT ![t].comm = name, ![t].renamed = TRUE]
    /\ UNCHANGED <<use, events, lost, inspectorVars>>

\* A thread ends; a main thread may end before the others of its process.
Exit(t) ==
    /\ t # Root /\ kernel[t].state = "run"
    /\ Emit(Event("exit", t))
    /\ kernel' = [kernel EXCEPT ![t].state = "zombie"]
    /\ UNCHANGED <<use, inspectorVars>>

\* execve by the only thread that is left.  The kernel gives it the name of the
\* program and the number of the main thread: another number it had is gone without
\* an exit event.
Exec(t, name) ==
    /\ kernel[t].state = "run"
    /\ LET p == kernel[t].pid
       IN  /\ \A u \in Group(p) \ {t} : kernel[u].state = "zombie" /\ u = p
           /\ Emit([Event("execve", p) EXCEPT !.comm = name])
           /\ kernel' = [u \in Tids |-> IF u = p THEN Runs(p, name)
                                        ELSE IF u = t THEN Slot("gone") ELSE kernel[u]]
    /\ UNCHANGED <<use, inspectorVars>>

\* A zombie disappears, a main thread after the rest of its process.
Reap(t) ==
    /\ kernel[t].state = "zombie"
    /\ Group(t) \subseteq {t}
    /\ kernel' = [kernel EXCEPT ![t] = Slot("gone")]
    /\ UNCHANGED <<use, events, lost, inspectorVars>>

\* Time passes while there is nothing to read and nobody is in clone(), which takes
\* less: CLONE_STALE_TIME_NS, and if long the thread timeout and the scan time as
\* well.  Numbers come back after that.
Tick(long) ==
    /\ events = <<>>
    /\ \A t \in Tids : kernel[t].state \notin {"born", "clone"}
    /\ kernel' = [t \in Tids |-> IF kernel[t].state = "gone" /\ use.reuse THEN Slot("free") ELSE kernel[t]]
    /\ table' = [t \in DOMAIN table |->
                   [table[t] EXCEPT !.cloned = IF @ = "new" THEN "old" ELSE @,
                                    !.idle = @ \/ long]]
    /\ scanDue' = (scanDue \/ (long /\ use.live))
    /\ UNCHANGED <<use, events, lost, tidToRemove, early>>

---------------------------------------------------------------------------
\* The thread manager.  An operator takes the table and returns the new one; o
\* holds what the code leaves to the order of a hash table or to the clock.

Oracle == [seen : BOOLEAN,       \* a loop visits the entries made during the loop
           mainsFirst : BOOLEAN, \* the scan removes main threads first
           late : BOOLEAN]       \* a clone time read from /proc counts as stale

Full(T) == Cardinality(DOMAIN T) >= use.limit
Of(T, p) == {t \in DOMAIN T : T[t].pid = p}
Counted(T, p) == {t \in Of(T, p) : T[t].thread}
With(T, t, r) == [u \in DOMAIN T \cup {t} |-> IF u = t THEN r ELSE T[u]]

\* The entry get_thread_ref makes for a tid it does not know: from /proc, or a fake
\* one.  Its reference count is the number of entries that name it as their process.
Found(T, t) ==
    [IF use.live /\ InProc(t)
     THEN [Entry(kernel[t].pid, kernel[t].pid # t, kernel[t].comm) EXCEPT !.fds = @ /\ Alive(t)]
     ELSE [Entry(t, FALSE, NoName) EXCEPT !.fds = FALSE, !.cloned = "none"]
     EXCEPT !.nchilds = Cardinality(Of(T, t))]

\* get_thread(pid, true, true) for the number of a main thread.
get_main_thread(T, p) == IF p \in DOMAIN T \/ Full(T) THEN T ELSE With(T, p, Found(T, p))

BugIncrement(T, r) == get_main_thread(T, r.pid)
increment_mainthread_childcount(T, r) ==
    IF r.thread
    THEN LET U == get_main_thread(T, r.pid)
         IN  IF r.pid \in DOMAIN U THEN [U EXCEPT ![r.pid].nchilds = @ + 1] ELSE U
    ELSE T

\* The limit is tested before the main thread's entry is made.
add_thread(T, t, r) ==
    IF Full(T) THEN T ELSE With(increment_mainthread_childcount(T, r), t, r)

get_thread(T, t, query) ==
    IF t \in DOMAIN T \/ ~query \/ Full(T) THEN T ELSE add_thread(T, t, Found(T, t))

\* reset_child_dependencies makes the missing main threads, as far as the table has
\* room, because clear_thread_pointers looks for their fd tables; then
\* create_child_dependencies counts.  A main thread made while the loop ran keeps
\* the count it was made with if the loop does not come across it.
recreate_child_dependencies(T, o) ==
    LET missing == {T[t].pid : t \in {u \in DOMAIN T : T[u].thread}} \ DOMAIN T
        room == IF Full(T) THEN 0 ELSE use.limit - Cardinality(DOMAIN T)
        made == CHOOSE S \in SUBSET missing :
                   Cardinality(S) = IF Cardinality(missing) < room THEN Cardinality(missing) ELSE room
        before == [t \in DOMAIN T \cup made |->
                     IF t \in DOMAIN T THEN [T[t] EXCEPT !.nchilds = 0]
                     ELSE [Found(T, t) EXCEPT !.nchilds = IF o.seen THEN 0 ELSE @]]
    IN  [p \in DOMAIN before |->
            [before[p] EXCEPT !.nchilds = @ + Cardinality(Counted(before, p))]]

Erase(T, t) == [u \in DOMAIN T \ {t} |-> T[u]]
BugReleased(T, r) ==
    IF r.thread /\ r.pid \in DOMAIN T THEN [T EXCEPT ![r.pid].nchilds = @ - 1] ELSE T
Released(T, r) ==
    IF r.thread /\ r.pid \in DOMAIN T /\ T[r.pid].nchilds > 0
    THEN [T EXCEPT ![r.pid].nchilds = @ - 1] ELSE T

remove_thread(T, t, force, o) ==
    IF t \notin DOMAIN T \/ (T[t].nchilds # 0 /\ ~force) THEN T
    ELSE LET U == Erase(Released(T, T[t]), t)
         IN  IF T[t].nchilds # 0 THEN recreate_child_dependencies(U, o) ELSE U

\* T is the table when the loop began.
RemoveAll(T, U, S, o) == FoldSet(LAMBDA t, V : remove_thread(V, t, T[t].closed, o), U, S)
RemoveEach(T, S, o) ==
    LET first == IF o.mainsFirst THEN S \cap Procs ELSE S \cap Threads
    IN  RemoveAll(T, RemoveAll(T, T, first, o), S \ first, o)

\* /proc/<pid>/task/<tid>/comm exists and has the name of the entry, or a longer one
\* that begins with it, which counts as the same name here.
scap_is_thread_alive(t, r) == InProc(t) /\ kernel[t].pid = r.pid /\ kernel[t].comm = r.comm

BugInactive(T) == {t \in DOMAIN T : T[t].closed}
Inactive(T) ==
    {t \in DOMAIN T : T[t].closed \/ (T[t].idle /\ ~scap_is_thread_alive(t, T[t]))}

remove_inactive_threads(T, o) ==
    IF scanDue THEN recreate_child_dependencies(RemoveEach(T, Inactive(T), o), o) ELSE T

---------------------------------------------------------------------------
\* The parsers.  Each gets the table after sinsp_parser::reset found the thread.

\* reset: all events but the end of a clone ask /proc about an unknown thread, and
\* the entry counts as used.
reset(T, e) ==
    LET U == get_thread(T, e.tid, e.kind # "clone")
    IN  IF e.tid \in DOMAIN U THEN [U EXCEPT ![e.tid].idle = FALSE] ELSE U

\* The child's side of clone(): an entry of an earlier thread is removed.
Unstale(T, e, o) ==
    IF /\ e.ret = NoTid /\ e.tid \in DOMAIN T
       /\ \/ T[e.tid].cloned = "old"
          \/ T[e.tid].cloned = "proc" /\ o.late
    THEN remove_thread(T, e.tid, TRUE, o) ELSE T

\* A parent that is known by number only is looked up again; if /proc does not know
\* it either, it takes the names of the event.
Validated(T, e, p, o) ==
    IF T[p].comm # NoName THEN T
    ELSE LET U == get_thread(remove_thread(T, p, TRUE, o), p, TRUE)
         IN  IF p \in DOMAIN U
             THEN [U EXCEPT ![p].comm = IF @ = NoName THEN e.comm ELSE @] ELSE U

\* A new thread has the fds of its process, a new process those of its parent; the
\* name is the one that the event's thread had.
Cloned(T, e, c, p) ==
    LET m == IF T[p].thread THEN T[p].pid ELSE p
    IN  [Entry(IF e.thread THEN e.pid ELSE c, e.thread, e.comm) EXCEPT
            !.inverted = e.ret = NoTid, !.cloned = "new",
            !.fds = ~e.thread /\ m \in DOMAIN T /\ T[m].fds]

\* The child's side added the entry; the parent's side has nothing to add.
Known(T, c) == c \in DOMAIN T /\ T[c].inverted

Used(T, t) == IF t \in DOMAIN T THEN [T EXCEPT ![t].idle = FALSE] ELSE T

\* Thread c was cloned by p.  Whoever else had the number c is replaced.
AddClone(T, e, c, p, o) ==
    LET U == get_thread(T, p, TRUE)
        collision == c \in DOMAIN U \/ U[p].comm = NoName
        V == Validated(remove_thread(U, c, TRUE, o), e, p, o)
        W == IF e.thread THEN V ELSE get_main_thread(V, V[p].pid)
        added == add_thread(W, c, Cloned(W, e, c, p))
    IN  IF p \notin DOMAIN U \/ Known(U, c) THEN U
        ELSE IF p \notin DOMAIN V THEN V
        ELSE IF collision THEN Used(added, e.tid) ELSE added

parse_clone_exit(T, e, o) ==
    LET U == Unstale(T, e, o)
        parent == IF e.thread THEN e.pid ELSE e.ptid
    IN  IF e.ret # NoTid
        THEN IF use.container THEN T ELSE AddClone(T, e, e.ret, e.tid, o)
        ELSE IF e.tid \in DOMAIN U THEN U ELSE AddClone(U, e, e.tid, parent, o)

BugExecve(T, e) ==
    IF e.tid \in DOMAIN T
    THEN [T EXCEPT ![e.tid] = [@ EXCEPT !.pid = e.pid, !.thread = FALSE, !.comm = e.comm]]
    ELSE T
parse_execve_exit(T, e) ==
    IF e.tid \in DOMAIN T
    THEN [T EXCEPT ![e.tid] = [@ EXCEPT !.pid = e.pid, !.thread = FALSE, !.closed = FALSE, !.comm = e.comm]]
    ELSE T

parse_thread_exit(T, e) ==
    IF e.tid \in DOMAIN T THEN [T EXCEPT ![e.tid].closed = TRUE] ELSE T

\* A call on an fd looks for the fd table of the process.
get_fd_table(T, e) ==
    IF e.tid \in DOMAIN T /\ T[e.tid].thread THEN get_main_thread(T, T[e.tid].pid) ELSE T

process_event(T, e, o) ==
    CASE e.kind = "clone"   -> parse_clone_exit(T, e, o)
      [] e.kind = "execve"  -> parse_execve_exit(T, e)
      [] e.kind = "exit"    -> parse_thread_exit(T, e)
      [] e.kind = "syscall" -> get_fd_table(T, e)

\* sinsp::next: the removals that were put off, the periodic scan, the event.
next(o) ==
    /\ events # <<>>
    /\ LET e == Head(events)
           S == remove_thread(table, tidToRemove, FALSE, o)
           T == reset(remove_inactive_threads(S, o), e)
       IN  /\ table' = process_event(T, e, o)
           /\ tidToRemove' = IF e.kind = "exit" /\ e.tid \in DOMAIN T THEN e.tid ELSE NoTid
           /\ early' = (early \/ /\ lost = 0 /\ ~use.reuse /\ scanDue
                                 /\ \E t \in Inactive(S) : ~S[t].closed /\ Mentioned(t))
    /\ events' = Tail(events)
    /\ scanDue' = FALSE
    /\ UNCHANGED <<use, kernel, lost>>

---------------------------------------------------------------------------
Kernel ==
    \/ \E p, c \in Tids : Clone(p, c)
    \/ \E t \in Tids : \/ CloneParent(t) \/ CloneChild(t) \/ Syscall(t)
                       \/ Exit(t) \/ Reap(t)
    \/ \E t \in Tids, name \in use.names : Rename(t, name)
    \/ \E t \in Tids, name \in use.names : Exec(t, name)
    \/ \E long \in BOOLEAN : Tick(long)

Next == Kernel \/ \E o \in Oracle : next(o)

Spec == Init /\ [][Next]_vars

\* What every step of next does; enabled exactly when next is.
ReadEvent == events # <<>> /\ events' = Tail(events)

\* The inspector keeps up with the events (Tick needs an empty queue), time passes,
\* zombies are reaped, and Root keeps making system calls: the scan is made by the
\* next event that comes after its time.
Fairness ==
    /\ WF_events(ReadEvent)
    /\ []<><<Tick(TRUE)>>_vars
    /\ \A t \in Tids : WF_vars(Reap(t))
    /\ SF_vars(Syscall(Root))

FairSpec == Spec /\ Fairness

---------------------------------------------------------------------------
EntryType ==
    [pid : Tids, thread : BOOLEAN, inverted : BOOLEAN, closed : BOOLEAN, nchilds : Nat,
     comm : Nat, fds : BOOLEAN, cloned : {"none", "proc", "new", "old"}, idle : BOOLEAN]

\* Types: an entry's fields, and that the unsigned m_nchilds is never decremented
\* below 0 by remove_thread, which would wrap it.  The table exceeds
\* m_max_thread_table_size by one entry at most: add_thread tests the size before
\* increment_mainthread_childcount adds the main thread.
TypeOK ==
    /\ DOMAIN table \subseteq Tids
    /\ \A t \in DOMAIN table : table[t] \in EntryType
    /\ Cardinality(DOMAIN table) <= use.limit + 1
    /\ tidToRemove \in Tids \cup {NoTid} /\ scanDue \in BOOLEAN
    /\ lost \in 0..use.losses /\ Len(events) <= MaxQueue

RefcountExact ==
    \A p \in DOMAIN table \cap Procs : table[p].nchilds = Cardinality(Counted(table, p))

\* m_nchilds of a main thread is the number of entries that are threads of its
\* process, whatever the order in which add_thread, remove_thread and
\* recreate_child_dependencies met them, as long as no event is lost and no thread
\* number is used twice, the table has room for all, and no scan took an entry away
\* that events still to be read are about: a main thread that is counted too low is
\* deleted under its threads, one counted too high is never deleted on its exit.
RefcountExactNoLoss ==
    (lost = 0 /\ ~use.reuse /\ use.limit > Cardinality(Tids) /\ ~early) => RefcountExact

\* Once all events are read, every thread that runs has an entry of its process, of
\* the right kind and name, not marked as closed: no order of the two sides of clone,
\* of exits and of execves by other threads makes the parsers or the scan lose or
\* mistake it.  The exception are threads that renamed themselves since their clone or
\* execve: the scan takes an idle one for dead (scap_is_thread_alive compares names).
LiveKnown ==
    (lost = 0 /\ ~use.reuse /\ events = <<>> /\ use.limit > Cardinality(Tids)) =>
        \A t \in Tids : (kernel[t].state = "run" /\ ~kernel[t].renamed) =>
            /\ t \in DOMAIN table /\ table[t].pid = kernel[t].pid
            /\ table[t].comm = kernel[t].comm
            /\ ~table[t].closed /\ table[t].thread = (kernel[t].pid # t)

\* A thread that runs can reach the fd table that its process was given: the
\* reference count of the main thread keeps it from being deleted, if it ends
\* first, until the threads are done (increment_mainthread_childcount).
FdTableKept ==
    lost = 0 => \A t \in DOMAIN table :
        (table[t].thread /\ Alive(t)) => table[t].pid \in DOMAIN table /\ table[table[t].pid].fds

\* An entry of a thread that is gone does not stay: it is removed at its exit event,
\* by the scan if that was lost, or because another thread has the number.
DeadForgotten ==
    \A t \in Tids : []<>(use.live => t \notin DOMAIN table \/ InProc(t))
=============================================================================
