---------------------------- MODULE ScapSuppress ----------------------------
(***************************************************************************)
(* scap_next on a live capture: the merge of ScapMerge, and the filter     *)
(* behind it that keeps back the events of processes whose name is on the  *)
(* list of suppressed comms and of their children (scap_check_suppressed   *)
(* in userspace/libscap/scap_procs.c).  The filter follows the processes   *)
(* by their clone, execve and exit events, in the order of the merge.      *)
(*                                                                         *)
(* A comm is represented by whether it is on the list.                     *)
(***************************************************************************)
EXTENDS ScapMerge

CONSTANTS Root,          \* the process that adopts orphans, whose name is not listed
          Tids,          \* thread ids, Root included; none is used twice
          Uses           \* how the system behaves

\* processes: processes are created, execute programs and exit; otherwise only
\* Root runs.  ticks: how far the clock moves between two events.  cpus: the CPUs
\* processes run on.  evts: bound on the events per CPU.  flushes: settings change.
Use == [processes : BOOLEAN, ticks : SUBSET Nat, cpus : SUBSET Devs, evts : Nat,
        flushes : BOOLEAN]

\* What an event says: its type, thread, that thread's parent, whether its comm is
\* listed, and (ghost) whether its thread was to be kept back then.
Types == {"clone", "execve", "exit", "other"}
KernelEvents == [type : Types, tid : Tids, ptid : Tids, listed : BOOLEAN, hidden : BOOLEAN]

ASSUME SuppressAssumption == Uses \subseteq Use /\ Root \in Tids /\ Payloads = KernelEvents

VARIABLES
    use,
    task,                 \* the processes, and whether they are to be kept back
    m_suppressed_tids,
    kept,                 \* whether scap_next kept back the last event of the merge
    orderly,              \* ghost: no event was overtaken or flushed so far
    steady                \* ghost: no child of a suppressed process outlived the suppression

suppressVars == <<use, task, m_suppressed_tids, kept, orderly, steady>>
vars == <<mergeVars, suppressVars>>

\* hidden says what "stop returning events for all [...] processes with the
\* provided comm, as well as their children" (scap.h) means for a process: no,
\* because of its comm, or as a child.  born: its clone has not returned yet.
Task == [state : {"none", "born", "alive", "dead"}, cloning : BOOLEAN, listed : BOOLEAN,
         parent : Tids, hidden : {"no", "comm", "child"}]
NoTask == [state |-> "none", cloning |-> FALSE, listed |-> FALSE, parent |-> Root, hidden |-> "no"]

\* The capture finds Root and, where there are processes, a second one whose comm
\* may be listed: the scan of /proc puts such a process into the set.
Init ==
    /\ MergeInit
    /\ use \in Uses
    /\ \E listed \in BOOLEAN, t \in Tids \ {Root} :
         LET second == [NoTask EXCEPT !.state = "alive", !.listed = listed,
                                      !.hidden = IF listed THEN "comm" ELSE "no"]
         IN  /\ t = CHOOSE u \in Tids \ {Root} : TRUE
             /\ listed => use.processes
             /\ task = [u \in Tids |-> IF u = Root THEN [NoTask EXCEPT !.state = "alive"]
                                       ELSE IF u = t THEN second ELSE NoTask]
             /\ m_suppressed_tids = IF listed THEN {t} ELSE {}
    /\ kept = FALSE /\ orderly = TRUE /\ steady = TRUE

---------------------------------------------------------------------------
\* The processes

Alive == {t \in Tids : task[t].state \in {"born", "alive"}}
Recording(t) == \E c \in Devs : stamp[c] # NoStamp /\ stamp[c].evt.tid = t
Hid(r) == r.hidden # "no"

\* A process records one event at a time, on any CPU.
Emit(c, t, type, r) ==
    /\ ~Recording(t)
    /\ c \in use.cpus /\ Len(log[c]) < use.evts
    /\ \E tick \in use.ticks :
         Stamp(c, tick, [type |-> type, tid |-> t, ptid |-> r.parent,
                         listed |-> r.listed, hidden |-> Hid(r)])
    /\ UNCHANGED <<use, m_suppressed_tids, kept, orderly>>

\* clone: both sides return from it, in any order, and record an exit event.
Create(p, t) ==
    /\ use.processes
    /\ task[p].state = "alive" /\ ~task[p].cloning /\ ~Recording(p)
    /\ task[t].state = "none"
    /\ task' = [task EXCEPT ![p].cloning = TRUE,
                            ![t] = [NoTask EXCEPT !.state = "born", !.cloning = TRUE,
                                                  !.listed = task[p].listed, !.parent = p]]
    /\ UNCHANGED <<mergeVars, use, m_suppressed_tids, kept, orderly, steady>>

\* A process belongs to the suppressed ones if its parent does, or by its comm.  The
\* parent's state counts when the process starts, clones, or executes a program; from
\* then on it is a suppressed one's child ("this includes fork()/clone()ed processes
\* that might later exec to a different comm").
Belonging(r) ==
    [r EXCEPT !.hidden = IF @ = "child" \/ Hid(task[r.parent]) THEN "child"
                         ELSE IF r.listed THEN "comm" ELSE "no"]

Started(t) == Belonging([task[t] EXCEPT !.cloning = FALSE, !.state = "alive"])

CloneReturns(c, t) ==
    /\ task[t].cloning
    /\ task' = [task EXCEPT ![t] = Started(t)]
    /\ Emit(c, t, "clone", Started(t))
    /\ UNCHANGED steady

\* t is no longer a suppressed process; do its children rely on it?
Unsteady(t) == Hid(task[t]) /\ \E u \in Alive : task[u].parent = t

Execve(c, t, listed) ==
    /\ use.processes
    /\ task[t].state = "alive" /\ ~task[t].cloning /\ t # Root
    /\ LET r == Belonging([task[t] EXCEPT !.listed = listed])
       IN  /\ task' = [task EXCEPT ![t] = r]
           /\ Emit(c, t, "execve", r)
           /\ steady' = (steady /\ (Unsteady(t) => Hid(r)))

\* The children of a process that exits become children of Root.
Exit(c, t) ==
    /\ use.processes
    /\ task[t].state = "alive" /\ ~task[t].cloning /\ t # Root
    /\ task' = [u \in Tids |-> IF u = t THEN [task[u] EXCEPT !.state = "dead"]
                               ELSE IF task[u].parent = t THEN [task[u] EXCEPT !.parent = Root]
                               ELSE task[u]]
    /\ Emit(c, t, "exit", task[t])
    /\ steady' = (steady /\ ~Unsteady(t))

OtherEvent(c, t) ==
    /\ use.processes \/ t = Root
    /\ task[t].state = "alive" /\ ~task[t].cloning
    /\ Emit(c, t, "other", task[t])
    /\ UNCHANGED <<task, steady>>

---------------------------------------------------------------------------
\* The filter

BugSuppressedBy(e, tids) == e.listed
SuppressedBy(e, tids) == e.ptid \in tids \/ e.listed

\* scap_update_suppressed: the set after the event ...
scap_update_suppressed(e, tids) ==
    IF SuppressedBy(e, tids) THEN tids \cup {e.tid} ELSE tids \ {e.tid}

BugCheck(e, tids) ==
    IF e.type \in {"clone", "execve"} THEN scap_update_suppressed(e, tids) ELSE tids

\* ... scap_check_suppressed, which calls it for the events that make a process.
scap_check_suppressed(e, tids) ==
    IF e.type \in {"clone", "execve"} THEN scap_update_suppressed(e, tids)
    ELSE IF e.type = "exit" THEN tids \ {e.tid}
    ELSE tids

Kept(e, tids) ==
    IF e.type \in {"clone", "execve"} THEN SuppressedBy(e, tids) ELSE e.tid \in tids

\* Device d's next event is served before an earlier one of another CPU.
Overtakes(d) ==
    \E c \in Devs :
        \/ stamp[c] # NoStamp /\ stamp[c].ts < ts(d)
        \/ \E i \in NextOf(c) .. Len(log[c]) : log[c][i].ts < ts(d)

scap_next ==
    \E d \in Devs :
        /\ NextEvent(d)
        /\ LET e == log[d][m_sn_next_event[d]].evt
           IN  /\ m_suppressed_tids' = scap_check_suppressed(e, m_suppressed_tids)
               /\ kept' = Kept(e, m_suppressed_tids)
        /\ orderly' = (orderly /\ ~Overtakes(d))
        /\ UNCHANGED <<use, task, steady>>

---------------------------------------------------------------------------
Kernel ==
    \/ \E p, t \in Tids : Create(p, t)
    \/ \E c \in Devs, t \in Tids :
         \/ CloneReturns(c, t)
         \/ \E listed \in BOOLEAN : Execve(c, t, listed)
         \/ Exit(c, t)
         \/ OtherEvent(c, t)
    \/ \E c \in Devs : Publish(c) /\ UNCHANGED suppressVars

Reader == scap_next \/ ((RefillBegins \/ ReadBuf) /\ UNCHANGED suppressVars)

Next ==
    \/ Kernel
    \/ Reader
    \/ use.flushes /\ FlushBegins /\ orderly' = FALSE /\ UNCHANGED <<use, task, m_suppressed_tids, kept, steady>>

\* The inspector keeps calling scap_next.  Nothing is assumed of the processes.
Fairness == WF_vars(Reader)

Spec == Init /\ [][Next]_vars
FairSpec == Spec /\ Fairness

---------------------------------------------------------------------------
\* Properties

Last == log[hand.dev][hand.at].evt

\* As long as the merge gave all events, in the order of their time stamps, scap_next
\* kept back only events of processes that are to be kept back; and all of them, as
\* long as no suppressed process with children exited or executed another program.
KeptRight ==
    hand # NoHand /\ orderly =>
        /\ kept => Last.hidden
        /\ steady /\ Last.hidden => kept

\* "stop returning events for all subsequently spawned processes with the provided
\* comm, as well as their children" (scap.h): no such event is returned.
HiddenNotReturned == hand # NoHand /\ Last.hidden => kept

\* A process that has exited leaves the set once its events are served: a process
\* that gets its number later is not kept back because of it.
DeadForgotten ==
    orderly /\ (\A c \in Devs : stamp[c] = NoStamp /\ NextOf(c) > Len(log[c])) =>
        \A t \in m_suppressed_tids : task[t].state # "dead"
=============================================================================
