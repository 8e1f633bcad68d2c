------------------------------ MODULE SinspFds ------------------------------
(***************************************************************************)
(* The file descriptor table that libsinsp keeps for a process: the table  *)
(* of sinsp_fdtable with its one-entry cache, the pairing of the enter and *)
(* the exit event of a system call (reset, store_event,                    *)
(* retrieve_enter_event, event_cleanup), the parsers of the calls that     *)
(* make, copy and close descriptors, and the removals that sinsp::next     *)
(* puts off to the next event.  The kernel is the environment: the threads *)
(* of one process make system calls, each of which emits an enter event,   *)
(* takes effect, and emits an exit event.  The inspector handles an event  *)
(* when it is emitted (it never asks the kernel here, so lag is no matter),*)
(* unless the event is lost.                                               *)
(***************************************************************************)
EXTENDS Naturals, FiniteSetsExt

CONSTANTS Threads,   \* the threads of the process
          Fds,       \* numbers of descriptors
          Files,     \* what a descriptor may refer to
          Unknown,   \* those that accept finds with no address, or an unknown family
          Uses,      \* the kinds of run
          MaxCalls   \* bound: system calls

None == 0
CANCELED_FD_NUMBER == 99

\* accept stands for all calls whose exit event tells everything about the new
\* descriptor; fcntl is F_DUPFD, and getfl any other command of fcntl.
Ops == {"openat", "accept", "close", "dup", "dup2", "fcntl", "getfl", "read"}

\* threads and ops: who calls, and what; losses: how many events may be lost; limit:
\* m_max_fdtable_size.
Use == [threads : SUBSET Threads, ops : SUBSET Ops, losses : Nat, limit : Nat]

ASSUME FdsAssumption ==
    /\ IsFiniteSet(Threads)
    /\ IsFiniteSet(Fds) /\ Fds \subseteq Nat \ {None, CANCELED_FD_NUMBER}
    /\ Files \subseteq Nat \ {None} /\ Unknown \subseteq Files
    /\ Uses \subseteq Use /\ MaxCalls \in Nat

VARIABLES
    use,       \* the kind of this run
    files,     \* the kernel's table: what each number refers to
    call,      \* per thread: the system call it is in
    calls,     \* how many calls were made
    lost,      \* how many events were lost
    fdt,       \* sinsp_fdtable: m_table, and m_last_accessed_fd in cached
    toRemove,  \* m_fds_to_remove
    last,      \* per thread: m_lastevent_type, m_lastevent_fd, m_lastevent_data
    parsed,    \* history: what the last exit event was taken for
    sure       \* history: numbers whose last change, since the last loss, is one
               \* that the events tell all about

kernelVars == <<files, call, calls>>
inspectorVars == <<fdt, toRemove, last>>
vars == <<use, kernelVars, lost, inspectorVars, parsed, sure>>

\* id tells the calls apart; fd and to are its arguments, file the one that it names
\* or finds, ret its result (None: it failed), seen that its enter event was.
Idle == [stage |-> "idle", id |-> 0, op |-> "none", fd |-> None, to |-> None,
         file |-> None, ret |-> None, seen |-> FALSE]
NoEvent == [id |-> 0, type |-> "none", file |-> None]
NotParsed == [id |-> 0, enter |-> 0, on |-> None, file |-> None]

Init ==
    /\ use \in Uses
    /\ files = [fd \in Fds |-> None]
    /\ call = [t \in Threads |-> Idle]
    /\ calls = 0 /\ lost = 0
    /\ fdt = [m_table |-> << >>, cached |-> None]
    /\ toRemove = {}
    /\ last = [t \in Threads |-> [type |-> "none", fd |-> None, data |-> NoEvent]]
    /\ parsed = NotParsed
    /\ sure = Fds

\* The event table: dup, dup2 and dup3 have one event, and so have all fcntls.
UsesFd == {"close", "dup", "dup2", "fcntl", "getfl", "read"}
Type(op) == CASE op = "dup2" -> "dup" [] op = "getfl" -> "fcntl" [] OTHER -> op

---------------------------------------------------------------------------
\* sinsp_fdtable and sinsp_threadinfo::get_fd.  An operator takes the table and
\* returns the new one.

Has(F, fd) == fd \in DOMAIN F.m_table

find(F, fd) == IF Has(F, fd) THEN [F EXCEPT !.cached = fd] ELSE F

Mark(F, fd, flag, b) ==
    IF flag = "closing" THEN [F EXCEPT !.m_table[fd].closing = b]
                        ELSE [F EXCEPT !.m_table[fd].canceled = b]

Put(F, fd, info) ==
    [F EXCEPT !.m_table = [x \in DOMAIN @ \cup {fd} |-> IF x = fd THEN info ELSE @[x]]]
New(file) == [file |-> file, closing |-> FALSE, canceled |-> FALSE]

\* The new entry of a number whose close is in progress is marked, and the old one
\* is kept under CANCELED_FD_NUMBER, whatever the size of the table.
BugAdd(F, fd, info) ==
    IF Has(F, fd) /\ ~F.m_table[fd].closing THEN F
    ELSE IF Cardinality(DOMAIN F.m_table) < use.limit
         THEN [Put(F, fd, info) EXCEPT !.cached = None] ELSE F
add(F, fd, info) ==
    IF ~Has(F, fd)
    THEN IF Cardinality(DOMAIN F.m_table) < use.limit
         THEN [Put(F, fd, info) EXCEPT !.cached = None] ELSE F
    ELSE IF F.m_table[fd].closing
         THEN Put(Put(F, CANCELED_FD_NUMBER, F.m_table[fd]), fd,
                  [info EXCEPT !.closing = FALSE, !.canceled = TRUE])
         ELSE Put(F, fd, info)

\* erase of each of the numbers.
BugErase(F, fds) == [F EXCEPT !.m_table = [x \in DOMAIN @ \ fds |-> @[x]]]
erase(F, fds) ==
    [F EXCEPT !.m_table = [x \in DOMAIN @ \ fds |-> @[x]],
              !.cached = IF @ \in fds THEN None ELSE @]

---------------------------------------------------------------------------
\* The parsers.  S holds fdt, toRemove and the thread's last; info is m_fdinfo, the
\* number whose entry the event is about, or None.

State(t) == [fdt |-> fdt, toRemove |-> toRemove, last |-> last[t], info |-> None]

get_fd(S, fd) ==
    [S EXCEPT !.fdt = find(@, fd), !.info = IF Has(S.fdt, fd) THEN fd ELSE None]

add_fd(S, fd, info) ==
    LET F == add(S.fdt, fd, info)
    IN  [S EXCEPT !.fdt = F, !.last.fd = fd, !.info = IF Has(F, fd) THEN fd ELSE None]

\* Only an entry that exists is put on the list.
erase_fd(S, fd) == IF Has(S.fdt, fd) THEN [S EXCEPT !.toRemove = @ \cup {fd}] ELSE S

BugResetEnter(S, e) ==
    LET fd == IF e.op \in UsesFd THEN e.fd ELSE None
    IN  get_fd([S EXCEPT !.last.type = Type(e.op), !.last.fd = IF Has(S.fdt, fd) THEN fd ELSE @], fd)
ResetEnter(S, e) ==
    LET fd == IF e.op \in UsesFd THEN e.fd ELSE None
    IN  get_fd([S EXCEPT !.last.type = Type(e.op), !.last.fd = fd], fd)

\* A canceled close is cleaned up by the next exit event on the number.
Uncancel(S) ==
    LET fd == S.info
        F == find(Mark(S.fdt, fd, "canceled", FALSE), CANCELED_FD_NUMBER)
    IN  IF S.info # None /\ S.fdt.m_table[fd].canceled
        THEN erase_fd([S EXCEPT !.fdt = F], CANCELED_FD_NUMBER) ELSE S

Valid(S, e) == S.last.type = Type(e.op)

ResetExit(S, e) ==
    IF Valid(S, e) /\ e.op \in UsesFd THEN Uncancel(get_fd(S, S.last.fd)) ELSE S

store_event(S, e) ==
    [S EXCEPT !.last.data = [id |-> e.id, type |-> Type(e.op), file |-> e.file]]

\* What retrieve_enter_event requires: an enter event, of the type of the exit event.
retrieve_enter_event(S, e) ==
    Valid(S, e) /\ S.last.data # NoEvent /\ S.last.data.type = Type(e.op)

parse_close_enter(S) ==
    IF S.info # None THEN [S EXCEPT !.fdt = Mark(@, S.info, "closing", TRUE)] ELSE S

ParseEnter(S, e) ==
    CASE e.op \in {"openat", "fcntl"} -> store_event(S, e)
      [] e.op = "close" -> parse_close_enter(S)
      [] OTHER -> S

\* The name and the flags of an openat are those of the enter event.
parse_open_openat_creat_exit(S, e) ==
    IF retrieve_enter_event(S, e) /\ e.ret # None
    THEN add_fd(S, e.ret, New(S.last.data.file)) ELSE S

\* accept and the other calls whose exit event tells everything, unless it is about
\* a socket that the parser does not know.
BugAccept(S, e) == add_fd(S, e.ret, New(e.file))
parse_accept_exit(S, e) ==
    IF e.ret = None THEN S
    ELSE IF e.file \in Unknown THEN [S EXCEPT !.last.fd = e.ret]
    ELSE add_fd(S, e.ret, New(e.file))

\* If the close was canceled the old entry goes, else the one of the number.
BugCloseExit(S, e) ==
    IF S.info = None THEN S ELSE [S EXCEPT !.fdt = Mark(@, S.info, "closing", FALSE)]
parse_close_exit(S, e) ==
    IF S.info = None THEN S
    ELSE IF e.ret = None THEN [S EXCEPT !.fdt = Mark(@, S.info, "closing", FALSE)]
    ELSE IF S.fdt.m_table[S.info].canceled
         THEN erase_fd([S EXCEPT !.fdt = find(Mark(@, S.info, "canceled", FALSE), CANCELED_FD_NUMBER)],
                       CANCELED_FD_NUMBER)
         ELSE erase_fd(S, S.last.fd)

\* The copy has the flags of the original, and it is the original that add marks.
Copy(S, e) ==
    LET closing == Has(S.fdt, e.ret) /\ S.fdt.m_table[e.ret].closing
        U == IF closing
             THEN [S EXCEPT !.fdt = Mark(Mark(@, S.info, "closing", FALSE), S.info, "canceled", TRUE)]
             ELSE S
    IN  add_fd(U, e.ret, U.fdt.m_table[S.info])

parse_dup_exit(S, e) ==
    IF e.ret = None \/ S.info = None THEN S
    ELSE Copy([S EXCEPT !.fdt = find(@, e.ret)], e)

parse_fcntl_exit(S, e) ==
    IF ~retrieve_enter_event(S, e) \/ e.ret = None \/ S.info = None THEN S ELSE Copy(S, e)

ParseExit(S, e) ==
    CASE e.op = "openat"          -> parse_open_openat_creat_exit(S, e)
      [] e.op = "accept"          -> parse_accept_exit(S, e)
      [] e.op = "close"           -> parse_close_exit(S, e)
      [] e.op \in {"dup", "dup2"} -> parse_dup_exit(S, e)
      [] Type(e.op) = "fcntl"     -> parse_fcntl_exit(S, e)
      [] e.op = "read"            -> S

event_cleanup(S) == [S EXCEPT !.last.data = NoEvent]

\* sinsp::next: the removals that were put off, the parsers, the cleanup.
remove_fds(S) == [S EXCEPT !.fdt = erase(@, S.toRemove), !.toRemove = {}]
NextEnter(S, e) == ParseEnter(ResetEnter(remove_fds(S), e), e)
NextExit(S, e) == ParseExit(ResetExit(remove_fds(S), e), e)

Becomes(t, S) ==
    /\ fdt' = S.fdt /\ toRemove' = S.toRemove
    /\ last' = [last EXCEPT ![t] = S.last]

---------------------------------------------------------------------------
\* The kernel.  The threads of a sound program do not close or replace a descriptor
\* that another of them uses, or that the call that makes it has not returned, and a
\* thread that is not alone names open descriptors only.

Changes(c) ==
    CASE c.op = "close" -> IF c.stage = "entered" THEN {c.fd} ELSE {}
      [] c.op = "dup2"  -> {c.to}
      [] c.op \in {"openat", "accept", "dup", "fcntl"} -> {c.ret} \ {None}
      [] OTHER -> {}
Reads(c) == IF c.op \in UsesFd \ {"close"} THEN {c.fd} ELSE {}

Sound(t, c) ==
    /\ c.fd # None /\ use.threads # {t} => files[c.fd] # None
    /\ \A u \in Threads \ {t} :
          /\ Changes(c) \cap (Changes(call[u]) \cup Reads(call[u])) = {}
          /\ Reads(c) \cap Changes(call[u]) = {}

Lose == lost < use.losses /\ lost' = lost + 1 /\ sure' = {}

Enter(t, op, fd, to, file) ==
    LET c == [stage |-> "entered", id |-> calls + 1, op |-> op, fd |-> fd, to |-> to,
              file |-> file, ret |-> None, seen |-> TRUE]
    IN  /\ t \in use.threads /\ op \in use.ops
        /\ calls < MaxCalls /\ call[t] = Idle
        /\ fd = None <=> op \notin UsesFd
        /\ IF op = "dup2" THEN to \in Fds \ {fd} /\ files[to] # None ELSE to = None
        /\ file = None <=> op \notin {"openat", "accept"}
        /\ Sound(t, c)
        /\ calls' = calls + 1
        /\ \/ /\ call' = [call EXCEPT ![t] = c]
              /\ Becomes(t, NextEnter(State(t), c))
              /\ UNCHANGED <<lost, sure>>
           \/ /\ call' = [call EXCEPT ![t] = [c EXCEPT !.seen = FALSE]]
              /\ Lose /\ UNCHANGED inspectorVars
        /\ UNCHANGED <<use, files, parsed>>

Done(c, file, ret) == [c EXCEPT !.stage = "done", !.file = file, !.ret = ret]

\* The call takes effect.  A new descriptor gets the lowest number that is free.
Effect(t) ==
    LET c == call[t]
        open == c.fd # None /\ files[c.fd] # None
        free == {fd \in Fds : files[fd] = None}
        made == IF c.op = "dup2" THEN c.to ELSE Min(free)
        Makes(fd, file) ==
            /\ files' = [files EXCEPT ![fd] = file]
            /\ call' = [call EXCEPT ![t] = Done(c, file, fd)]
        Ends(ret) == call' = [call EXCEPT ![t] = Done(c, IF open THEN files[c.fd] ELSE c.file, ret)]
    IN  /\ c.stage = "entered"
        /\ \/ /\ c.op \in {"openat", "accept"} /\ free # {}
              /\ Makes(made, c.file)
           \/ /\ c.op \in {"dup", "dup2", "fcntl"} /\ open
              /\ c.op = "dup2" \/ free # {}
              /\ Makes(made, files[c.fd])
           \/ /\ c.op = "close" /\ open
              /\ files' = [files EXCEPT ![c.fd] = None] /\ Ends(c.fd)
           \/ /\ c.op = "getfl" /\ open
              /\ \E value \in Fds : Ends(value)
              /\ UNCHANGED files
           \/ /\ c.op # "close" \/ ~open
              /\ Ends(None) /\ UNCHANGED files
        /\ UNCHANGED <<use, calls, lost, inspectorVars, parsed, sure>>

\* The number that call c gave to a file, or took from one; an fcntl that copies
\* nothing returns no descriptor.
Gave(c) == IF c.op = "getfl" THEN {} ELSE {c.ret} \ {None}

\* The events of call c tell what became of that number.
Told(c) ==
    \/ c.op \in {"openat", "close"}
    \/ c.op = "accept" /\ c.file \notin Unknown
    \/ c.op \in {"dup", "dup2", "fcntl"} /\ c.fd \in sure

\* The call returns: the exit event.
Return(t) ==
    LET c == call[t]
        S == NextExit(State(t), c)
        used == IF c.op = "openat" \/ Type(c.op) = "fcntl" THEN State(t).last.data.id ELSE 0
    IN  /\ c.stage = "done"
        /\ call' = [call EXCEPT ![t] = Idle]
        /\ \/ /\ Becomes(t, event_cleanup(S))
              /\ parsed' = [id |-> c.id,
                            enter |-> IF retrieve_enter_event(State(t), c) THEN used ELSE 0,
                            on |-> IF c.op = "read" /\ S.info # None
                                   THEN S.fdt.m_table[S.info].file ELSE None,
                            file |-> c.file]
              /\ sure' = IF c.seen /\ Told(c) THEN sure \cup Gave(c) ELSE sure \ Gave(c)
              /\ UNCHANGED lost
           \/ Lose /\ UNCHANGED <<inspectorVars, parsed>>
        /\ UNCHANGED <<use, files, calls>>

Next ==
    \E t \in Threads :
        \/ \E op \in Ops, fd, to \in Fds \cup {None}, file \in Files \cup {None} :
              Enter(t, op, fd, to, file)
        \/ Effect(t)
        \/ Return(t)

Spec == Init /\ [][Next]_vars

---------------------------------------------------------------------------
Quiet == \A t \in Threads : call[t] = Idle
Entries == DOMAIN fdt.m_table \ (toRemove \cup {CANCELED_FD_NUMBER})
Right(fd) == fd \in Entries => fdt.m_table[fd].file = files[fd]
Exact(fd) == Right(fd) /\ (files[fd] # None => fd \in Entries)

NoCopies == use.ops \cap {"dup", "dup2", "fcntl"} = {}

\* The table exceeds m_max_fdtable_size by the one canceled entry at most.
SizeKept == Cardinality(DOMAIN fdt.m_table) <= use.limit + 1

\* Types; in particular the table has numbers of descriptors only, and the number that
\* no descriptor has, and keeps to its size.
TypeOK ==
    /\ SizeKept
    /\ files \in [Fds -> Files \cup {None}]
    /\ DOMAIN fdt.m_table \subseteq Fds \cup {CANCELED_FD_NUMBER}
    /\ \A fd \in DOMAIN fdt.m_table :
          fdt.m_table[fd] \in [file : Files, closing : BOOLEAN, canceled : BOOLEAN]
    /\ \A t \in Threads : last[t].fd \in Fds \cup {None}

\* The cache of sinsp_fdtable::find never holds an entry that is not in the table any
\* more, and the removals that are put off are of entries that exist: find returns
\* the cached pointer without a look at the table, and erase asserts that it finds
\* the entry, one event after erase_fd put it on the list.
CacheCoherent ==
    /\ fdt.cached = None \/ Has(fdt, fdt.cached)
    /\ toRemove \subseteq DOMAIN fdt.m_table

\* When no call is under way, no entry is of a descriptor that is closed, or of a
\* file that its number no longer refers to: however the calls of the threads
\* overlap, the parsers of open and close may miss a descriptor (NewFdSurvives) but
\* not keep a wrong one.
NoWrongEntry == lost = 0 /\ Quiet /\ NoCopies => \A fd \in Fds : Right(fd)

\* The exit event of a read is taken for a read of the file that was read, or of an
\* unknown one, never for a read of another file: m_lastevent_fd and the table are
\* still those of the call after the steps of other threads in between.  A socket that
\* parse_accept_exit does not know is excepted: it leaves the entry that the number
\* had, while another thread's close of it has not returned (Observations in README.md).
Attributed ==
    lost = 0 /\ NoCopies /\ parsed.file \notin Unknown => parsed.on \in {None, parsed.file}

\* Lost events do no lasting damage: what the table says of a number is exact again
\* once a call that gave or closed the number was seen, whatever was left over
\* in the table, in the flags and in m_lastevent_* from the calls that were lost.
\* Without losses the table of a process with one thread is exact, but for sockets
\* that parse_accept_exit does not know.  Losses are not combined with fcntls that do
\* not copy: after a loss their result is taken for a descriptor (Observations in
\* README.md).
Heals ==
    Quiet /\ Cardinality(use.threads) = 1 /\ use.limit > Cardinality(Fds) =>
        \A fd \in sure : Exact(fd)

\* When no call is under way every open descriptor has an entry: a number that was
\* given out again while its close was in progress is marked by add so that the exit
\* event of the close does not destroy the new entry.
NewFdSurvives == lost = 0 /\ Quiet => \A fd \in Fds : files[fd] # None => fd \in Entries

\* The enter event that an exit event is parsed with is the one of the same call.
\* Does not hold when events are lost, see Observations in README.md.
RightEnterEvent == parsed.enter \in {0, parsed.id}
=============================================================================
