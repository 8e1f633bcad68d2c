# TLA+ models of sysdig

Sysdig captures system calls and other kernel events. A kernel module (or an
eBPF program) records them into per-CPU ring buffers; libscap maps the rings
into a process and serves the events in time order; libsinsp follows the events
to keep a model of threads, descriptors and containers; the command line tools
filter and print. This directory specifies the parts of that pipeline whose
correctness depends on interleavings, and checks and proves what they promise.

## Inventory

The parts, with their state, their operations and what is hard about them.
PROJECT.json lists every part with its sources, and the hazards with the lines
where they bite.

| Part | State | Operations | Hard to test |
|---|---|---|---|
| Event ring, driver side (`driver/main.c`) | `head`, `tail`, buffer and cushion, `preempt_count`, counters | `record_event_consumer` | runs against a reader on another CPU; nested events; wrap, full ring, cushion |
| Event ring, reader (`libscap/scap.c`) | `m_lastreadsize`, `m_sn_len`, `m_sn_next_event` | `scap_next_live`, `refill_read_buffers`, `scap_advance_tail`, setters that flush | tail is advanced a call late; flush while an event is in use |
| Consumer life cycle (`driver/main.c`) | `g_consumer_list`, rings per consumer and CPU, probe flags | `ppm_open`, `ppm_release`, ioctls, hotplug callbacks | probes walk the list under RCU only; error paths; CPUs come and go |
| Dropping mode, event mask (`driver/main.c`) | `dropping_mode`, `is_dropping`, `need_to_insert_drop_*`, `g_events_mask` | `drop_event`, `record_drop_e/x`, ioctls | unlocked flags shared by all CPUs; one mask for all consumers |
| Live open and close (`scap.c`) | descriptors and mappings per device | `scap_open_live_int`, `scap_close` | failure in the middle of a loop |
| Device merge (`scap.c`) | one read position per ring | `scap_next_live` | rings refilled at different times, one order |
| eBPF probe and perf buffers (`driver/bpf`, `scap_bpf.h`) | perf rings, lost-event counts | probes, `scap_bpf_readbuf` | as the event ring |
| Async key-value source (`userspace/async`) | request queue, value map, worker thread | `lookup`, `store_value`, `stop`, `run` | time-outs, pruning, start and stop of the thread |
| Process suppression (`libscap/scap_procs.c`) | `m_suppressed_tids`, listed comms | `scap_check_suppressed`, `scap_update_suppressed`, `scap_next` | follows processes by events that may come late |
| Parsers, descriptor tables (`libsinsp/parsers.cpp`, `fdinfo.cpp`) | stored enter events, descriptor tables with a cache | `reset`, `store_event`, `retrieve_enter_event`, the parsers, `find`, `add`, `erase` | dropped enter events, a descriptor given out again during its close |
| Thread table (`libsinsp/threadinfo.cpp`, `sinsp.cpp`) | map of threads, child counts | `add_thread`, `remove_thread`, `get_thread`, clone, execve and exit events, scan | two sides of a clone in either order, lost exits, counts on many paths |
| Containers (`libsinsp/container*.cpp`) | container map, lookups in flight, queue of container events | `resolve_container`, engine callbacks, scan | the async thread answers late, after another engine, or after a removal |
| Filters and rules (`libsinsp/filter.cpp`, `gen_filter.cpp`) | tree of checks, lists of rules by type, tag and rule set | `compile_`, `compare`, `add`, `enable`, `enable_tags`, `run` | errors in the middle of a text, early exits, a rule enabled twice |
| Rotation (`libsinsp/cyclewriter.cpp`) | file index, counters, past names | `consider`, `next_file` | several limits at once |
| Trace files, /proc parsing, fillers, fields, tables, chisels, orchestrators, tools | | | sequential, I/O or formatting |

Interactions: tracepoint probes call `record_event_all_consumers`, which walks
the consumer list and writes one ring per consumer; libscap reads the rings
through shared memory and controls the driver by ioctls; libsinsp calls
`scap_next` in a loop and keeps the event until the next call; container
engines ask the async source, whose thread answers through callbacks.

## Modules

| Module | Models |
|---|---|
| `PpmRing` | one ring: the driver's producer and libscap's reader |
| `EventFifo` | what a ring promises: an abstract queue of events |
| `PpmReopen` | `PpmRing` and a device that is closed and opened again |
| `PpmConsumers` | consumers, devices, probes, hotplug |
| `ScapMerge` | `scap_next_live` over several rings |
| `ScapSuppress` | `scap_next`: the merge and the suppression of processes behind it |
| `SinspThreads` | the thread table against a kernel that runs threads |
| `SinspFds` | the descriptor table and the pairing of enter and exit events |
| `AsyncKeyValueSource` | the async source: clients, worker thread, stop |
| `SinspContainers` | the container manager, composed with `AsyncKeyValueSource` |
| `SinspFilter` | the filter compiler and the evaluation of a filter |
| `SinspRules` | the capture's filter and the rules, composed with `SinspFilter` |
| `PpmRingProofs` | the proofs about `PpmRing` |
| `PpmConsumersProofs` | the proofs about `PpmConsumers` |
| `ScapProofs` | the proofs about `ScapMerge` and `ScapSuppress` |
| `SinspContainersProofs` | the proofs about `AsyncKeyValueSource` and `SinspContainers` |
| `SinspFdsProofs` | the proofs about `SinspFds` |
| `SinspThreadsProofs` | the proofs about `SinspThreads` |
| `SinspRulesProofs` | the proofs about `SinspFilter` and `SinspRules` |
| `MC...` | the instances for TLC |

The pipeline is cut at `EventFifo`: `PpmRing` is shown to implement it, `ScapMerge`
takes a ring to be one and is shown to keep every ring one, and libsinsp's modules
take events in the order in which they are read.

Most modules have a variable `use` that `Init` chooses and no step changes. It is the
set-up of a run: which faults may happen, which limits hold, what the clients do.
One run then covers several set-ups, and a property says by `use` where it is stated.

Names that begin with `Bug` are wrong variants of the definition after them.
No specification uses them; putting one in place of its original shows that the
property it is paired with in PROJECT.json notices the slip.

### PpmRing

A byte of the buffer is a cell `[evt, off]`, the event it belongs to and its
place in it. The variables carry the names of the fields of
`ppm_ring_buffer_info`, `ppm_ring_buffer_context` and `scap_device`; `pc` says
how far the running call of `record_event_consumer` is, `rpc` where libscap is.
`log`, `next`, `wpos`, `rpos` and `uncounted` are history variables: the events
published, the index of the next one to be served, the bytes published and
released, the events lost on a path that raises no counter (a page-fault event
that finds the gate closed, a filler that reports a bug).

| Action | Code |
|---|---|
| `SetCapture` | `PPM_IOCTL_ENABLE_CAPTURE`, `PPM_IOCTL_DISABLE_CAPTURE` |
| `RecordEvent` | entry of `record_event_consumer`, up to the preemption gate |
| `ReadPointers` | the copies of head and tail |
| `FillOk`, `NoSpace`, `FillFull`, `FillFailed` | header and filler, by outcome |
| `CopyCushion`, `Publish`, `RecordExit` | the wrap, the new head, the end of the call |
| `NextEvent`, `AdvanceTail`, `Refill` | `scap_next_live` and its helpers |
| `SetSnaplen`, `Flush` | the ioctl of `scap_set_snaplen`, and its read-and-discard loop |

Each step reads or writes the shared memory once, so the reader may come
between any two steps of the producer. A filler is represented by its outcome
and by the room it may have written to. `AdvanceTail` is always followed by
`Refill`; with several devices the refill waits until all are served, which is
a delay of `Refill` here. Bytes that are not a header read as an arbitrary
length. The two memory barriers make each side's steps visible in their order;
the model takes that from `smp_wmb` and `__sync_synchronize`.

### PpmConsumers

A call holds `g_consumer_mutex` from its first to its last step; `op` says
which call and how far. `probe[c]` is the probe running on CPU `c` and the
consumer it is at, `grace` the CPUs for which `synchronize_rcu` waits. A thread
is a consumer (`consumer_id` is the task). CPU hotplug takes two steps in each
direction, the driver's callback and the change of the kernel's online mask
(the latter is the kernel's, hence external), and an open may come between
them. The callback ends with an event for all consumers, so it starts a walk of
the list even when no tracepoint is attached; the callbacks modelled are those of
kernels from 4.10 on. A first open allocates the consumer (`OpenNew`) and lists it
(`ListAdd`) in two steps, a probe may come between them. `deserted` is a history
variable: the tasks whose first open was refused after they had been listed. The
stage `undefined` follows the free of a consumer that is still on the list (see
Observations); nothing is modelled behind it.

### AsyncKeyValueSource

What runs with `m_mutex` held is one step; a wait ends it. `wpc` says where the worker
is in `run`: created (`start`), at the inner loop's test (`loop`), waiting (`wait`,
`wait_until`), after the pruning (`check`), in `run_impl` (`impl`), between
`dequeue_next_key` and `store_value` (`collect`), ended (`done`). `m_request_queue` has,
for every key, whether a request is queued and whether its start time lies ahead, is now
or is past, because `get_deadline` and `dequeue_next_key` treat "now" differently; it
stands for `m_request_set` too, which holds the same keys. An entry of `m_value_map` is
present or not, has a value, a handler, and an age above the ttl or not; values
themselves are not told apart. A handler is the number of the call that passed it, so
that one handler replacing another is visible. `use` says how the source was set up and
is called: waiting or not, with handlers or without, slowly enough for entries to expire
or not. `pending` is a history variable: the handlers that were left and were not
invoked, replaced by a later lookup of the key, or pruned with their entry.

| Action | Code |
|---|---|
| `Lookup`, `Resume` | `lookup` and `lookup_delayed` up to the wait, and after it |
| `GetCompleteResults` | `get_complete_results` |
| `Stop`, `Join` | `stop` under the mutex, and the join; a destructor of a subclass and the base's both call it |
| `WorkerStart`, `WorkerEnd`, `WorkerWait`, `WorkerTimeout`, `WorkerPrune`, `WorkerCheck` | `run` with `get_deadline` and `prune_stale_requests` |
| `DequeueNextKey`, `StoreValue` | the calls of `docker_async_source::run_impl` |
| `Tick`, `Expire`, `SpuriousWake` | the clock, an entry's age, a wait that ends for no reason |

`Resume` also covers a wait on the condition variable of an entry that another
call has erased, which C++ leaves undefined: the model lets the wait end.
A handler is assumed not to call the source (it would wait for the mutex its
caller holds). `get_value` has no caller and is left out.

### ScapMerge and ScapSuppress

Sizes and offsets count events. A CPU takes the time stamp of an event first (`Stamp`)
and publishes it later (`Publish`), so an event may reach its ring after a younger one
of another CPU has been read. `seen` and `top` are history variables: what was
published when the last refill began, and the latest time stamp handed out.

| Action | Code |
|---|---|
| `Stamp`, `Publish` | `record_event_all_consumers`, `record_event_consumer` |
| `Serve`, `NextEvent` | a call of `scap_next_live` that has an event: tails of used-up devices, lowest time stamp |
| `RefillBegins`, `ReadBuf` | `refill_read_buffers`, one `scap_readbuf` per device |
| `FlushBegins`, `ReadBuf` | the loop at the end of `scap_set_snaplen`, `scap_handle_eventmask` and the other setters |

`ScapSuppress` adds processes that clone, execute and exit on the CPUs, and the filter
of `scap_next`. A comm is represented by whether it is listed. `hidden` in an event is
the meaning of "processes with the provided comm, as well as their children" for the
process at that time; `kept` is what the code did. A process belongs to them (`Belonging`)
from its start or an execve on, by its comm or its parent; a child that was running when
its parent came to belong does so from its own next clone or execve on, which is where
the sentence leaves the time open. `orderly` and `steady` are history
variables that say whether an event was overtaken or flushed, and whether a suppressed
process with children exited or executed another program. The duration of the wait for
data is left out (any delay is possible); so are the counters and
`scap_suppress_events_comm` during a capture.

### SinspThreads

The kernel is the environment. It runs threads, each clone emits an exit event on both
sides, in either order, and `/proc` shows the kernel's present while the queue of events
shows its past. Events may be lost, and numbers may be used again (within their kind, a
process's by a process). One step `next` is one call of `sinsp::next`: the delayed
removal, the scan when it is due, `reset` with the lookup in the table or in `/proc`,
and the parser of the event. An entry has the fields that decide about entries: process,
`PPM_CL_CLONE_THREAD`, `PPM_CL_CLONE_INVERTED`, `PPM_CL_CLOSED`, `m_nchilds`, the comm
(0 where it is unknown), whether it has the process's descriptor table, the clone's age,
and whether it was accessed since the last timeout. `thread` stands for `CLONE_THREAD`
and `CLONE_FILES` together. The child's side of a clone names the parent while it lives,
and the root process after that. `Oracle` is the order of the hash table, over which the
code iterates. Time passes (`Tick`) only when the queue is empty and nobody is inside
`clone`. Threads have names, which an execve and a clone set and which a thread may
change (`Rename`: `prctl`, or a write to `/proc`, neither of which the parsers read);
`scap_is_thread_alive` compares them. A number stands for a name, and a name for all
that begin with it, which the comparison does not tell from it either. `early` and
`renamed` are history variables (see Observations). The exemption of the inspector's own
threads from the limit is left out.

### SinspFds

The threads of one process make system calls; each emits an enter event, takes effect,
and emits an exit event. The inspector handles an event when it is emitted: it asks the
kernel nothing here, so lag makes no difference. `NextEnter` and `NextExit` are
`sinsp::next` with `reset`, the parser, `event_cleanup`, and the delayed removal of
descriptors. `accept` stands for every call whose exit event says all about the new
descriptor (`socket`, `socketpair`, `pipe`, `eventfd`, `signalfd`, `timerfd`,
`inotify`); `Unknown` are the files of which such an event says nothing, sockets without
an address or of another family, for which `parse_accept_exit` returns without an entry.
`getfl` stands for `fcntl` with a command other than `F_DUPFD`. The program is assumed
sound: its threads do not close or replace a descriptor that another one uses or that
the call that makes it has not returned, and with two threads they name open descriptors
only. A number may be given out again while its close is in progress. A new descriptor
gets the lowest free number, as in the kernel. `parsed` and `sure` are history
variables: what the last exit event was taken for, and the numbers of which the events
since the last loss told all: they were opened, closed, given to a known socket, or made
a copy of such a number.

### SinspContainers

Composes `AsyncKeyValueSource`, whose only client is the inspector, with the container
map. `m_containers` says per id whether it is absent, docker's stub, or complete.

| Action | Code |
|---|---|
| `resolve_container`, `resolve_host` | `sinsp_container_manager::resolve_container` with docker's and CRI's `resolve` |
| `remove_thread` | `sinsp_thread_manager::remove_thread`, as far as containers count threads |
| `SourceWorker` | the source's thread; its callback queues a container event |
| `parse_container_json_evt` | the pending event, taken by `sinsp::next` |
| `remove_inactive_containers` | the scan |
| `SourceRest` | clock, expiry, `cleanup` |

Live capture only. CRI stands for every engine that answers before it returns (lxc,
libvirt, mesos, rkt, bpm). What the metadata says is left out.

### SinspFilter and SinspRules

A filter is a sequence of words, and a step of the compiler one turn of its loop. A
check is `check`, or `in`, the list of values that the compiler turns into a nested
expression; `bad` is any word that makes it throw. The tree has the expressions with
their parents, checks and Boolean operators, and which are linked. `Meaning` is the
reference definition: connectives of equal strength, grouped from the right, `not`
before a check or a parenthesis. `compare` is the code's loop with its early exits; the
check ids that it passes on to `evt->set_check_id` are left out, as `compile_` sets
none.

`SinspRules` gives compiled filters to `set_filter` and to `sinsp_evttype_filter::add`,
with names, tags and kinds of event, and switches rules on and off. The tables by event
type and by system call work alike and are one here. `enabled` is the history variable
that the lists are compared with. A list of rules is a bag: `run` stops at the first rule
that matches, so that the order does not matter, only how often a rule is in the list.

## Runs

| Run | Bounds | Shows |
|---|---|---|
| `ring` | ring of 6, cushion of 3, header of 1, events of 1 and 4 bytes, 4 events, 1 change of snaplen | integrity of published events and of the event in the caller's hands, order, counters; `PpmRing` implements `EventFifo`; every published event is served or flushed |
| `consumers` | 2 threads, 2 CPUs; allocations and registrations fail, with a limit of 1 or 2 consumers, or with a CPU that comes and goes | `MemorySafe`: no use after free and no consumer left behind; capture only on open rings with buffers; `ProbesSound`: flags, attached probes and the driver's assertions agree; every call returns |
| `suppress` | 2 rings, 3 processes; 2 events per CPU with equal time stamps, or with flushes, 3 events on one CPU, or processes on both | every ring stays a queue, order across rings, nothing starved; the suppression keeps back what it should (`KeptRight`) and forgets the dead |
| `threads` | 2 processes, 1 further thread, 2 events in flight; with 1 event lost or none, in a container, from a file, with a table of 1, with a process or a thread that takes another name, or with numbers used again and a table of 2 | exact counts, running threads known, dead ones forgotten; counts not below zero and the limit of the table (`TypeOK`) |
| `fds` | 2 threads, 2 descriptors, 2 files, one of them unknown to `accept`, 5 calls; two threads, one thread with all calls, one thread with 2 lost events, or a table of 1 | coherent cache, limit of the table (`TypeOK`), no wrong entry, right attribution, recovery from losses |
| `async` | 1 client, 2 keys, 5 calls; the client waits, never waits, or lets entries expire | no entry without a request on its way, one collection at a time, requests collected, handlers invoked, `stop` returns |
| `containers` | 2 containers (one of both engines, one of CRI), 2 threads, 2 lookups, 2 pending events | containers in use known, complete metadata kept, metadata arrives, unused ones forgotten |
| `rules` | every text of up to 8 words; 2 rules, 2 names, tags, kinds and rule sets, 3 switches | the compiler accepts filters and frees the tree on errors, filters decide as they mean, rules decide as enabled |
| `suppress_orphan`, `threads_fdtable`, `fds_cancel`, `ring_reopen` | as their passing counterparts, or smaller | violations, see Findings |

The ring of 6 is small enough for 4 events to wrap it, to fill it exactly, to end an
event exactly at its end and beyond it in the cushion, and for the 4-byte event to be
longer than the cushion. Two threads and two CPUs are enough for a probe to hold a
consumer that another CPU's call unlinks, for a consumer to close one device and keep
the other, and for a second consumer to keep collection running. Two rings with two
events each let an event be published between the reads of the two rings, with an older
one behind it. Three processes make a suppressed one, its child, and the one that adopts
the child. Two processes and a thread have a main thread that ends before its thread, an
execve by the other thread, and a table that is full. Where threads are renamed, either
the second process or the further thread is made, not both, each takes another name once
after a clone or an execve, and there are two names, for size. Five calls let a
descriptor be opened, given out again during its close, and closed again. Two keys let
one be collected while the other is queued, due or delayed. Eight words include
parentheses within parentheses with a `not` before them. In the combined run a rule's
filter has one check, because what a larger one decides is checked on its own.

`MaxEvts`, `MaxSnaplen`, `MaxCalls`, `MaxQueue`, `MaxPending`, `MaxWords` and `MaxRules`
are bounds of the model only. Deadlock is checked in `ring`, `consumers`, `async` and
`containers`; in the others the bound ends a behaviour. Names, tags and kinds are
symmetric in `rules`, which checks invariants only.

Fairness. `ring`: a call of `record_event_consumer` runs to its end (`get_cpu` disables
preemption), and the process keeps calling `scap_next`, which is its main loop.
`consumers`: a call that holds the mutex continues, and a probe's list walk, which is
finite, ends. `async`: the worker thread is scheduled and a collection ends, the clock
advances, a wait times out, and a join whose thread has ended returns. `suppress`: the
process keeps calling `scap_next`. `threads`: the inspector reads the events there are,
time passes, zombies are reaped, and one process keeps making system calls, because the
scan is made by the event after its time. `containers`: as `async`, and the inspector
keeps calling `next` with events coming, so that it takes pending events and scans.
Nothing is assumed of event arrival, capture switching, settings, lookups, stop, expiry
or losses.

## Proofs

`PpmRingProofs` proves for every ring, cushion and header size, every set of
event sizes and any number of events (`SizeAssumption`: the sizes are positive,
a header fits in the cushion, an event is at least as long as its header):

- `TypeCorrect`, `Integrity`, `HeldIntegrity`, `InOrder`, `Uncorrupted`,
  `Accounting`, `NothingSkipped`: the invariants of the run `ring`, and the types, that
  libscap's corruption assertion holds, and that only what was served is released, which
  are left to the proof;
- `Refinement`: `Spec => Fifo!Spec`, the refinement the run `ring` checks.

None of these invariants is inductive alone. `IInv` adds what connects the two
sides:

- `GateInv`: `preempt_count` is 1 exactly while a call is in progress, so there
  is one producer at a time;
- `SpaceInv`: the bytes published and not released are what `get_buf_pointers`
  computes, so the producer's free space and the reader's data are disjoint;
- `LogInv`: the published events tile the byte stream;
- `CallInv`: the producer's head is the head, its free space can only have
  grown, and the event it wrote is in place, before the copy in the buffer and
  cushion, after it in the ring;
- `ReaderInv`: what the reader holds begins at the tail and ends where some
  event ends, so it never sees half an event;
- `HeldInv`: the event in the caller's hands is published and unreleased.

The lemmas are the arithmetic of the offsets (`FreePlusUsed`: free and used space
leave exactly one byte; `WriteMisses` and `CopyMisses`: neither the filler nor the
copy of the cushion touches an unreleased byte), the producer's steps, and the
reader's.

`PpmConsumersProofs` proves, for any threads, CPUs and set-ups, `ConsumersTyped` and
`ConsumersLimited`, `ConsumersMemorySafe`, `ConsumersCapture` and `ConsumersProbes`,
with CPUs that come and go and calls that fail in any combination. The invariant has
`MemInv` (a consumer that is not listed any more is in the hands of the call that frees
it, and of the probes whose grace period runs), `RingInv` (open rings have buffers and
belong to listed consumers), `FlagInv` and `ProbeInv` (what the two flags say of rings
and of attached probes, in each stage of a call) and `DesertInv` (a listed consumer has
an open ring, except in its own first open or its removal, or when a refused open left
it behind; an open of a thread that is on the list already and has no ring is of such a
one).

`ScapProofs` proves for any number of devices and events that the event in the
caller's hands is kept (`HandKept`), that an event is late only if it was published after
the refill had begun (`LateOnlyIfRaced`), and that every ring is an `EventFifo`
(`MergeImplementsFifos`); `SystemMerges` shows that `ScapSuppress` implements `ScapMerge`,
which carries the three over to `scap_next`. `MergeInv` adds where the read positions are,
what the loops have done so far, that a ring's time stamps ascend, and that an unserved
event below the latest time stamp handed out was not there when that refill began.

Of the suppression it proves `KeptRight` and `DeadForgotten`, for any devices, processes
and events, under `Ticking`: no two events of processes have the same time stamp. Without
that `KeptRight` is false (see Observations). The set of suppressed threads lags behind
the processes by the events that are not served yet, so neither property is inductive.
`SuppressInv` compares the two through the history of all events: an event tells whether
its process was suppressed after it (`Told`, `Present`: the last event of a process tells
what the process is now), and the filter knows what the last event served of each process
told (`Filtered`). `Ordered` says that as long as nothing was overtaken or flushed the
events served are those not later than the latest time stamp handed out, `Stamped` that
time stamps differ, and `Family` that a child's parent is alive, and belongs to the
suppressed when the child does because of it, as long as no such parent exits or changes.

`SinspContainersProofs` proves `TypeOK` and `FetchOnce` of the source for any clients,
keys and set-ups, and `NoStranded` for any number of clients that do not wait, as
docker's does not. `AsyncInv` adds that a worker that has begun is known to be running,
that a queued request has an entry that waits for it, and that entries age only where
they expire. `ContainersUseSource` shows that the container manager uses the source only
as its clients may, which carries `AsyncInv` over. From it follow, for any containers
and threads, `InUseKnown` and, with it, the action property `NeverDowngraded`.
`NoImmediateReturn` needs `CallbackLeft`: unless requests expire, an entry in the source
has no value to return, because the handler that is left with it takes the value away.
`ContainersAssumption` says how docker's engine calls the source: without waiting
(`NO_WAIT_LOOKUP`, `docker_common.cpp:360`) and with a handler; and that no container
has the empty id.

`SinspFdsProofs` proves, for any threads, descriptors, files, losses and limit:

- `CacheCoherent`, `SizeKept`, `TypeOK`: every operation of the table and every parser
  takes a sound table to a sound one, and the entry of a canceled close is the only one
  past the limit;
- `NoWrongEntry` and `Attributed`, from `RightInv`: as long as no event was lost and
  nothing is copied, the stored enter event of a thread is the one of its call (`Noted`),
  no call changes a descriptor that another one under way reads or changes (`Apart`),
  and an entry differs from the kernel's table only where a call that will correct it is
under way (`Pending`): the close of the number, or the call that gave it to another file,
unless that is an unknown socket;
- `Heals`, and with it `FdsExactAlone` (without losses the table of a process with one
  thread that accepts no unknown socket is exact whenever no call is under way, copies
  and failures included), from `HealInv`: of a number in `sure` the table is exact,
  except for the result of the call under way, whose enter event is remembered if it was
  seen. `Heals` is proved where no events are lost or no `fcntl` with another command
  than `F_DUPFD` is made (`NoStaleFcntl`), as in the run: such an `fcntl` can be taken
  for an earlier `F_DUPFD` whose exit event was lost.

There are lemmas about the operations, and one lemma per step for `RightInv` and for
`HealInv`. The constants are sets of any size; `Threads` and `Fds` are
finite, which a process's are.

`SinspThreadsProofs` proves `TypeOK` for any threads, limits, losses and orders of the
hash table. `TypesInv` adds the types of the kernel's threads and of the events. The
loops over the table are folds over a set in an order that is not known, and no induction
theorem can be used for them. `LoopLeads` takes its place: if every element of the set
leads from what holds after n elements to what holds after n + 1, the result has what
holds after all. It is proved from the well-foundedness of the numbers (`AllNumbers`).

`SinspRulesProofs` proves for filters of any length that none is turned down and that
each expression of the tree has one owner (`CompilerIsSound`), and for any rules, names,
tags and rule sets that an event passes exactly if a rule that is on matches it
(`RulesAreDecided`) and that the kinds of events reported are those of the rules that are
on (`KindsAreKnown`). `CompilerInv` adds that an expression is younger than its parent, that
`m_nest_level` is the depth of the current expression (`Nested`) and, as long as the words
may begin a filter, that of the words, and that the connective to come is one that the
current expression can take (`Reading`). `RulesInv` says that a rule is found by its name
and its tags, and that the lists of a rule set are those of the kinds that a rule that is
on is for, with all of these rules in them.

A step that names no prover is tried with Zenon, then with the SMT solver.

Only model-checked:

- liveness (`EventuallyServed`, `CallsReturn`, `CallbackInvoked`, `RequestCollected`,
  `StopReturns`, `NoneStarved`, `MetadataArrives`, `UnusedForgotten`, `DeadForgotten` of
  the threads): fairness and `ENABLED` are out of the prover's reach;
- `RefcountExactNoLoss` and `LiveKnown` of the threads: what the table may say of a thread
  while events about it wait in the queue has many cases (a parent's or a child's side of
  a clone still to come, an execve between them, a scan of `/proc` ahead of both);
- `DecidesAsMeant`: what a filter means and what `compare` returns are recursive
  functions over texts and trees, and what they compute for every input needs induction
  over data.

The violations are counterexamples and need no proof.

## Findings

- `ring_reopen`: `ppm_open` resets the head of a ring on which `record_event_consumer`
  may still be running, as the comment at `driver/main.c:426` says of `preempt_count`.
  The late publication makes the reader parse stale bytes up to the corruption assertion
  of `scap_next_live`.
- `suppress_orphan`: "stop returning events for all subsequently spawned processes with
  the provided comm, as well as their children. This includes fork()/clone()ed processes
  that might later exec to a different comm" (`libscap/scap.h:948`). At an execve
  `scap_update_suppressed` decides anew and looks for the present parent among the
  suppressed (`scap_procs.c:1359`). A child whose parent has exited or executed an
  unlisted program is returned from then on.
- `threads_fdtable`: the count of a main thread is there "so it won't be deleted (if it
  calls pthread_exit()) until we are done" (`threadinfo.cpp:1240`). The scan removes a
  closed entry with force (`sinsp.cpp:2523`), although its threads run and are counted.
  Their descriptor table goes with it; the entry that `recreate_child_dependencies` gets
  from `/proc` for the zombie has none.
- `fds_cancel`: `sinsp_fdtable::add` marks an entry that replaces one being closed "so
  that the successive close exit won't destroy it" (`fdinfo.cpp:349`). `reset` clears the
  mark when that exit event comes (`parsers.cpp:748`), before `parse_close_exit` tests it
  (`parsers.cpp:2874`), which then erases the new entry.

## Observations

What modelling and reading the code showed besides, without a run of its own.

Rings and consumers:

- `scap_set_snaplen` flushes "so we don't capture events with the old snaplen"
  (`scap.c:1573`); an event being written during the ioctl is published after the flush
  (`NoOldSnaplen` does not hold).
- The first open of a thread, when it is refused with `ENODEV`, leaves a consumer without
  open rings on the list, and nothing removes it (`main.c:412`). "The last closed device
  stops event collection" (`main.c:580`) then fails (`LastCloseStops` does not hold).
- A consumer that a refused open left on the list is found there by the thread's next
  open, with `in_list` false; if the probes cannot be attached, `check_remove_consumer`
  frees it without unlinking it (`main.c:522`). It takes a CPU that goes offline and a
  registration that fails. `MemorySafe` names the two cases as its only exceptions, and
  the run and the proof have hotplug and failures together. The set-up with hotplug leaves
  out the ioctls for single probes, for size.
- An event lost to a filler that reports a bug (`PPM_FAILURE_BUG`) is counted nowhere:
  `n_drops_bug`, "caused by an invalid condition in the kernel instrumentation"
  (`scap.h:93`), stays 0 with the kernel module (`scap.c:1249`); only the eBPF probe
  raises it. The accounting of the ring has the ghost counter `uncounted` for it.
- Near the end of the ring a filler is limited by the cushion (`main.c:1712`): an event
  longer than the room left is counted in `n_drops_buffer` with most of the ring free.
- Dropping mode: `need_to_insert_drop_e/x` are shared by all CPUs without a lock, and
  disabling the mode leaves `is_dropping` (`main.c:830`); the markers are ignored by the
  parser (`parsers.cpp:155`). A refused sampling ratio leaves the mode on, with interval 0
  after an open (`main.c:852`). Every open fills the global event mask (`main.c:443`), and
  an event that the reset of the mask keeps on can be switched off alone (`main.c:953`).
- `scap_open_live_int`: when the second mapping of a device fails its descriptor is
  closed there and again by `scap_close` (`scap.c:370`); a CPU that is offline while the
  devices are opened leaves the devices behind it unopened.

Merge and suppression:

- An execve or exit event that is overtaken by an event of another CPU, or flushed by a
  change of settings, leaves the set of suppressed threads wrong; `KeptRight` and
  `DeadForgotten` are stated without that.
- An execve and the exit of the same process on another CPU, with the same time stamp,
  may be served in the wrong order without an event being overtaken; the exit is then
  returned, and the dead process stays in the set (`KeptRight` and `DeadForgotten` do not
  hold). The run and `Ticking` have clocks that tell two events of processes apart.

Threads:

- The counts may be wrong although no event is lost (`RefcountExact` does not hold): with
  numbers used again; when the table is full and a main thread finds no room; and when a
  scan removes the entry of a thread that `/proc` has no more while events about it are
  still to be read. Hence the conditions of `RefcountExactNoLoss`, of which the history
  variable `early` is the last.
- A thread that has renamed itself since its clone or execve and is idle for the timeout is
  removed by the scan although it runs: `scap_is_thread_alive` compares the name in the
  entry with the one in `/proc` (`scap_procs.c:1189`, called at `sinsp.cpp:2502`). Its
  next event brings it back from `/proc`. `LiveKnown` excepts renamed threads.
- A late clone event of the parent can enter a child again that has exited; the scan
  removes that.
- The table may exceed its limit by one: `add_thread` tests the size before
  `increment_mainthread_childcount` adds the main thread (`TypeOK` says what holds).
- The result of `get_fd_table` is used without a test at `parsers.cpp:1291`.

Descriptors:

- `dup2` from a source that is unknown leaves the target's old entry, and a copy of an
  entry copies its close flags, so that the canceled slot may stay used
  (`threadinfo.cpp:1364` asserts against an entry there). `NoWrongEntry` and
  `Attributed` are stated for tables without such copies.
- `parse_accept_exit` returns without an entry when the event has no address or one of an
  unknown family (`parsers.cpp:2713`, `parsers.cpp:2766`). If the number is one that
  another thread is just closing, its old entry is still there, and a read of the socket is
  attributed to the old file until the exit event of the close comes. `Attributed` is
  stated without reads of such sockets, and `Heals` counts their numbers as not known.
- `m_lastevent_fd` is stale when an enter event is lost; the exit event is then parsed
  with the one of an earlier call (`RightEnterEvent` does not hold). `Heals` says how far
  that goes.

Async source and containers:

- "that callback handler will be invoked [...] once the value has been collected"
  (`async_key_value_source.h:55`). With waiting lookups a first one times out and leaves
  its handler, a second waits, and `store_value` invokes the handler and erases the
  entry; the second leaves its handler in a new entry for which no request is queued
  (`.tpp:218`). Also without waiting, a second lookup of a key that is being collected
  replaces the handler of the first, which is never invoked (`.tpp:218`). And an entry
  older than the ttl is erased with its handler while its request is queued
  (`.tpp:314`); the next lookup then returns at once, of which `docker_common.cpp:433`
  says "This should *never* happen". `CallbackInvoked` excepts handlers that were
  replaced or pruned, and is checked with both; lookups that wait and pass a handler are
  in no set-up (docker's, the only source in the repository, does not wait).
  `NoImmediateReturn` is stated where nothing expires.
- `stop` is there "to ensure that the async thread stops when the object is destroyed"
  (`async_key_value_source.h:206`), but tests `m_running`, which a worker that was just
  created has not set (`.tpp:81`): it is not joined (`StopJoins` does not hold).
- With two clients that wait for one key `NoStranded` does not hold: the first to wake
  erases the entry, and the second leaves an empty one without a request. The inspector's
  thread is the only caller in this repository.
- The CRI engine sets the thread's container id before its lookup. When that fails and
  docker does not know the container either, the thread names a container that is not in
  the map, hence `InUseKnown` is about docker's containers.
- The event of a container does not carry `m_metadata_complete`, so a stub written to a
  trace file reads back as complete. The source is a member of the docker engine
  (`docker.h:133`), one per inspector.

Filters and rules:

- `and` and `or` have equal strength and group from the right. The compiler accepts more
  than filters: `not not a` is a single `not`, `a not b` and `() a` make a check without
  connective, and a `)` too many runs into an assertion, although the compiler "throws a
  sinsp_exception if the filter syntax is not valid" (`filter.h:64`). `DecidesAsMeant` is
  about texts that are filters; `CompilerSound` says of the others only that the tree
  stays sound.
- An `in` on a field that is not a string leaks the check it was parsed from.
- A second rule with a name that is taken is reachable by its tags only and never freed;
  `evttypes_for_ruleset` does not test the number of the rule set.

## Not modelled

About 127,000 lines are counted as the implementation, most of them data tables, argument
marshalling, parsing, formatting, screens and clients of outside services; the modules
cover the parts in which state, order and faults decide. Not modelled, with the reason:

- fillers and event tables: one system call's arguments copied in a straight line; a
  filler is represented by its outcome. `ppm_mmap` is represented by what it gives the
  reader, the ring mapped twice in a row;
- the eBPF probe: its ring and its atomicity are the kernel's, outside the repository;
- dropping mode and event mask: they decide which events exist, which the models leave
  open, and nothing downstream depends on their markers (see Observations);
- opening and closing a capture, file rotation, trace files: one thread, one pass, and
  what could go wrong is visible on reading (see Observations);
- parsing of `/proc`, names of files and addresses, protocol state, field extraction,
  formatting, tracers: conversions of strings;
- the DNS manager: its concurrency is that of a library's map;
- tables, views, curses, chisels, orchestrator clients, command line: screens, Lua
  scripts, HTTP and option parsing.
