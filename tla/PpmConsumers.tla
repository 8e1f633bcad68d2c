---------------------------- MODULE PpmConsumers ----------------------------
(***************************************************************************)
(* The life of the driver's consumers (driver/main.c): ppm_open,           *)
(* ppm_release and the ioctls that start and stop collection, serialised   *)
(* by g_consumer_mutex, against the tracepoint probes, which walk          *)
(* g_consumer_list under rcu_read_lock() only, and CPU hotplug.            *)
(***************************************************************************)
EXTENDS Integers, FiniteSets

CONSTANTS Tasks,            \* threads that open devices; a consumer's id
          Cpus,             \* possible CPUs; one device per CPU
          Uses              \* the set-ups

\* limit: module parameter max_consumers; hotplug: CPUs that may go offline and come
\* back; fails: allocation and probe registration may fail; probes: the ioctls that
\* attach and detach single probes are used.
Use == [limit : Nat \ {0}, hotplug : SUBSET Cpus, fails : BOOLEAN, probes : BOOLEAN]

ASSUME ConsumerAssumption == Tasks # {} /\ Uses \subseteq Use

VARIABLES
    use,          \* the set-up
    hp,           \* per CPU: hotplug state (on, down, off, up)
    allocated,    \* tasks whose ppm_consumer_t is allocated
    listed,       \* tasks whose consumer is on g_consumer_list
    ring,         \* per consumer and CPU: ppm_ring_buffer_context
    registered,   \* tracepoints our probes are attached to
    g_tracepoint_registered, g_fault_tracepoint_registered,
    op,           \* the call that holds g_consumer_mutex
    deserted,     \* history: tasks whose first open was refused and that had no device since
    probe,        \* per CPU: the consumer a probe is working on
    grace         \* CPUs a synchronize_rcu() in progress waits for

vars == <<use, hp, allocated, listed, ring, registered, g_tracepoint_registered,
          g_fault_tracepoint_registered, op, deserted, probe, grace>>

\* Tracepoints in the order ppm_open attaches them.
Base   == <<"sys_exit", "sys_enter", "sched_process_exit", "sched_switch", "signal_deliver">>
Faults == {"page_fault_user", "page_fault_kernel"}
BaseSet == {Base[i] : i \in 1 .. 5}

NoRing == [cpu_online |-> FALSE, buffer |-> FALSE, open |-> FALSE, capture |-> FALSE]
Idle   == [kind |-> "idle"]
Outside == [in |-> FALSE, at |-> {}]

\* cpu_online_mask: a CPU leaves it after the driver's offline callback ran,
\* and is in it before the online callback runs.
Online(c) == hp[c] # "off"

OpenRings(t) == {c \in Cpus : ring[t][c].open}

Init ==
    /\ use \in Uses
    /\ hp \in {h \in [Cpus -> {"on", "off"}] : \A c \in Cpus \ use.hotplug : h[c] = "on"}
    /\ allocated = {} /\ listed = {}
    /\ ring = [t \in Tasks |-> [c \in Cpus |-> NoRing]]
    /\ registered = {}
    /\ g_tracepoint_registered = FALSE /\ g_fault_tracepoint_registered = FALSE
    /\ op = Idle
    /\ deserted = {}
    /\ probe = [c \in Cpus |-> Outside]
    /\ grace = {}

---------------------------------------------------------------------------
\* ppm_open

RoomForConsumer == Cardinality(listed) < use.limit

\* A task that has no consumer yet gets one, with a ring for every CPU that is
\* online now.  EBUSY at the limit, ENOMEM when the consumer or its ring array
\* cannot be had.
OpenNew(t, c) ==
    /\ op = Idle
    /\ t \notin listed
    /\ RoomForConsumer
    /\ allocated' = allocated \cup {t}
    /\ ring' = [ring EXCEPT ![t] = [d \in Cpus |->
                  [NoRing EXCEPT !.cpu_online = Online(d), !.buffer = Online(d)]]]
    /\ op' = [kind |-> "add", task |-> t, cpu |-> c, in_list |-> FALSE]
    /\ UNCHANGED <<use, hp, listed, registered, g_tracepoint_registered,
                   g_fault_tracepoint_registered, deserted, probe, grace>>

\* list_add_rcu: the consumer is on the list from here on, whatever happens to the
\* open.  A hotplug callback that came before it did not find the consumer.
ListAdd ==
    /\ op.kind = "add"
    /\ listed' = listed \cup {op.task}
    /\ op' = [op EXCEPT !.kind = "open", !.in_list = TRUE]
    /\ UNCHANGED <<use, hp, allocated, ring, registered, g_tracepoint_registered,
                   g_fault_tracepoint_registered, deserted, probe, grace>>

AfterFailedInit(t, c) == [kind |-> "free", task |-> t, cpu |-> c, in_list |-> FALSE]

\* init_ring_buffer fails for some online CPU: the consumer is not on the list
\* and no ring is open, so check_remove_consumer frees it without waiting.
OpenNewFails(t, c) ==
    /\ use.fails
    /\ op = Idle
    /\ t \notin listed
    /\ RoomForConsumer
    /\ allocated' = allocated \cup {t}
    /\ op' = AfterFailedInit(t, c)
    /\ UNCHANGED <<use, hp, listed, ring, registered, g_tracepoint_registered,
                   g_fault_tracepoint_registered, deserted, probe, grace>>

\* in_list stays false when the consumer was found on the list.
OpenExisting(t, c) ==
    /\ op = Idle
    /\ t \in listed
    /\ op' = [kind |-> "open", task |-> t, cpu |-> c, in_list |-> FALSE]
    /\ UNCHANGED <<use, hp, allocated, listed, ring, registered, g_tracepoint_registered,
                   g_fault_tracepoint_registered, deserted, probe, grace>>

\* ENODEV or EBUSY: the mutex is released and nothing is undone.  A consumer that
\* this open made stays on the list, and no device is open whose release would
\* remove it.
OpenRefused ==
    /\ op.kind = "open"
    /\ LET r == ring[op.task][op.cpu]
       IN  ~r.cpu_online \/ ~r.buffer \/ r.open
    /\ op' = Idle
    /\ deserted' = IF op.in_list THEN deserted \cup {op.task} ELSE deserted
    /\ UNCHANGED <<use, hp, allocated, listed, ring, registered, g_tracepoint_registered,
                   g_fault_tracepoint_registered, probe, grace>>

\* reset_ring_buffer and ring->open = true.
OpenRing ==
    /\ op.kind = "open"
    /\ LET r == ring[op.task][op.cpu]
       IN  r.cpu_online /\ r.buffer /\ ~r.open
    /\ ring' = [ring EXCEPT ![op.task][op.cpu] = [@ EXCEPT !.open = TRUE, !.capture = FALSE]]
    /\ op' = IF g_tracepoint_registered
             THEN Idle
             ELSE [op EXCEPT !.kind = "register"]
    /\ deserted' = IF g_tracepoint_registered THEN deserted \ {op.task} ELSE deserted
    /\ UNCHANGED <<use, hp, allocated, listed, registered, g_tracepoint_registered,
                   g_fault_tracepoint_registered, probe, grace>>

\* The first n tracepoints are attached, the next one fails.
RegisterTo(n) == {Base[i] : i \in 1 .. n}

RegisterProbes ==
    /\ op.kind = "register"
    /\ registered' = registered \cup BaseSet
    /\ g_tracepoint_registered' = TRUE
    /\ op' = Idle
    /\ deserted' = deserted \ {op.task}
    /\ UNCHANGED <<use, hp, allocated, listed, ring, g_fault_tracepoint_registered, probe, grace>>

RegisterFails(n) ==
    /\ use.fails
    /\ op.kind = "register"
    /\ registered' = registered \cup RegisterTo(n)
    /\ op' = [op EXCEPT !.kind = "unwind"]
    /\ UNCHANGED <<use, hp, allocated, listed, ring, g_tracepoint_registered,
                   g_fault_tracepoint_registered, deserted, probe, grace>>

\* A name that begins with Bug is a deliberately wrong variant of the definition
\* that follows it; no specification uses it.  It serves to confirm that the
\* properties notice such a slip.
BugDetached == registered \ (BaseSet \ {"sys_exit"})
Detached == registered \ BaseSet

\* The error labels of ppm_open: detach what was attached, close the ring, and
\* remove the consumer if this was its only open ring.
Unwind ==
    /\ op.kind = "unwind"
    /\ registered' = Detached
    /\ ring' = [ring EXCEPT ![op.task][op.cpu] = [@ EXCEPT !.open = FALSE]]
    /\ op' = IF OpenRings(op.task) \ {op.cpu} # {} THEN Idle
             ELSE IF op.in_list THEN [op EXCEPT !.kind = "unlink"]
             ELSE [op EXCEPT !.kind = "free"]
    /\ UNCHANGED <<use, hp, allocated, listed, g_tracepoint_registered,
                   g_fault_tracepoint_registered, deserted, probe, grace>>

---------------------------------------------------------------------------
\* check_remove_consumer, once no ring is open

\* list_del_rcu(); synchronize_rcu() then waits for the probes running now.
Unlink ==
    /\ op.kind \in {"unlink", "unlink_release"}
    /\ listed' = listed \ {op.task}
    /\ grace' = {c \in Cpus : probe[c].in}
    /\ op' = [op EXCEPT !.kind = IF op.kind = "unlink" THEN "free" ELSE "free_release"]
    /\ UNCHANGED <<use, hp, allocated, ring, registered, g_tracepoint_registered,
                   g_fault_tracepoint_registered, deserted, probe>>

BugNoGracePeriod == TRUE
BugProbesQuiet == \A c \in Cpus : ~probe[c].in
GracePeriodOver == grace = {}

\* Freed while it is on the list, by an open that found it there (in_list is false)
\* and could not attach the probes: what the driver does afterwards is undefined, and
\* the model ends the calls here.
Undefined == [op EXCEPT !.kind = "undefined"]

Free ==
    /\ op.kind \in {"free", "free_release"}
    /\ GracePeriodOver
    /\ allocated' = allocated \ {op.task}
    /\ ring' = [ring EXCEPT ![op.task] = [d \in Cpus |-> NoRing]]
    /\ op' = IF op.task \in listed THEN Undefined
             ELSE IF op.kind = "free" THEN Idle
             ELSE [op EXCEPT !.kind = "stop"]
    /\ UNCHANGED <<use, hp, listed, registered, g_tracepoint_registered,
                   g_fault_tracepoint_registered, deserted, probe, grace>>

---------------------------------------------------------------------------
BugClosed(r) == [r EXCEPT !.open = FALSE]
Closed(r) == [r EXCEPT !.capture = FALSE, !.open = FALSE]

\* ppm_release of an open device (its file descriptor exists once)
Release(t, c) ==
    /\ op = Idle
    /\ t \in listed
    /\ ring[t][c].open
    /\ ring' = [ring EXCEPT ![t][c] = Closed(@)]
    /\ op' = [kind |-> IF OpenRings(t) \ {c} = {} THEN "unlink_release" ELSE "stop",
              task |-> t, cpu |-> c, in_list |-> TRUE]
    /\ UNCHANGED <<use, hp, allocated, listed, registered, g_tracepoint_registered,
                   g_fault_tracepoint_registered, deserted, probe, grace>>

FaultFlagAfterStop == FALSE

\* "The last closed device stops event collection": with an empty list every
\* probe is detached; tracepoint_synchronize_unregister() waits for those
\* running now.
StopCollection ==
    /\ op.kind = "stop"
    /\ listed = {} /\ g_tracepoint_registered
    /\ registered' = registered \ (BaseSet \cup
                        IF g_fault_tracepoint_registered THEN Faults ELSE {})
    /\ g_fault_tracepoint_registered' = FaultFlagAfterStop
    /\ grace' = {c \in Cpus : probe[c].in}
    /\ op' = [op EXCEPT !.kind = "synchronize"]
    /\ UNCHANGED <<use, hp, allocated, listed, ring, g_tracepoint_registered, deserted, probe>>

SynchronizeUnregister ==
    /\ op.kind = "synchronize"
    /\ GracePeriodOver
    /\ g_tracepoint_registered' = FALSE
    /\ op' = Idle
    /\ UNCHANGED <<use, hp, allocated, listed, ring, registered,
                   g_fault_tracepoint_registered, deserted, probe, grace>>

\* Other consumers are left (or, an asserted impossibility, nothing is registered).
ReleaseDone ==
    /\ op.kind = "stop"
    /\ ~(listed = {} /\ g_tracepoint_registered)
    /\ op' = Idle
    /\ UNCHANGED <<use, hp, allocated, listed, ring, registered, g_tracepoint_registered,
                   g_fault_tracepoint_registered, deserted, probe, grace>>

---------------------------------------------------------------------------
\* ppm_ioctl, on the file descriptor of an open device

HasFd(t, c) == op = Idle /\ t \in listed /\ ring[t][c].open

SetCapture(t, c, on) ==
    /\ HasFd(t, c)
    /\ ring[t][c].capture # on
    /\ ring' = [ring EXCEPT ![t][c] = [@ EXCEPT !.capture = on]]
    /\ UNCHANGED <<use, hp, allocated, listed, registered, g_tracepoint_registered,
                   g_fault_tracepoint_registered, op, deserted, probe, grace>>

SetSignalDeliver(t, c, on) ==
    /\ use.probes /\ HasFd(t, c)
    /\ registered' = IF ~g_tracepoint_registered THEN registered
                     ELSE IF on THEN registered \cup {"signal_deliver"}
                     ELSE registered \ {"signal_deliver"}
    /\ UNCHANGED <<use, hp, allocated, listed, ring, g_tracepoint_registered,
                   g_fault_tracepoint_registered, op, deserted, probe, grace>>

\* Attach both page-fault probes; when the second fails the first is detached.
EnablePageFaults(t, c, ok) ==
    /\ use.probes /\ HasFd(t, c)
    /\ ~g_fault_tracepoint_registered
    /\ ok \/ use.fails
    /\ registered' = IF ok THEN registered \cup Faults ELSE registered \ {"page_fault_user"}
    /\ g_fault_tracepoint_registered' = ok
    /\ UNCHANGED <<use, hp, allocated, listed, ring, g_tracepoint_registered, op, deserted,
                   probe, grace>>

---------------------------------------------------------------------------
\* Probes: record_event_all_consumers on the CPU where the event happens

ProbeEnter(c) ==
    /\ Online(c)
    /\ registered # {}
    /\ ~probe[c].in
    /\ probe' = [probe EXCEPT ![c] = [in |-> TRUE, at |-> {}]]
    /\ UNCHANGED <<use, hp, allocated, listed, ring, registered, g_tracepoint_registered,
                   g_fault_tracepoint_registered, op, deserted, grace>>

WalkedTo(p, t) == [p EXCEPT !.at = {t}]

\* The list walk reaches the next consumer.
ProbeVisit(c, t) ==
    /\ probe[c].in
    /\ t \in listed
    /\ probe' = [probe EXCEPT ![c] = WalkedTo(@, t)]
    /\ UNCHANGED <<use, hp, allocated, listed, ring, registered, g_tracepoint_registered,
                   g_fault_tracepoint_registered, op, deserted, grace>>

ProbeLeave(c) ==
    /\ probe[c].in
    /\ probe' = [probe EXCEPT ![c] = Outside]
    /\ grace' = grace \ {c}
    /\ UNCHANGED <<use, hp, allocated, listed, ring, registered, g_tracepoint_registered,
                   g_fault_tracepoint_registered, op, deserted>>

---------------------------------------------------------------------------
\* Hotplug: do_cpu_callback and the kernel's mask change one after the other,
\* and an open may come between the two.  The callback runs on some CPU d, and
\* ends by recording PPME_CPU_HOTPLUG_E for all consumers, whether or not any
\* tracepoint is attached.

SetCpuOnline(c, up) ==
    ring' = [t \in Tasks |-> IF t \in listed
                             THEN [ring[t] EXCEPT ![c] = [@ EXCEPT !.cpu_online = up]]
                             ELSE ring[t]]

CpuCallback(c, d) ==
    /\ c \in use.hotplug
    /\ Online(d) /\ ~probe[d].in
    /\ probe' = [probe EXCEPT ![d] = [in |-> TRUE, at |-> {}]]
    /\ \/ hp[c] = "on" /\ SetCpuOnline(c, FALSE) /\ hp' = [hp EXCEPT ![c] = "down"]
       \/ hp[c] = "up" /\ SetCpuOnline(c, TRUE) /\ hp' = [hp EXCEPT ![c] = "on"]
    /\ UNCHANGED <<use, allocated, listed, registered, g_tracepoint_registered,
                   g_fault_tracepoint_registered, op, deserted, grace>>

CpuMask(c) ==
    /\ c \in use.hotplug
    /\ ~probe[c].in
    /\ \/ hp[c] = "down" /\ hp' = [hp EXCEPT ![c] = "off"]
       \/ hp[c] = "off" /\ hp' = [hp EXCEPT ![c] = "up"]
    /\ UNCHANGED <<use, allocated, listed, ring, registered, g_tracepoint_registered,
                   g_fault_tracepoint_registered, op, deserted, probe, grace>>

---------------------------------------------------------------------------
\* The steps of the call that holds the mutex.
CallStep ==
    \/ ListAdd \/ OpenRefused \/ OpenRing \/ RegisterProbes
    \/ \E n \in 0 .. 4 : RegisterFails(n)
    \/ Unwind \/ Unlink \/ Free
    \/ StopCollection \/ SynchronizeUnregister \/ ReleaseDone

Call(t, c) ==
    \/ OpenNew(t, c) \/ OpenNewFails(t, c) \/ OpenExisting(t, c) \/ Release(t, c)
    \/ \E on \in BOOLEAN : \/ SetCapture(t, c, on)
                          \/ SetSignalDeliver(t, c, on)
                          \/ EnablePageFaults(t, c, on)

Next ==
    \/ CallStep
    \/ \E t \in Tasks, c \in Cpus : Call(t, c) \/ ProbeVisit(c, t)
    \/ \E c \in Cpus : ProbeEnter(c) \/ ProbeLeave(c) \/ CpuMask(c)
    \/ \E c, d \in Cpus : CpuCallback(c, d)

\* A call that holds the mutex runs on, and a probe, which runs with preemption
\* disabled, reaches the end of its list walk.
Fairness == WF_vars(CallStep) /\ \A c \in Cpus : WF_vars(ProbeLeave(c))

Spec == Init /\ [][Next]_vars
FairSpec == Spec /\ Fairness

---------------------------------------------------------------------------
\* Properties

Ring == [cpu_online : BOOLEAN, buffer : BOOLEAN, open : BOOLEAN, capture : BOOLEAN]
Kinds == {"add", "open", "register", "unwind", "unlink", "free", "unlink_release",
          "free_release", "stop", "synchronize", "undefined"}

TypeOK ==
    /\ hp \in [Cpus -> {"on", "down", "off", "up"}]
    /\ allocated \subseteq Tasks /\ listed \subseteq Tasks /\ deserted \subseteq Tasks
    /\ ring \in [Tasks -> [Cpus -> Ring]]
    /\ registered \subseteq BaseSet \cup Faults
    /\ g_tracepoint_registered \in BOOLEAN /\ g_fault_tracepoint_registered \in BOOLEAN
    /\ op = Idle \/ op \in [kind : Kinds, task : Tasks, cpu : Cpus, in_list : BOOLEAN]
    /\ probe \in [Cpus -> [in : BOOLEAN, at : {{}} \cup {{t} : t \in Tasks}]]
    /\ grace \subseteq Cpus

\* A probe never works on a consumer that was freed, and the list it walks
\* holds no freed consumer: check_remove_consumer unlinks, waits for the
\* probes that may still see the consumer, and only then frees.  The exception is a
\* consumer that a refused open had left behind.
NoUseAfterFree ==
    IF op.kind = "undefined"
    THEN op.task \in deserted
    ELSE /\ listed \subseteq allocated
         /\ \A c \in Cpus : probe[c].at \subseteq allocated

\* Between calls every consumer is on the list, and has an open device, whose
\* release frees it, unless a refused open left it behind.
NoOrphan ==
    op = Idle => /\ allocated = listed
                 /\ \A t \in allocated \ deserted : OpenRings(t) # {}

\* The memory of consumers: none is used after it was freed by check_remove_consumer or
\* an error path of ppm_open, and none is left that nobody will free, with the one
\* exception of a consumer whose first open was refused with ENODEV: it stays on the
\* list without a device, and is freed there if the probes cannot be attached at
\* its next open (Observations in README.md).
MemorySafe == NoUseAfterFree /\ NoOrphan

\* A probe records into a ring only when its buffers exist and a descriptor for
\* it is open: capture_enabled is never left set on a closed or freed ring.
CaptureNeedsBuffer ==
    \A t \in Tasks, c \in Cpus :
        ring[t][c].capture => t \in allocated /\ ring[t][c].buffer /\ ring[t][c].open

\* Between calls an open device means that collection runs, and the flags say
\* exactly which probes are attached (signal_deliver can be switched off).
ProbesMatchFlags ==
    op = Idle =>
        /\ (\E t \in Tasks : OpenRings(t) # {}) => g_tracepoint_registered
        /\ IF g_tracepoint_registered
           THEN BaseSet \ {"signal_deliver"} \subseteq registered
           ELSE registered = {}
        /\ IF g_fault_tracepoint_registered
           THEN Faults \subseteq registered
           ELSE Faults \cap registered = {}

\* The driver's own assertions: the last release finds the probes registered,
\* and page faults are only switched on while they are.
DriverAsserts ==
    /\ op.kind = "stop" /\ listed = {} => g_tracepoint_registered
    /\ g_fault_tracepoint_registered => g_tracepoint_registered

\* ppm_open, its error labels, ppm_release and the ioctls leave the probes and the flags
\* that the next call goes by in agreement.
ProbesSound == ProbesMatchFlags /\ DriverAsserts

\* max_consumers bounds the list.
ConsumerLimit == Cardinality(listed) <= use.limit

\* A call never waits for ever for the probes (synchronize_rcu,
\* tracepoint_synchronize_unregister), as long as what it does is defined.
CallsReturn == []<>(op = Idle \/ op.kind = "undefined")

\* "The last closed device stops event collection": between calls, when no
\* device is open, no probe is attached.  Does not hold, see Observations in
\* README.md.
LastCloseStops ==
    op = Idle /\ (\A t \in Tasks : OpenRings(t) = {}) => registered = {}
=============================================================================
