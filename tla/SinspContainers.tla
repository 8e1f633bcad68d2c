-------------------------- MODULE SinspContainers --------------------------
(***************************************************************************)
(* The inspector's containers (libsinsp/container.cpp) over the async      *)
(* source: a thread that is seen in a container makes the docker engine    *)
(* enter a stub and ask the source for the metadata; the worker's callback *)
(* queues a container event to the inspector, which parses it and fills    *)
(* the container in.  The CRI engine, asked next, answers at once.  A      *)
(* periodic scan removes the containers without threads.  Live capture.    *)
(***************************************************************************)
EXTENDS AsyncKeyValueSource, Sequences

CONSTANTS Tids,
          Docker, Cri,      \* containers whose cgroup the docker, the CRI engine recognises
          MaxPending        \* bound: container events that wait for the inspector

Gone == "gone"      \* not in the thread table

\* A thread of the host, or none, is in no container.  The docker engine makes its
\* source with NO_WAIT_LOOKUP and passes a callback with every lookup.
ASSUME ContainersAssumption ==
    /\ Docker \subseteq Keys /\ Cri \subseteq Keys /\ MaxPending \in Nat
    /\ Keys \cap {"", Gone} = {}
    /\ \A u \in Uses : ~u.wait /\ u.handlers = {TRUE}

VARIABLES
    answers,                    \* containers the docker daemon knows
    m_containers,               \* per id: not in the map, a stub, or complete
    m_container_id,             \* per thread of the thread table: "" for the host
    m_pending_container_evts    \* container events queued to the inspector

managerVars == <<answers, m_containers, m_container_id, m_pending_container_evts>>
allVars == <<vars, managerVars>>

ManagerInit ==
    /\ Init
    /\ answers \in SUBSET Docker
    /\ m_containers = [k \in Keys |-> "none"]
    /\ m_container_id = [t \in Tids |-> Gone]
    /\ m_pending_container_evts = <<>>

---------------------------------------------------------------------------
\* The inspector's thread

BugComplete(k) == FALSE
\* m_metadata_complete of a container that is in the map.
Complete(k) == m_containers[k] = "complete"

\* A lookup that returns at once makes docker::parse_docker_async run the callback.
Immediate(k) ==
    IF k \in Docker \cap answers /\ m_value_map[k].m_available THEN <<k>> ELSE <<>>

\* resolve_container for a thread whose cgroups name container k, called for a clone,
\* an execve, a chroot and an entry of /proc.  A complete container is taken as it
\* is.  Otherwise docker enters a stub and asks the source; it does not match, so CRI
\* is asked, whose lookup is over when it returns and may fail.
resolve_container(t, k) ==
    /\ owner = "alive"
    /\ Len(m_pending_container_evts) < MaxPending
    /\ m_container_id' = [m_container_id EXCEPT ![t] = k]
    /\ \/ /\ Complete(k)
          /\ UNCHANGED <<vars, m_containers, m_pending_container_evts>>
       \/ /\ ~Complete(k)
          /\ IF k \in Docker THEN \E c \in Clients : Lookup(c, k, FALSE, TRUE)
                             ELSE UNCHANGED vars
          /\ \E parse_cri \in {FALSE} \cup (IF k \in Cri THEN {TRUE} ELSE {}) :
                /\ m_containers' = [m_containers EXCEPT ![k] =
                      IF parse_cri THEN "complete" ELSE IF k \in Docker THEN "stub" ELSE @]
                /\ m_pending_container_evts' = m_pending_container_evts \o Immediate(k)
                                                 \o (IF parse_cri THEN <<k>> ELSE <<>>)
    /\ UNCHANGED answers

\* No engine recognises the cgroups: a thread of the host.
resolve_host(t) ==
    /\ owner = "alive"
    /\ m_container_id[t] # ""
    /\ m_container_id' = [m_container_id EXCEPT ![t] = ""]
    /\ UNCHANGED <<vars, answers, m_containers, m_pending_container_evts>>

remove_thread(t) ==
    /\ owner = "alive"
    /\ m_container_id[t] # Gone
    /\ m_container_id' = [m_container_id EXCEPT ![t] = Gone]
    /\ UNCHANGED <<vars, answers, m_containers, m_pending_container_evts>>

\* The JSON of a container event does not say whether the metadata is complete;
\* container_info's default is that it is.
Parsed(k) == "complete"

\* sinsp::next takes a container event before it asks libscap for another event.
parse_container_json_evt ==
    /\ owner = "alive"
    /\ m_pending_container_evts # <<>>
    /\ LET k == Head(m_pending_container_evts)
       IN  m_containers' = [m_containers EXCEPT ![k] = Parsed(k)]
    /\ m_pending_container_evts' = Tail(m_pending_container_evts)
    /\ UNCHANGED <<vars, answers, m_container_id>>

BugInUse(k) == m_containers[k] = "stub"
BugInUseComplete(k) == m_containers[k] = "complete" \/ \E t \in Tids : m_container_id[t] = k
InUse(k) == \E t \in Tids : m_container_id[t] = k

\* After every m_inactive_container_scan_time_ns.
remove_inactive_containers ==
    /\ owner = "alive"
    /\ \E k \in Keys : m_containers[k] # "none" /\ ~InUse(k)
    /\ m_containers' = [k \in Keys |-> IF InUse(k) THEN m_containers[k] ELSE "none"]
    /\ UNCHANGED <<vars, answers, m_container_id, m_pending_container_evts>>

---------------------------------------------------------------------------
\* The source's thread

BugAnnounced(k) == k \in answers /\ InUse(k) /\ m_pending_container_evts = <<>>
\* The callback passes on the results of successful lookups only.
Announced(k) == k \in answers

\* A step of the worker.  Between dequeue_next_key and store_value run_impl asks the
\* docker daemon (parse_docker); store_value calls the callback, if one was left.
SourceWorker ==
    /\ Worker
    /\ m_pending_container_evts' =
         IF wpc = "collect" /\ m_value_map[wkey].m_callback # NoHandler /\ Announced(wkey)
         THEN Append(m_pending_container_evts, wkey) ELSE m_pending_container_evts
    /\ UNCHANGED <<answers, m_containers, m_container_id>>

\* Time, and docker::cleanup, which the inspector's destructor calls.
SourceRest ==
    /\ SpuriousWake \/ SomeTick \/ (\E k \in Keys : Expire(k)) \/ Stop \/ Join
    /\ UNCHANGED managerVars

---------------------------------------------------------------------------
ManagerNext ==
    \/ \E t \in Tids : resolve_host(t) \/ remove_thread(t) \/ \E k \in Keys : resolve_container(t, k)
    \/ parse_container_json_evt
    \/ remove_inactive_containers
    \/ SourceWorker \/ SourceRest

\* The source's thread is scheduled and the clock goes on, as in the source itself;
\* the inspector keeps calling next, and events keep coming, so that it scans.
ManagerFairness ==
    /\ WF_allVars(SourceWorker)
    /\ WF_allVars(SomeTick /\ UNCHANGED managerVars) /\ WF_allVars(Join /\ UNCHANGED managerVars)
    /\ WF_allVars(parse_container_json_evt) /\ WF_allVars(remove_inactive_containers)

ManagerSpec == ManagerInit /\ [][ManagerNext]_allVars
ManagerFairSpec == ManagerSpec /\ ManagerFairness

---------------------------------------------------------------------------
\* Properties

\* The types; an event is queued for a container of an engine that answers only, and
\* only docker leaves stubs.
ManagerTypeOK ==
    /\ answers \subseteq Docker
    /\ m_containers \in [Keys -> {"none", "stub", "complete"}]
    /\ m_container_id \in [Tids -> Keys \cup {"", Gone}]
    /\ m_pending_container_evts \in Seq(answers \cup Cri)
    /\ \A k \in Keys \ Docker : m_containers[k] # "stub"

\* The types, and: a container that the docker engine recognises is in the map as long
\* as a thread of the table is in it, whatever the scan, the late events and the
\* callbacks do: what looks a thread's container up (get_container) finds it.
InUseKnown ==
    /\ ManagerTypeOK
    /\ \A t \in Tids : m_container_id[t] \in Docker => m_containers[m_container_id[t]] # "none"

\* Complete metadata is never replaced by a stub, and only a container without
\* threads is removed: the order of the two engines' answers, of the event queue and
\* of further threads does not matter.
NeverDowngraded ==
    [][\A k \in Keys : m_containers[k] = "complete" =>
          \/ m_containers'[k] = "complete"
          \/ m_containers'[k] = "none" /\ \A t \in Tids : m_container_id[t] # k]_allVars

\* "This should *never* happen, as ttl is 0 (never wait)": as long as no request gets
\* older than the time-out, docker's lookup does not return a value at once.
NoImmediateReturn ==
    ~use.expire => \A k \in Keys : ~m_value_map[k].m_available

\* A stub of a container that docker knows does not stay one: its metadata gets through
\* the source, the callback and the event queue, unless the container is removed
\* first, the request gets too old, or the inspector is closed.
MetadataArrives ==
    \A k \in Keys :
        []<>(k \in answers /\ ~use.expire => m_containers[k] # "stub" \/ owner # "alive")

\* A container whose threads are gone is forgotten for good, although an event that was
\* late may bring it back.
UnusedForgotten ==
    \A k \in Keys :
        <>[](owner = "alive" /\ \A t \in Tids : m_container_id[t] # k) =>
            <>[](m_containers[k] = "none")
=============================================================================
