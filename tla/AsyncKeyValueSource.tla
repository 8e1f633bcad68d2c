------------------------ MODULE AsyncKeyValueSource ------------------------
(***************************************************************************)
(* userspace/async/async_key_value_source: clients ask for the value of a  *)
(* key, a worker thread collects it.  A section of code that holds m_mutex *)
(* is one step; a wait on a condition variable ends the step.  What the    *)
(* worker does between dequeue_next_key and store_value is the subclass's  *)
(* (docker_async_source::run_impl) and takes any time.                     *)
(***************************************************************************)
EXTENDS Naturals, FiniteSets

CONSTANTS Clients, Keys,
          Uses,        \* the ways in which a source is set up and called
          MaxCalls     \* bound: calls of lookup_delayed

\* wait: m_max_wait_ms > 0 (FALSE: NO_WAIT_LOOKUP); handlers: what clients pass as
\* handler, a function (TRUE) or none (FALSE); expire: whether an entry may grow
\* older than m_ttl_ms.  A handler is known by the number of the call that passed it,
\* and none is NoHandler.
Use == [wait : BOOLEAN, handlers : SUBSET BOOLEAN, expire : BOOLEAN]

ASSUME AsyncAssumption == Uses \subseteq Use /\ MaxCalls \in Nat

VARIABLES
    use,                \* the way this source is used
    m_running, m_terminate,
    joinable,           \* m_thread.joinable()
    wpc,                \* where the worker is
    wkey,               \* the key it collects, if wpc = "collect"
    m_request_queue,    \* per key: no request, or how its start time relates to now
    m_value_map,        \* the entries; an absent key has none
    client,             \* per client: idle, or waiting in lookup_delayed
    owner,              \* the life of the object: alive, joining, stopped
    calls,              \* calls of lookup_delayed so far
    pending             \* ghost: handlers that were left, and not invoked, replaced or pruned yet

vars == <<use, m_running, m_terminate, joinable, wpc, wkey, m_request_queue, m_value_map,
          client, owner, calls, pending>>
workerVars == <<m_running, m_terminate, joinable, wpc, wkey>>
callerVars == <<use, client, owner, calls>>

NoHandler == 0
Absent == [present |-> FALSE, m_available |-> FALSE, m_callback |-> NoHandler, old |-> FALSE]
Fresh  == [Absent EXCEPT !.present = TRUE]
NotInCall == [waiting |-> FALSE]

Init ==
    /\ use \in Uses
    /\ m_running = FALSE /\ m_terminate = FALSE /\ joinable = FALSE
    /\ wpc = "none" /\ wkey \in Keys
    /\ m_request_queue = [k \in Keys |-> "none"]
    /\ m_value_map = [k \in Keys |-> Absent]
    /\ client = [c \in Clients |-> NotInCall]
    /\ owner = "alive" /\ calls = 0
    /\ pending = {}

---------------------------------------------------------------------------
\* Time.  A request's start time lies ahead (later), is the present (now) or is
\* over (past): get_deadline and dequeue_next_key tell the last two apart.

Due  == {k \in Keys : m_request_queue[k] \in {"now", "past"}}
Over == {k \in Keys : m_request_queue[k] = "past"}

Tick(reached) ==
    /\ reached \subseteq {k \in Keys : m_request_queue[k] = "later"}
    /\ reached # {} \/ Due # Over
    /\ m_request_queue' = [k \in Keys |->
                             IF m_request_queue[k] = "now" THEN "past"
                             ELSE IF k \in reached THEN "now"
                             ELSE m_request_queue[k]]
    /\ UNCHANGED <<callerVars, workerVars, m_value_map, pending>>

\* An entry's age exceeds m_ttl_ms.
Expire(k) ==
    /\ use.expire
    /\ m_value_map[k].present /\ ~m_value_map[k].old
    /\ m_value_map' = [m_value_map EXCEPT ![k].old = TRUE]
    /\ UNCHANGED <<callerVars, workerVars, m_request_queue, pending>>

---------------------------------------------------------------------------
\* Clients

\* A name that begins with Bug is a deliberately wrong variant of the definition
\* that follows it; no specification uses it.
BugNotified == wpc
\* m_queue_not_empty_condition.notify_one()
Notified == IF wpc \in {"wait", "wait_until"} THEN "loop" ELSE wpc

BugQueued(k, delay) == m_request_queue
\* A request is queued unless one for the same key is in m_request_set.
Queued(k, delay) ==
    IF m_request_queue[k] = "none"
    THEN [m_request_queue EXCEPT ![k] = IF delay THEN "later" ELSE "now"]
    ELSE m_request_queue

\* The end of lookup_delayed: return the value and forget it, or leave the
\* handler for the worker, in place of the one that an earlier call left with the
\* entry.  operator[] makes an entry when there is none.
Finish(k, handler, entry) ==
    IF entry.present /\ entry.m_available
    THEN /\ m_value_map' = [m_value_map EXCEPT ![k] = Absent]
         /\ UNCHANGED pending
    ELSE /\ m_value_map' = [m_value_map EXCEPT
                ![k] = [(IF entry.present THEN entry ELSE Fresh) EXCEPT !.m_callback = handler]]
         /\ pending' = (pending \ {entry.m_callback}) \cup ({handler} \ {NoHandler})

\* lookup and lookup_delayed, up to the wait for the value or to their end; passed
\* says whether there is a handler.
Lookup(c, k, delay, passed) ==
    /\ owner = "alive" /\ ~client[c].waiting
    /\ calls < MaxCalls
    /\ calls' = calls + 1
    /\ LET create == ~m_running /\ ~joinable
           known  == m_value_map[k].present
           entry  == IF known THEN m_value_map[k] ELSE Fresh
           handler == IF passed THEN calls + 1 ELSE NoHandler
       IN  /\ joinable' = (joinable \/ create)
           /\ wpc' = IF create THEN "start"
                     ELSE IF ~known /\ m_request_queue[k] = "none" THEN Notified
                     ELSE wpc
           /\ m_request_queue' = IF known THEN m_request_queue ELSE Queued(k, delay)
           /\ IF ~entry.m_available /\ use.wait
              THEN /\ client' = [client EXCEPT ![c] =
                                   [waiting |-> TRUE, key |-> k, handler |-> handler]]
                   /\ m_value_map' = [m_value_map EXCEPT ![k] = entry]
                   /\ UNCHANGED pending
              ELSE /\ Finish(k, handler, entry)
                   /\ UNCHANGED client
    /\ UNCHANGED <<use, m_running, m_terminate, wkey, owner>>

\* The wait ends: by store_value, by the time-out, or for no reason.
Resume(c) ==
    /\ client[c].waiting
    /\ Finish(client[c].key, client[c].handler, m_value_map[client[c].key])
    /\ client' = [client EXCEPT ![c] = NotInCall]
    /\ UNCHANGED <<use, workerVars, m_request_queue, owner, calls>>

GetCompleteResults(c) ==
    /\ owner = "alive" /\ ~client[c].waiting
    /\ \E k \in Keys : m_value_map[k].m_available
    /\ m_value_map' = [k \in Keys |-> IF m_value_map[k].m_available THEN Absent ELSE m_value_map[k]]
    /\ UNCHANGED <<callerVars, workerVars, m_request_queue, pending>>

\* stop(), called by the destructors once no client is in a call.
Stop ==
    /\ owner \in {"alive", "stopped"}
    /\ \A c \in Clients : ~client[c].waiting
    /\ IF m_running
       THEN m_terminate' = TRUE /\ wpc' = Notified /\ owner' = "joining"
       ELSE owner' = "stopped" /\ UNCHANGED <<m_terminate, wpc>>
    /\ UNCHANGED <<use, m_running, joinable, wkey, m_request_queue, m_value_map,
                   client, calls, pending>>

Join ==
    /\ owner = "joining" /\ wpc = "done"
    /\ joinable' = FALSE
    /\ owner' = "stopped"
    /\ UNCHANGED <<use, m_running, m_terminate, wpc, wkey, m_request_queue,
                   m_value_map, client, calls, pending>>

---------------------------------------------------------------------------
\* The worker: run, and the calls that run_impl makes

WorkerStart ==
    /\ wpc = "start"
    /\ m_running' = TRUE /\ wpc' = "loop"
    /\ UNCHANGED <<callerVars, m_terminate, joinable, wkey, m_request_queue,
                   m_value_map, pending>>

WorkerEnd ==
    /\ wpc = "loop" /\ m_terminate
    /\ m_running' = FALSE /\ wpc' = "done"
    /\ UNCHANGED <<callerVars, m_terminate, joinable, wkey, m_request_queue,
                   m_value_map, pending>>

\* get_deadline is max or a time ahead: wait, for a notification or until then.
WorkerWait ==
    /\ wpc = "loop" /\ ~m_terminate
    /\ Due = {}
    /\ wpc' = IF \A k \in Keys : m_request_queue[k] = "none" THEN "wait" ELSE "wait_until"
    /\ UNCHANGED <<callerVars, m_running, m_terminate, joinable, wkey,
                   m_request_queue, m_value_map, pending>>

WorkerTimeout ==
    /\ wpc = "wait_until" /\ Due # {}
    /\ wpc' = "loop"
    /\ UNCHANGED <<callerVars, m_running, m_terminate, joinable, wkey,
                   m_request_queue, m_value_map, pending>>

\* A wait may end without a notification.
SpuriousWake ==
    /\ wpc \in {"wait", "wait_until"}
    /\ wpc' = "loop"
    /\ UNCHANGED <<callerVars, m_running, m_terminate, joinable, wkey,
                   m_request_queue, m_value_map, pending>>

\* Something is due: prune_stale_requests, then look at m_terminate again.
WorkerPrune ==
    /\ wpc = "loop" /\ ~m_terminate
    /\ Due # {}
    /\ m_value_map' = [k \in Keys |-> IF m_value_map[k].old THEN Absent ELSE m_value_map[k]]
    /\ pending' = pending \ {m_value_map[k].m_callback : k \in {x \in Keys : m_value_map[x].old}}
    /\ wpc' = "check"
    /\ UNCHANGED <<callerVars, m_running, m_terminate, joinable, wkey, m_request_queue>>

WorkerCheck ==
    /\ wpc = "check"
    /\ wpc' = IF m_terminate THEN "loop" ELSE "impl"
    /\ UNCHANGED <<callerVars, m_running, m_terminate, joinable, wkey,
                   m_request_queue, m_value_map, pending>>

BugDequeued(k) == m_request_queue
Dequeued(k) == [m_request_queue EXCEPT ![k] = "none"]

\* dequeue_next_key; run_impl ends when it returns false.  Which of several past
\* start times is the earliest is not recorded: any may be the top of the queue.
DequeueNextKey ==
    /\ wpc = "impl"
    /\ \/ \E k \in Over : /\ m_request_queue' = Dequeued(k)
                          /\ wkey' = k /\ wpc' = "collect"
       \/ Over = {} /\ wpc' = "loop" /\ UNCHANGED <<m_request_queue, wkey>>
    /\ UNCHANGED <<callerVars, m_running, m_terminate, joinable, m_value_map,
                   pending>>

BugStored(e) == [e EXCEPT !.m_available = TRUE, !.m_callback = NoHandler]
\* The entry after store_value; with a handler the entry is erased.
Stored(e) ==
    IF e.m_callback # NoHandler THEN Absent
    ELSE [(IF e.present THEN e ELSE Fresh) EXCEPT !.m_available = TRUE]

StoreValue ==
    /\ wpc = "collect"
    /\ LET e == m_value_map[wkey]
       IN  /\ m_value_map' = [m_value_map EXCEPT ![wkey] = Stored(e)]
           /\ pending' = IF Stored(e).present THEN pending ELSE pending \ {e.m_callback}
    /\ wpc' = "impl"
    /\ UNCHANGED <<callerVars, m_running, m_terminate, joinable, wkey,
                   m_request_queue>>

---------------------------------------------------------------------------
Worker ==
    \/ WorkerStart \/ WorkerEnd \/ WorkerWait \/ WorkerTimeout \/ WorkerPrune
    \/ WorkerCheck \/ DequeueNextKey \/ StoreValue

SomeTick == \E reached \in SUBSET Keys : Tick(reached)

Next ==
    \/ Worker \/ SpuriousWake
    \/ SomeTick
    \/ \E k \in Keys : Expire(k)
    \/ \E c \in Clients : Resume(c) \/ GetCompleteResults(c)
    \/ \E c \in Clients, k \in Keys, delay \in BOOLEAN, passed \in use.handlers :
          Lookup(c, k, delay, passed)
    \/ Stop \/ Join

\* The worker thread is scheduled, the clock advances, waits time out, and the
\* owner's join returns.
Fairness ==
    /\ WF_vars(Worker) /\ WF_vars(SomeTick) /\ WF_vars(Join)
    /\ \A c \in Clients : WF_vars(Resume(c))

Spec == Init /\ [][Next]_vars
FairSpec == Spec /\ Fairness

---------------------------------------------------------------------------
\* Properties

Handlers == 0 .. MaxCalls
Call == [waiting : {FALSE}] \cup [waiting : {TRUE}, key : Keys, handler : Handlers]

\* The types of the variables; a key without an entry has no value, no handler
\* and no age, whatever lookup_delayed, store_value and the pruning do to it.
TypeOK ==
    /\ use \in Uses
    /\ m_running \in BOOLEAN /\ m_terminate \in BOOLEAN /\ joinable \in BOOLEAN
    /\ wpc \in {"none", "start", "loop", "wait", "wait_until", "check", "impl", "collect", "done"}
    /\ wkey \in Keys
    /\ m_request_queue \in [Keys -> {"none", "later", "now", "past"}]
    /\ m_value_map \in [Keys -> {e \in [present : BOOLEAN, m_available : BOOLEAN,
                                        m_callback : Handlers, old : BOOLEAN] :
                                   ~e.present => e = Absent}]
    /\ client \in [Clients -> Call]
    /\ owner \in {"alive", "joining", "stopped"}
    /\ calls \in 0 .. MaxCalls
    /\ pending \subseteq Handlers

\* An entry without a value has a request on its way (queued or being
\* collected): lookup_delayed never leaves a client to wait for a value that
\* nobody will collect.
NoStranded ==
    \A k \in Keys :
        m_value_map[k].present /\ ~m_value_map[k].m_available =>
            m_request_queue[k] # "none" \/ (wpc = "collect" /\ wkey = k)

\* A value is collected for somebody, and once: while the worker collects it,
\* an entry waits for it, and no second request for the key is queued, unless
\* entries expire before that.
FetchOnce ==
    wpc = "collect" /\ ~use.expire =>
        /\ m_request_queue[wkey] = "none"
        /\ m_value_map[wkey].present /\ ~m_value_map[wkey].m_available

\* Every request that lookup_delayed queued is dequeued and collected in the end,
\* unless the object is destroyed: no notification is lost between the client's
\* push and the worker's wait, whatever the delay.
RequestCollected ==
    \A k \in Keys : (m_request_queue[k] # "none") ~>
                        ((wpc = "collect" /\ wkey = k) \/ owner # "alive")

\* "If the client supplied a callback handler in the call to lookup(), then that
\* callback handler will be invoked by the async_key_value_source once the
\* value has been collected": each handler that lookup_delayed left is invoked by
\* store_value in the end, unless a later lookup of the key replaces it, its entry
\* grows too old, or the object is destroyed.  The sentence has none of these
\* exceptions (Observations in README.md).
CallbackInvoked ==
    \A n \in Handlers : []<>(n \notin pending \/ owner # "alive")

\* A stop() that found the worker running returns: the worker is woken, ends
\* and is joined.
StopReturns == (owner = "joining") ~> (owner = "stopped")

\* stop() is called "in a destructor to ensure that the async thread stops when
\* the object is destroyed": when it has returned, no worker is left.  Does not
\* hold, see Observations in README.md.
StopJoins == owner = "stopped" => wpc \in {"none", "done"} /\ ~joinable
=============================================================================
