----------------------- MODULE SinspContainersProofs -----------------------
(***************************************************************************)
(* The async source for any number of clients and keys and any way of      *)
(* using it: its types and FetchOnce; and NoStranded where clients do not  *)
(* wait.  (That a client that waits may be left behind is told in          *)
(* README.md.)                                                             *)
(* The inspector's containers for any threads, containers and daemons: the *)
(* manager uses the async source only as its clients may, a container that *)
(* docker recognises is known as long as a thread is in it, complete       *)
(* metadata stays, and docker's lookup never returns a value at once.      *)
(***************************************************************************)
EXTENDS SinspContainers, TLAPS

\* Each leaf is tried with Zenon, then with SMT, and then with both for longer.
USE ZenonT(2), SMTT(30), ZenonT(20), SMTT(60)

\* Only entries of a source that lets them expire grow old.
NoneOld == ~use.expire => \A k \in Keys : ~m_value_map[k].old

\* A request is of an entry that waits for its value.
RequestWaited ==
    ~use.expire => \A k \in Keys :
        m_request_queue[k] # "none" => m_value_map[k].present /\ ~m_value_map[k].m_available

\* Nobody waits unless the source was set up for it.
NobodyWaits == ~use.wait => \A c \in Clients : ~client[c].waiting

\* A worker that has begun to run and has not ended is known to the clients.
Running == wpc \in {"loop", "wait", "wait_until", "check", "impl", "collect"} => m_running

AsyncInv ==
    /\ TypeOK /\ Running /\ NoneOld /\ RequestWaited /\ FetchOnce /\ NobodyWaits
    /\ ~use.wait => NoStranded

Entry == {e \in [present : BOOLEAN, m_available : BOOLEAN, m_callback : Handlers, old : BOOLEAN] :
            ~e.present => e = Absent}

---------------------------------------------------------------------------
\* No handler is a handler of none of the calls.
LEMMA NoHandlerType == NoHandler \in Handlers /\ Handlers \subseteq Nat
  BY AsyncAssumption DEF NoHandler, Handlers

\* What Finish leaves in the map: an entry that was found stays, with the handler,
\* or is taken with its value.
LEMMA FinishEntry ==
    ASSUME TypeOK, NEW k \in Keys, NEW handler \in Handlers, NEW e \in Entry, Finish(k, handler, e)
    PROVE  /\ m_value_map' \in [Keys -> Entry] /\ pending' \subseteq Handlers
           /\ \A x \in Keys : x # k => m_value_map'[x] = m_value_map[x]
           /\ e.m_available => m_value_map'[k] = Absent
           /\ ~e.m_available => m_value_map'[k].present /\ ~m_value_map'[k].m_available
           /\ m_value_map'[k].old => e.old
  <1>1. Absent \in Entry /\ Fresh \in Entry /\ ~Absent.old /\ ~Fresh.old /\ Fresh.present /\ ~Fresh.m_available
    BY NoHandlerType DEF Absent, Fresh, Entry
  <1>2. m_value_map \in [Keys -> Entry] /\ pending \subseteq Handlers
    BY DEF TypeOK, Entry
  <1>3. CASE e.present /\ e.m_available
    BY <1>1, <1>2, <1>3 DEF Finish
  <1>4. CASE ~(e.present /\ e.m_available)
    <2> DEFINE f == IF e.present THEN e ELSE Fresh
               g == [f EXCEPT !.m_callback = handler]
    <2>1. f \in Entry /\ f.present /\ ~f.m_available /\ (f.old => e.old)
      BY <1>1, <1>4
    <2>2. g \in Entry /\ g.present /\ ~g.m_available /\ (g.old => e.old)
      BY <2>1 DEF Entry
    <2>3. ~e.m_available
      BY <1>4 DEF Entry, Absent
    <2>4. m_value_map' = [m_value_map EXCEPT ![k] = g] /\ pending' \subseteq Handlers
      BY <1>2, <1>4 DEF Finish
    <2> HIDE DEF f, g
    <2>5. QED
      BY <1>2, <2>2, <2>3, <2>4
  <1>5. QED
    BY <1>3, <1>4

\* A lookup of a known key keeps its request; an unknown key gets an entry and,
\* unless it has one, a request.
LEMMA LookupInv ==
    ASSUME AsyncInv, NEW c \in Clients, NEW k \in Keys, NEW delay \in BOOLEAN,
           NEW passed \in use.handlers, Lookup(c, k, delay, passed)
    PROVE  AsyncInv'
  <1> DEFINE known == m_value_map[k].present
             entry == IF known THEN m_value_map[k] ELSE Fresh
             handler == IF passed THEN calls + 1 ELSE NoHandler
  <1>1. TypeOK /\ Running /\ NoneOld /\ RequestWaited /\ FetchOnce /\ NobodyWaits /\ (~use.wait => NoStranded)
    BY DEF AsyncInv
  <1>2. use \in Uses /\ use.handlers \subseteq BOOLEAN /\ use.wait \in BOOLEAN /\ use.expire \in BOOLEAN
    BY <1>1, AsyncAssumption DEF TypeOK, Use
  <1>3. m_value_map \in [Keys -> Entry]
    BY <1>1 DEF TypeOK, Entry
  <1>4. entry \in Entry /\ entry.present /\ (known => entry = m_value_map[k])
        /\ (~known => ~entry.m_available /\ ~entry.old)
    BY <1>3, NoHandlerType DEF Fresh, Absent, Entry
  <1>a. handler \in Handlers
    BY <1>1, NoHandlerType, AsyncAssumption DEF Lookup, TypeOK, Handlers
  <1>5. m_request_queue' = IF known THEN m_request_queue ELSE Queued(k, delay)
    BY DEF Lookup
  <1>6. /\ \A x \in Keys : x # k => m_request_queue'[x] = m_request_queue[x]
        /\ known => m_request_queue' = m_request_queue
        /\ ~known => m_request_queue'[k] # "none"
        /\ m_request_queue' \in [Keys -> {"none", "later", "now", "past"}]
    BY <1>1, <1>5 DEF Queued, TypeOK
  <1>7. /\ m_value_map' \in [Keys -> Entry] /\ pending' \subseteq Handlers
        /\ \A x \in Keys : x # k => m_value_map'[x] = m_value_map[x]
        /\ entry.m_available => m_value_map'[k] = Absent
        /\ ~entry.m_available => m_value_map'[k].present /\ ~m_value_map'[k].m_available
        /\ m_value_map'[k].old => entry.old
        /\ \/ client' = client
           \/ use.wait /\ client' = [client EXCEPT ![c] = [waiting |-> TRUE, key |-> k, handler |-> handler]]
    <2>1. CASE ~entry.m_available /\ use.wait
      <3>1. /\ client' = [client EXCEPT ![c] = [waiting |-> TRUE, key |-> k, handler |-> handler]]
            /\ m_value_map' = [m_value_map EXCEPT ![k] = entry]
            /\ UNCHANGED pending
        BY <2>1 DEF Lookup
      <3> HIDE DEF entry, handler
      <3>2. QED
        BY <1>1, <1>3, <1>4, <2>1, <3>1 DEF TypeOK
    <2>2. CASE ~(~entry.m_available /\ use.wait)
      <3>1. Finish(k, handler, entry) /\ client' = client
        BY <2>2 DEF Lookup
      <3> HIDE DEF entry, handler
      <3>2. QED
        BY <1>1, <1>4, <1>a, <3>1, FinishEntry
    <2>3. QED
      BY <2>1, <2>2
  <1>8. /\ wpc = "collect" <=> wpc' = "collect"
        /\ wpc' \in {"start", "loop", wpc} /\ (wpc' = "loop" => m_running \/ wpc' = wpc)
    BY <1>1 DEF Lookup, Notified, Running, TypeOK
  <1>9. /\ joinable' \in BOOLEAN /\ calls' = calls + 1 /\ calls < MaxCalls
        /\ UNCHANGED <<use, m_running, m_terminate, wkey, owner>>
    BY DEF Lookup
  <1> HIDE DEF known, entry, handler
  <1>10. TypeOK'
    <2>1. client' \in [Clients -> Call]
      <3>1. [waiting |-> TRUE, key |-> k, handler |-> handler] \in Call
        BY <1>a DEF Call
      <3>2. QED
        BY <1>1, <1>7, <3>1 DEF TypeOK
    <2>2. calls' \in 0 .. MaxCalls
      BY <1>1, <1>9, AsyncAssumption DEF TypeOK
    <2>3. wpc' \in {"none", "start", "loop", "wait", "wait_until", "check", "impl", "collect", "done"}
      BY <1>1, <1>8 DEF TypeOK
    <2>4. QED
      BY <1>1, <1>6, <1>7, <1>9, <2>1, <2>2, <2>3 DEF TypeOK, Entry
  <1>11. Running' /\ NobodyWaits'
    BY <1>1, <1>7, <1>8, <1>9 DEF Running, NobodyWaits
  <1>12. NoneOld'
    BY <1>1, <1>4, <1>7, <1>9 DEF NoneOld
  <1>13. RequestWaited'
    <2> SUFFICES ASSUME ~use.expire, NEW x \in Keys, m_request_queue'[x] # "none"
                 PROVE  m_value_map'[x].present /\ ~m_value_map'[x].m_available
      BY <1>9 DEF RequestWaited
    <2>1. CASE x # k
      BY <1>1, <1>6, <1>7, <2>1 DEF RequestWaited
    <2>2. CASE x = k
      BY <1>1, <1>4, <1>6, <1>7, <2>2 DEF RequestWaited, known
    <2>3. QED
      BY <2>1, <2>2
  <1>14. FetchOnce'
    <2> SUFFICES ASSUME wpc = "collect", ~use.expire
                 PROVE  /\ m_request_queue'[wkey] = "none"
                        /\ m_value_map'[wkey].present /\ ~m_value_map'[wkey].m_available
      BY <1>8, <1>9 DEF FetchOnce
    <2>1. /\ m_request_queue[wkey] = "none" /\ wkey \in Keys
          /\ m_value_map[wkey].present /\ ~m_value_map[wkey].m_available
      BY <1>1 DEF FetchOnce, TypeOK
    <2>2. QED
      BY <1>4, <1>6, <1>7, <2>1 DEF known
  <1>15. ~use.wait => NoStranded'
    <2> SUFFICES ASSUME ~use.wait, NEW x \in Keys, m_value_map'[x].present, ~m_value_map'[x].m_available
                 PROVE  m_request_queue'[x] # "none" \/ (wpc = "collect" /\ wkey = x)
      BY <1>8, <1>9 DEF NoStranded
    <2>1. CASE x # k
      BY <1>1, <1>6, <1>7, <2>1 DEF NoStranded
    <2>2. CASE x = k
      <3>1. ~entry.m_available
        BY <1>7, <2>2 DEF Absent
      <3>2. QED
        BY <1>1, <1>4, <1>6, <2>2, <3>1 DEF NoStranded, known
    <2>3. QED
      BY <2>1, <2>2
  <1>16. QED
    BY <1>9, <1>10, <1>11, <1>12, <1>13, <1>14, <1>15 DEF AsyncInv

\* A client that waited takes the value, or leaves its handler; an entry that is
\* gone is made again.
LEMMA ResumeInv ==
    ASSUME AsyncInv, NEW c \in Clients, Resume(c)
    PROVE  AsyncInv'
  <1> DEFINE k == client[c].key
             entry == m_value_map[k]
  <1>1. TypeOK /\ Running /\ NoneOld /\ RequestWaited /\ FetchOnce /\ NobodyWaits
    BY DEF AsyncInv
  <1>2. k \in Keys /\ client[c].handler \in Handlers /\ client[c].waiting
    BY <1>1 DEF TypeOK, Call, Resume
  <1>3. m_value_map \in [Keys -> Entry] /\ entry \in Entry
    BY <1>1, <1>2 DEF TypeOK, Entry
  <1>4. Finish(k, client[c].handler, entry)
    BY DEF Resume
  <1> HIDE DEF k, entry
  <1>5. /\ m_value_map' \in [Keys -> Entry] /\ pending' \subseteq Handlers
        /\ \A x \in Keys : x # k => m_value_map'[x] = m_value_map[x]
        /\ entry.m_available => m_value_map'[k] = Absent
        /\ ~entry.m_available => m_value_map'[k].present /\ ~m_value_map'[k].m_available
        /\ m_value_map'[k].old => entry.old
    BY <1>1, <1>2, <1>3, <1>4, FinishEntry
  <1>6. /\ client' = [client EXCEPT ![c] = NotInCall]
        /\ UNCHANGED <<use, m_running, m_terminate, joinable, wpc, wkey, m_request_queue, owner, calls>>
    BY DEF Resume, workerVars
  <1>7. use.wait
    BY <1>1, <1>2 DEF NobodyWaits
  <1>8. TypeOK'
    <2>1. client' \in [Clients -> Call]
      BY <1>1, <1>6 DEF TypeOK, Call, NotInCall
    <2>2. QED
      BY <1>1, <1>5, <1>6, <2>1 DEF TypeOK, Entry
  <1>9. Running' /\ NobodyWaits'
    BY <1>1, <1>6, <1>7 DEF Running, NobodyWaits
  <1>10. NoneOld'
    BY <1>1, <1>2, <1>5, <1>6 DEF NoneOld, entry
  <1>11. RequestWaited'
    BY <1>1, <1>2, <1>5, <1>6 DEF RequestWaited, entry
  <1>12. FetchOnce'
    BY <1>1, <1>2, <1>5, <1>6 DEF FetchOnce, TypeOK, entry
  <1>13. QED
    BY <1>6, <1>7, <1>8, <1>9, <1>10, <1>11, <1>12 DEF AsyncInv

\* Time, the collection of complete results and the pruning take away values and
\* old entries only.
LEMMA TickInv ==
    ASSUME AsyncInv, NEW reached \in SUBSET Keys, Tick(reached)
    PROVE  AsyncInv'
  <1>1. TypeOK
    BY DEF AsyncInv
  <1>2. UNCHANGED <<use, client, owner, calls, m_running, m_terminate, joinable, wpc, wkey,
                    m_value_map, pending>>
    BY DEF Tick, callerVars, workerVars
  <1>3. /\ \A k \in Keys : m_request_queue'[k] = "none" <=> m_request_queue[k] = "none"
        /\ m_request_queue' \in [Keys -> {"none", "later", "now", "past"}]
    BY <1>1 DEF Tick, TypeOK
  <1>4. TypeOK'
    BY <1>1, <1>2, <1>3 DEF TypeOK
  <1>5. Running' /\ NobodyWaits' /\ NoneOld'
    BY <1>2 DEF AsyncInv, Running, NobodyWaits, NoneOld
  <1>6. RequestWaited' /\ FetchOnce' /\ (~use.wait => NoStranded')
    BY <1>1, <1>2, <1>3 DEF AsyncInv, RequestWaited, FetchOnce, NoStranded, TypeOK
  <1>7. QED
    BY <1>2, <1>4, <1>5, <1>6 DEF AsyncInv

\* An entry grows old only where entries expire.
LEMMA ExpireInv ==
    ASSUME AsyncInv, NEW k \in Keys, Expire(k)
    PROVE  AsyncInv'
  <1>1. TypeOK /\ use.expire
    BY DEF AsyncInv, Expire
  <1>2. UNCHANGED <<use, client, owner, calls, m_running, m_terminate, joinable, wpc, wkey,
                    m_request_queue, pending>>
    BY DEF Expire, callerVars, workerVars
  <1>3. m_value_map \in [Keys -> Entry] /\ m_value_map[k].present
        /\ m_value_map' = [m_value_map EXCEPT ![k].old = TRUE]
    BY <1>1 DEF Expire, TypeOK, Entry
  <1>4. /\ m_value_map' \in [Keys -> Entry]
        /\ \A x \in Keys : /\ m_value_map'[x].present = m_value_map[x].present
                           /\ m_value_map'[x].m_available = m_value_map[x].m_available
    BY <1>3, ZenonT(60) DEF Entry
  <1>5. TypeOK'
    BY <1>1, <1>2, <1>4 DEF TypeOK, Entry
  <1>6. Running' /\ NobodyWaits' /\ NoneOld' /\ RequestWaited' /\ FetchOnce'
    BY <1>1, <1>2 DEF AsyncInv, Running, NobodyWaits, NoneOld, RequestWaited, FetchOnce
  <1>7. ~use.wait => NoStranded'
    BY <1>2, <1>4 DEF AsyncInv, NoStranded
  <1>8. QED
    BY <1>2, <1>5, <1>6, <1>7 DEF AsyncInv

\* Entries that have a value, or are old, go.
LEMMA EntriesGo ==
    ASSUME AsyncInv, NEW Out \in SUBSET Keys,
           m_value_map' = [k \in Keys |-> IF k \in Out THEN Absent ELSE m_value_map[k]],
           ~use.expire => \A k \in Out : m_value_map[k].m_available,
           UNCHANGED <<use, client, owner, calls, m_running, m_terminate, joinable, wkey,
                       m_request_queue>>,
           pending' \subseteq pending,
           wpc' = wpc \/ (wpc = "loop" /\ wpc' = "check")
    PROVE  AsyncInv'
  <1>1. TypeOK /\ Running /\ m_value_map \in [Keys -> Entry] /\ Absent \in Entry
    BY NoHandlerType DEF AsyncInv, TypeOK, Entry, Absent
  <1>2. m_value_map' \in [Keys -> Entry]
    BY <1>1
  <1>3. TypeOK'
    BY <1>1, <1>2 DEF TypeOK, Entry
  <1>4. Running' /\ NobodyWaits'
    BY <1>1 DEF AsyncInv, Running, NobodyWaits
  <1>5. NoneOld'
    BY DEF AsyncInv, NoneOld, Absent
  <1>6. RequestWaited'
    BY DEF AsyncInv, RequestWaited
  <1>7. FetchOnce'
    <2> SUFFICES ASSUME wpc' = "collect", ~use.expire
                 PROVE  /\ m_request_queue[wkey] = "none"
                        /\ m_value_map'[wkey].present /\ ~m_value_map'[wkey].m_available
      BY DEF FetchOnce
    <2>1. wkey \in Keys /\ wpc = "collect"
      BY <1>1 DEF TypeOK
    <2>2. /\ m_request_queue[wkey] = "none"
          /\ m_value_map[wkey].present /\ ~m_value_map[wkey].m_available
      BY <2>1 DEF AsyncInv, FetchOnce
    <2>3. wkey \notin Out
      BY <2>2
    <2>4. QED
      BY <2>1, <2>2, <2>3
  <1>8. ~use.wait => NoStranded'
    BY DEF AsyncInv, NoStranded, Absent
  <1>9. use' = use
    OBVIOUS
  <1>10. QED
    BY <1>3, <1>4, <1>5, <1>6, <1>7, <1>8, <1>9 DEF AsyncInv

\* get_complete_results takes entries with a value.
LEMMA ResultsInv ==
    ASSUME AsyncInv, NEW c \in Clients, GetCompleteResults(c)
    PROVE  AsyncInv'
  <1> DEFINE Out == {k \in Keys : m_value_map[k].m_available}
  <1>1. /\ m_value_map' = [k \in Keys |-> IF k \in Out THEN Absent ELSE m_value_map[k]]
        /\ ~use.expire => \A k \in Out : m_value_map[k].m_available
        /\ UNCHANGED <<use, client, owner, calls, m_running, m_terminate, joinable, wkey,
                       m_request_queue, pending>>
    BY DEF GetCompleteResults, callerVars, workerVars
  <1>2. wpc' = wpc \/ (wpc = "loop" /\ wpc' = "check")
    BY DEF GetCompleteResults, workerVars
  <1>3. Out \in SUBSET Keys
    OBVIOUS
  <1> HIDE DEF Out
  <1>4. QED
    BY <1>1, <1>2, <1>3, EntriesGo

\* prune_stale_requests takes old entries.
LEMMA PruneInv ==
    ASSUME AsyncInv, WorkerPrune
    PROVE  AsyncInv'
  <1> DEFINE Out == {k \in Keys : m_value_map[k].old}
  <1>1. /\ m_value_map' = [k \in Keys |-> IF k \in Out THEN Absent ELSE m_value_map[k]]
        /\ ~use.expire => \A k \in Out : m_value_map[k].m_available
        /\ wpc = "loop" /\ wpc' = "check" /\ pending' \subseteq pending
        /\ UNCHANGED <<use, client, owner, calls, m_running, m_terminate, joinable, wkey,
                       m_request_queue>>
    BY DEF WorkerPrune, callerVars, AsyncInv, NoneOld
  <1>2. Out \in SUBSET Keys
    OBVIOUS
  <1> HIDE DEF Out
  <1>3. QED
    BY <1>1, <1>2, EntriesGo

\* The worker takes a request, and an entry waits for its value; ...
LEMMA DequeueInv ==
    ASSUME AsyncInv, DequeueNextKey
    PROVE  AsyncInv'
  <1>1. TypeOK /\ RequestWaited /\ (~use.wait => NoStranded) /\ wpc = "impl"
    BY DEF AsyncInv, DequeueNextKey
  <1>2. UNCHANGED <<use, client, owner, calls, m_running, m_terminate, joinable, m_value_map, pending>>
    BY DEF DequeueNextKey, callerVars
  <1>3. Running' /\ NobodyWaits' /\ NoneOld'
    BY <1>1, <1>2 DEF AsyncInv, Running, NobodyWaits, NoneOld
  <1>4. CASE wpc' = "loop" /\ UNCHANGED <<m_request_queue, wkey>>
    <2>1. TypeOK'
      BY <1>1, <1>2, <1>4 DEF TypeOK
    <2>2. RequestWaited' /\ FetchOnce' /\ (~use.wait => NoStranded')
      BY <1>1, <1>2, <1>4 DEF RequestWaited, FetchOnce, NoStranded
    <2>3. QED
      BY <1>2, <1>3, <2>1, <2>2 DEF AsyncInv
  <1>5. ASSUME NEW k \in Over, m_request_queue' = Dequeued(k), wkey' = k, wpc' = "collect"
        PROVE  AsyncInv'
    <2>1. k \in Keys /\ m_request_queue[k] = "past"
      BY DEF Over
    <2>2. /\ m_request_queue' \in [Keys -> {"none", "later", "now", "past"}]
          /\ \A x \in Keys : m_request_queue'[x] = IF x = k THEN "none" ELSE m_request_queue[x]
      BY <1>1, <1>5 DEF Dequeued, TypeOK
    <2>3. TypeOK'
      BY <1>1, <1>2, <1>5, <2>1, <2>2 DEF TypeOK
    <2>4. RequestWaited' /\ FetchOnce'
      BY <1>1, <1>2, <1>5, <2>1, <2>2 DEF RequestWaited, FetchOnce
    <2>5. ~use.wait => NoStranded'
      BY <1>1, <1>2, <1>5, <2>1, <2>2 DEF NoStranded
    <2>6. QED
      BY <1>2, <1>3, <2>3, <2>4, <2>5 DEF AsyncInv
  <1>6. QED
    BY <1>4, <1>5 DEF DequeueNextKey

\* ... the value is stored, or handed to the handler.
LEMMA StoreInv ==
    ASSUME AsyncInv, StoreValue
    PROVE  AsyncInv'
  <1> DEFINE e == m_value_map[wkey]
  <1>1. /\ TypeOK /\ RequestWaited /\ FetchOnce /\ NoneOld /\ (~use.wait => NoStranded)
        /\ wpc = "collect" /\ wpc' = "impl"
    BY DEF AsyncInv, StoreValue
  <1>2. UNCHANGED <<use, client, owner, calls, m_running, m_terminate, joinable, wkey, m_request_queue>>
    BY DEF StoreValue, callerVars
  <1>3. m_value_map' = [m_value_map EXCEPT ![wkey] = Stored(e)] /\ pending' \subseteq Handlers
    BY <1>1 DEF StoreValue, TypeOK
  <1>4. m_value_map \in [Keys -> Entry] /\ wkey \in Keys /\ e \in Entry
    BY <1>1 DEF TypeOK, Entry
  <1>5. Stored(e) \in Entry /\ (Stored(e).present => Stored(e).m_available) /\ (Stored(e).old => e.old)
    BY <1>4, NoHandlerType DEF Stored, Absent, Fresh, Entry
  <1> HIDE DEF e
  <1>6. \A x \in Keys : m_value_map'[x] = IF x = wkey THEN Stored(e) ELSE m_value_map[x]
    BY <1>3, <1>4
  <1>7. TypeOK'
    <2>1. m_value_map' \in [Keys -> Entry]
      BY <1>3, <1>4, <1>5
    <2>2. QED
      BY <1>1, <1>2, <1>3, <2>1 DEF TypeOK, Entry
  <1>8. Running' /\ NobodyWaits'
    BY <1>1, <1>2 DEF AsyncInv, Running, NobodyWaits
  <1>9. NoneOld'
    BY <1>1, <1>2, <1>4, <1>5, <1>6 DEF NoneOld, e
  <1>10. RequestWaited' /\ FetchOnce'
    BY <1>1, <1>2, <1>6 DEF RequestWaited, FetchOnce
  <1>11. ~use.wait => NoStranded'
    BY <1>1, <1>2, <1>5, <1>6 DEF NoStranded
  <1>12. QED
    BY <1>2, <1>7, <1>8, <1>9, <1>10, <1>11 DEF AsyncInv

\* All other steps move the worker outside the collection, or the owner.
LEMMA QuietInv ==
    ASSUME AsyncInv,
           UNCHANGED <<use, client, calls, wkey, m_request_queue, m_value_map, pending>>,
           m_terminate' \in BOOLEAN, joinable' \in BOOLEAN, m_running' \in BOOLEAN,
           owner' \in {"alive", "joining", "stopped"},
           wpc' = wpc \/ (wpc # "collect" /\ wpc' \in {"loop", "wait", "wait_until", "impl", "done"}),
           Running'
    PROVE  AsyncInv'
  <1>1. TypeOK'
    BY DEF AsyncInv, TypeOK
  <1>2. NobodyWaits' /\ NoneOld' /\ RequestWaited'
    BY DEF AsyncInv, NobodyWaits, NoneOld, RequestWaited
  <1>3. FetchOnce' /\ (~use.wait => NoStranded')
    BY DEF AsyncInv, FetchOnce, NoStranded
  <1>4. QED
    BY <1>1, <1>2, <1>3 DEF AsyncInv

\* The invariant holds of every source.
THEOREM AsyncInvariant == Spec => []AsyncInv
  <1>1. Init => AsyncInv
    <2> SUFFICES ASSUME Init PROVE AsyncInv
      OBVIOUS
    <2>1. TypeOK
      <3>1. Absent \in Entry /\ NotInCall \in Call
        BY NoHandlerType DEF Absent, Entry, NotInCall, Call
      <3>2. m_value_map \in [Keys -> Entry] /\ client \in [Clients -> Call]
        BY <3>1 DEF Init
      <3>3. calls \in 0 .. MaxCalls
        BY AsyncAssumption DEF Init
      <3>4. QED
        BY <3>2, <3>3 DEF Init, TypeOK, Entry
    <2>2. QED
      BY <2>1 DEF Init, AsyncInv, Running, NoneOld, RequestWaited, FetchOnce, NobodyWaits,
                  NoStranded, Absent, NotInCall
  <1>2. AsyncInv /\ [Next]_vars => AsyncInv'
    <2> SUFFICES ASSUME AsyncInv, [Next]_vars PROVE AsyncInv'
      OBVIOUS
    <2>0. TypeOK /\ Running
      BY DEF AsyncInv
    <2>1. CASE WorkerStart \/ WorkerEnd \/ WorkerWait \/ WorkerTimeout \/ WorkerCheck \/ SpuriousWake
      BY <2>0, <2>1, QuietInv, ZenonT(60) DEF WorkerStart, WorkerEnd, WorkerWait, WorkerTimeout, WorkerCheck,
           SpuriousWake, callerVars, Running, TypeOK
    <2>2. CASE WorkerPrune \/ DequeueNextKey \/ StoreValue
      BY <2>2, PruneInv, DequeueInv, StoreInv
    <2>3. CASE SomeTick
      BY <2>3, TickInv DEF SomeTick
    <2>4. CASE \E k \in Keys : Expire(k)
      BY <2>4, ExpireInv
    <2>5. CASE \E c \in Clients : Resume(c) \/ GetCompleteResults(c)
      BY <2>5, ResumeInv, ResultsInv
    <2>6. CASE \E c \in Clients, k \in Keys, delay \in BOOLEAN, handler \in use.handlers :
                  Lookup(c, k, delay, handler)
      BY <2>6, LookupInv
    <2>7. CASE Stop
      BY <2>0, <2>7, QuietInv DEF Stop, Notified, Running, TypeOK
    <2>8. CASE Join
      BY <2>0, <2>8, QuietInv DEF Join, Running, TypeOK
    <2>9. CASE UNCHANGED vars
      BY <2>0, <2>9, QuietInv DEF vars, Running, TypeOK
    <2>10. QED
      BY <2>1, <2>2, <2>3, <2>4, <2>5, <2>6, <2>7, <2>8, <2>9 DEF Next, Worker
  <1>3. QED
    BY <1>1, <1>2, PTL DEF Spec

\* TypeOK: an entry that is absent has no value, no handler and no age.
THEOREM AsyncTypes == Spec => []TypeOK
  <1>1. AsyncInv => TypeOK
    BY DEF AsyncInv
  <1>2. QED
    BY <1>1, AsyncInvariant, PTL

\* FetchOnce: a value is collected for an entry that waits for it, and there is no
\* second request for it, unless entries expire.
THEOREM AsyncFetchesOnce == Spec => []FetchOnce
  <1>1. AsyncInv => FetchOnce
    BY DEF AsyncInv
  <1>2. QED
    BY <1>1, AsyncInvariant, PTL

\* NoStranded, for sources whose clients do not wait, as docker's: an entry without a
\* value has a request on its way.
THEOREM AsyncNoneStranded == Spec => [](~use.wait => NoStranded)
  <1>1. AsyncInv => (~use.wait => NoStranded)
    BY DEF AsyncInv
  <1>2. QED
    BY <1>1, AsyncInvariant, PTL

---------------------------------------------------------------------------
\* The containers

\* A step of the manager is a step of the source, or none.
LEMMA ManagerIsClient ==
    ASSUME use \in Uses, [ManagerNext]_allVars
    PROVE  [Next]_vars
  <1>1. use.handlers = {TRUE}
    BY ContainersAssumption
  <1>2. CASE UNCHANGED allVars
    BY <1>2 DEF allVars
  <1>3. ASSUME NEW t \in Tids, NEW k \in Keys, resolve_container(t, k)
        PROVE  [Next]_vars
    <2>1. UNCHANGED vars \/ \E c \in Clients : Lookup(c, k, FALSE, TRUE)
      BY <1>3 DEF resolve_container
    <2>2. QED
      BY <1>1, <2>1 DEF Next
  <1>4. ASSUME NEW t \in Tids, resolve_host(t) \/ remove_thread(t)
        PROVE  UNCHANGED vars
    BY <1>4 DEF resolve_host, remove_thread
  <1>5. parse_container_json_evt \/ remove_inactive_containers => UNCHANGED vars
    BY DEF parse_container_json_evt, remove_inactive_containers
  <1>6. SourceWorker \/ SourceRest => Next
    BY DEF SourceWorker, SourceRest, Next
  <1>7. QED
    BY <1>2, <1>3, <1>4, <1>5, <1>6 DEF ManagerNext

\* The manager calls the source only as its clients may: what is proved of the source
\* holds of docker's.
THEOREM ContainersUseSource == ManagerSpec => Spec /\ []AsyncInv
  <1>1. ManagerInit => Init
    BY DEF ManagerInit
  <1>2. Init => use \in Uses
    BY DEF Init
  <1>3. use \in Uses /\ [ManagerNext]_allVars => [Next]_vars
    BY ManagerIsClient
  <1>4. use \in Uses /\ [Next]_vars => (use \in Uses)'
    BY DEF Next, vars, Worker, WorkerStart, WorkerEnd, WorkerWait, WorkerTimeout, WorkerPrune,
           WorkerCheck, DequeueNextKey, StoreValue, SpuriousWake, SomeTick, Tick, Expire, Resume,
           GetCompleteResults, Lookup, Stop, Join, callerVars
  <1>5. ManagerSpec => Spec
    BY <1>1, <1>2, <1>3, <1>4, PTL DEF ManagerSpec, Spec
  <1>6. QED
    BY <1>5, AsyncInvariant, PTL

---------------------------------------------------------------------------
\* What one step of the manager does to a container.

\* An event that waits is of a container.
LEMMA PendingKeys ==
    ASSUME ManagerTypeOK
    PROVE  answers \cup Cri \subseteq Keys /\ answers \subseteq Keys
  BY ContainersAssumption DEF ManagerTypeOK

\* At most one event.
LEMMA OneOrNone ==
    ASSUME NEW S, NEW x, NEW b \in BOOLEAN, b => x \in S
    PROVE  (IF b THEN <<x>> ELSE <<>>) \in Seq(S)
  <1>1. CASE b
    <2>1. x \in S
      BY <1>1
    <2>2. <<x>> \in Seq(S)
      BY <2>1
    <2>3. QED
      BY <1>1, <2>2
  <1>2. CASE ~b
    BY <1>2
  <1>3. QED
    BY <1>1, <1>2

\* resolve_container: the thread is in the container, which is complete or, if docker
\* recognises it, at least a stub.
LEMMA ResolveEffect ==
    ASSUME ManagerTypeOK, NEW t \in Tids, NEW k \in Keys, resolve_container(t, k)
    PROVE  /\ answers' = answers
           /\ m_container_id' = [m_container_id EXCEPT ![t] = k]
           /\ m_containers' \in [Keys -> {"none", "stub", "complete"}]
           /\ \A x \in Keys \ {k} : m_containers'[x] = m_containers[x]
           /\ m_containers[k] = "complete" => m_containers'[k] = "complete"
           /\ k \in Docker => m_containers'[k] # "none"
           /\ k \notin Docker => m_containers'[k] \in {m_containers[k], "complete"}
           /\ m_pending_container_evts' \in Seq(answers \cup Cri)
  <1>1. /\ answers' = answers /\ m_container_id' = [m_container_id EXCEPT ![t] = k]
        /\ m_containers \in [Keys -> {"none", "stub", "complete"}]
        /\ m_pending_container_evts \in Seq(answers \cup Cri)
    BY DEF resolve_container, ManagerTypeOK
  <1>2. CASE Complete(k)
    BY <1>1, <1>2 DEF resolve_container, Complete
  <1>3. CASE ~Complete(k)
    <2>1. PICK parse_cri \in {FALSE} \cup (IF k \in Cri THEN {TRUE} ELSE {}) :
              /\ m_containers' = [m_containers EXCEPT ![k] =
                    IF parse_cri THEN "complete" ELSE IF k \in Docker THEN "stub" ELSE @]
              /\ m_pending_container_evts' = m_pending_container_evts \o Immediate(k)
                                               \o (IF parse_cri THEN <<k>> ELSE <<>>)
      BY <1>3 DEF resolve_container
    <2>2. parse_cri \in BOOLEAN /\ (parse_cri => k \in Cri)
      BY <2>1
    <2>3. /\ m_containers' \in [Keys -> {"none", "stub", "complete"}]
          /\ \A x \in Keys \ {k} : m_containers'[x] = m_containers[x]
          /\ k \in Docker => m_containers'[k] # "none"
          /\ k \notin Docker => m_containers'[k] \in {m_containers[k], "complete"}
      BY <1>1, <2>1, <2>2
    <2>4. Immediate(k) \in Seq(answers \cup Cri)
      BY OneOrNone DEF Immediate
    <2>5. (IF parse_cri THEN <<k>> ELSE <<>>) \in Seq(answers \cup Cri)
      BY <2>2, OneOrNone
    <2>6. m_pending_container_evts' \in Seq(answers \cup Cri)
      BY <1>1, <2>1, <2>4, <2>5
    <2>7. QED
      BY <1>1, <1>3, <2>3, <2>6 DEF Complete
  <1>4. QED
    BY <1>2, <1>3

\* parse_container_json_evt: the container of the first event is complete.
LEMMA ParseEffect ==
    ASSUME ManagerTypeOK, parse_container_json_evt
    PROVE  /\ answers' = answers /\ m_container_id' = m_container_id
           /\ m_containers' \in [Keys -> {"none", "stub", "complete"}]
           /\ \A x \in Keys : m_containers'[x] \in {m_containers[x], "complete"}
           /\ m_pending_container_evts' \in Seq(answers \cup Cri)
  <1>1. /\ m_pending_container_evts \in Seq(answers \cup Cri) /\ m_pending_container_evts # <<>>
        /\ m_containers \in [Keys -> {"none", "stub", "complete"}]
        /\ answers' = answers /\ m_container_id' = m_container_id
        /\ m_containers' = [m_containers EXCEPT ![Head(m_pending_container_evts)] = "complete"]
        /\ m_pending_container_evts' = Tail(m_pending_container_evts)
    BY DEF ManagerTypeOK, parse_container_json_evt, Parsed
  <1>2. Head(m_pending_container_evts) \in Keys
    BY <1>1, PendingKeys
  <1>3. m_pending_container_evts' \in Seq(answers \cup Cri)
    BY <1>1
  <1>4. QED
    BY <1>1, <1>2, <1>3

\* remove_inactive_containers: what goes had no thread.
LEMMA RemoveEffect ==
    ASSUME ManagerTypeOK, remove_inactive_containers
    PROVE  /\ answers' = answers /\ m_container_id' = m_container_id
           /\ m_pending_container_evts' = m_pending_container_evts
           /\ m_containers' \in [Keys -> {"none", "stub", "complete"}]
           /\ \A x \in Keys : \/ m_containers'[x] = m_containers[x]
                              \/ m_containers'[x] = "none" /\ \A t \in Tids : m_container_id[t] # x
  BY DEF ManagerTypeOK, remove_inactive_containers, InUse

\* The source's steps: the callback announces what the daemon knows.
LEMMA SourceEffect ==
    ASSUME AsyncInv, ManagerTypeOK, SourceWorker \/ SourceRest
    PROVE  /\ answers' = answers /\ m_container_id' = m_container_id /\ m_containers' = m_containers
           /\ m_pending_container_evts' \in Seq(answers \cup Cri)
  <1>1. m_pending_container_evts \in Seq(answers \cup Cri)
    BY DEF ManagerTypeOK
  <1>2. CASE SourceRest
    BY <1>1, <1>2 DEF SourceRest, managerVars
  <1>3. CASE SourceWorker
    <2>1. /\ answers' = answers /\ m_container_id' = m_container_id /\ m_containers' = m_containers
      BY <1>3 DEF SourceWorker
    <2>2. \/ m_pending_container_evts' = m_pending_container_evts
          \/ m_pending_container_evts' = Append(m_pending_container_evts, wkey) /\ wkey \in answers
      BY <1>3 DEF SourceWorker, Announced
    <2>3. QED
      BY <1>1, <2>1, <2>2
  <1>4. QED
    BY <1>2, <1>3

---------------------------------------------------------------------------
\* Known containers

\* The steps that leave the threads' containers alone.
LEMMA KnownStays ==
    ASSUME InUseKnown,
           answers' = answers, m_container_id' = m_container_id,
           m_containers' \in [Keys -> {"none", "stub", "complete"}],
           m_pending_container_evts' \in Seq(answers \cup Cri),
           \A x \in Keys : \/ m_containers'[x] \in {m_containers[x], "complete"}
                           \/ m_containers'[x] = "none" /\ \A t \in Tids : m_container_id[t] # x
    PROVE  InUseKnown'
  <1>1. Docker \subseteq Keys
    BY ContainersAssumption
  <1>2. ManagerTypeOK'
    BY <1>1 DEF InUseKnown, ManagerTypeOK
  <1>3. \A t \in Tids : m_container_id'[t] \in Docker => m_containers'[m_container_id'[t]] # "none"
    BY <1>1 DEF InUseKnown
  <1>4. QED
    BY <1>2, <1>3 DEF InUseKnown

\* A thread that is seen in a container, a thread of the host, a thread that ends.
LEMMA KnownThread ==
    ASSUME InUseKnown, NEW t \in Tids,
           \/ resolve_host(t) \/ remove_thread(t) \/ \E k \in Keys : resolve_container(t, k)
    PROVE  InUseKnown'
  <1>0. /\ ManagerTypeOK /\ m_container_id \in [Tids -> Keys \cup {"", Gone}]
        /\ Docker \subseteq Keys /\ Docker \cap {"", Gone} = {}
    BY ContainersAssumption DEF InUseKnown, ManagerTypeOK
  <1>1. ASSUME NEW k \in Keys, resolve_container(t, k)
        PROVE  InUseKnown'
    <2>0. /\ answers' = answers
          /\ m_container_id' = [m_container_id EXCEPT ![t] = k]
          /\ m_containers' \in [Keys -> {"none", "stub", "complete"}]
          /\ \A x \in Keys \ {k} : m_containers'[x] = m_containers[x]
          /\ k \in Docker => m_containers'[k] # "none"
          /\ k \notin Docker => m_containers'[k] \in {m_containers[k], "complete"}
          /\ m_pending_container_evts' \in Seq(answers \cup Cri)
      BY <1>0, <1>1, ResolveEffect
    <2>1. ManagerTypeOK'
      BY <1>0, <2>0 DEF ManagerTypeOK
    <2>2. \A u \in Tids : m_container_id'[u] = IF u = t THEN k ELSE m_container_id[u]
      BY <1>0, <2>0
    <2>3. \A x \in Docker : m_containers[x] # "none" \/ x = k => m_containers'[x] # "none"
      BY <1>0, <2>0
    <2>4. QED
      BY <2>1, <2>2, <2>3 DEF InUseKnown
  <1>2. CASE resolve_host(t) \/ remove_thread(t)
    <2>1. /\ UNCHANGED <<answers, m_containers, m_pending_container_evts>>
          /\ \/ m_container_id' = [m_container_id EXCEPT ![t] = ""]
             \/ m_container_id' = [m_container_id EXCEPT ![t] = Gone]
      BY <1>2 DEF resolve_host, remove_thread
    <2>2. \A u \in Tids : m_container_id'[u] \in {m_container_id[u], "", Gone}
      BY <1>0, <2>1
    <2>3. m_container_id' \in [Tids -> Keys \cup {"", Gone}]
      BY <1>0, <2>1
    <2>4. ManagerTypeOK'
      BY <1>0, <2>1, <2>3 DEF ManagerTypeOK
    <2>5. QED
      BY <1>0, <2>1, <2>2, <2>4 DEF InUseKnown
  <1>3. QED
    BY <1>1, <1>2

\* InUseKnown: a container that docker recognises is in the map while a thread is in
\* it, for any threads and containers.
THEOREM ContainersInUseKnown == ManagerSpec => []InUseKnown
  <1>1. ManagerInit => InUseKnown
    <2> SUFFICES ASSUME ManagerInit PROVE InUseKnown
      OBVIOUS
    <2>1. ManagerTypeOK
      BY DEF ManagerInit, ManagerTypeOK
    <2>2. \A t \in Tids : m_container_id[t] \notin Docker
      BY ContainersAssumption DEF ManagerInit
    <2>3. QED
      BY <2>1, <2>2 DEF InUseKnown
  <1>2. AsyncInv /\ InUseKnown /\ [ManagerNext]_allVars => InUseKnown'
    <2> SUFFICES ASSUME AsyncInv, InUseKnown, [ManagerNext]_allVars
                 PROVE  InUseKnown'
      OBVIOUS
    <2>0. ManagerTypeOK /\ m_containers \in [Keys -> {"none", "stub", "complete"}]
      BY DEF InUseKnown, ManagerTypeOK
    <2>1. CASE \E t \in Tids : \/ resolve_host(t) \/ remove_thread(t)
                               \/ \E k \in Keys : resolve_container(t, k)
      BY <2>1, KnownThread
    <2>2. CASE parse_container_json_evt
      BY <2>0, <2>2, ParseEffect, KnownStays
    <2>3. CASE remove_inactive_containers
      BY <2>0, <2>3, RemoveEffect, KnownStays DEF ManagerTypeOK
    <2>4. CASE SourceWorker \/ SourceRest
      BY <2>0, <2>4, SourceEffect, KnownStays
    <2>5. CASE UNCHANGED allVars
      BY <2>0, <2>5, KnownStays DEF allVars, managerVars, ManagerTypeOK
    <2>6. QED
      BY <2>1, <2>2, <2>3, <2>4, <2>5 DEF ManagerNext
  <1>3. QED
    BY <1>1, <1>2, ContainersUseSource, PTL DEF ManagerSpec

\* NeverDowngraded: complete metadata is not replaced by a stub, and only a container
\* without threads is removed.
THEOREM ContainersNeverDowngraded == ManagerSpec => NeverDowngraded
  <1> DEFINE Kept == \A k \in Keys : m_containers[k] = "complete" =>
                        \/ m_containers'[k] = "complete"
                        \/ m_containers'[k] = "none" /\ \A t \in Tids : m_container_id[t] # k
  <1>1. AsyncInv /\ InUseKnown /\ [ManagerNext]_allVars => [Kept]_allVars
    <2> SUFFICES ASSUME AsyncInv, InUseKnown, ManagerNext
                 PROVE  Kept
      BY DEF Kept
    <2>0. ManagerTypeOK
      BY DEF InUseKnown
    <2>1. ASSUME NEW t \in Tids, NEW k \in Keys, resolve_container(t, k)
          PROVE  Kept
      BY <2>0, <2>1, ResolveEffect
    <2>2. ASSUME NEW t \in Tids, resolve_host(t) \/ remove_thread(t)
          PROVE  Kept
      BY <2>2 DEF resolve_host, remove_thread
    <2>3. CASE parse_container_json_evt
      BY <2>0, <2>3, ParseEffect
    <2>4. CASE remove_inactive_containers
      BY <2>0, <2>4, RemoveEffect
    <2>5. CASE SourceWorker \/ SourceRest
      BY <2>0, <2>5, SourceEffect
    <2>6. QED
      BY <2>1, <2>2, <2>3, <2>4, <2>5 DEF ManagerNext
  <1>2. QED
    BY <1>1, ContainersUseSource, ContainersInUseKnown, PTL DEF ManagerSpec, NeverDowngraded

---------------------------------------------------------------------------
\* No value is returned at once

\* Unless requests expire, an entry waits for its value and has docker's callback,
\* with which store_value erases it.
CallbackLeft ==
    ~use.expire => \A k \in Keys : /\ ~m_value_map[k].m_available
                                   /\ m_value_map[k].present => m_value_map[k].m_callback # NoHandler

\* A lookup that does not wait leaves the callback.
LEMMA LookupLeaves ==
    ASSUME TypeOK, ~use.wait, CallbackLeft, NEW c \in Clients, NEW k \in Keys,
           Lookup(c, k, FALSE, TRUE)
    PROVE  CallbackLeft'
  <1> DEFINE entry == IF m_value_map[k].present THEN m_value_map[k] ELSE Fresh
             left  == [entry EXCEPT !.m_callback = calls + 1]
  <1>1. m_value_map \in [Keys -> Entry] /\ Fresh \in Entry /\ Fresh.present /\ ~Fresh.m_available
    BY NoHandlerType DEF TypeOK, Entry, Fresh, Absent
  <1>2. entry \in Entry /\ entry.present
    BY <1>1
  <1>a. calls + 1 # NoHandler
    BY DEF TypeOK, NoHandler
  <1>3. left.m_callback # NoHandler /\ left.m_available = entry.m_available
    BY <1>2, <1>a DEF Entry
  <1>4. use' = use /\ Finish(k, calls + 1, entry)
    BY DEF Lookup
  <1>5. ASSUME ~use.expire
        PROVE  \A x \in Keys : /\ ~m_value_map'[x].m_available
                               /\ m_value_map'[x].present => m_value_map'[x].m_callback # NoHandler
    <2>1. ~entry.m_available
      BY <1>1, <1>5 DEF CallbackLeft
    <2>2. m_value_map' = [m_value_map EXCEPT ![k] = left]
      BY <1>2, <1>4, <2>1 DEF Finish
    <2> HIDE DEF entry, left
    <2>3. QED
      BY <1>1, <1>3, <1>5, <2>1, <2>2 DEF CallbackLeft
  <1>6. QED
    BY <1>4, <1>5 DEF CallbackLeft

\* store_value finds the entry it collects for, and erases it.
LEMMA StoreErases ==
    ASSUME TypeOK, FetchOnce, CallbackLeft, StoreValue
    PROVE  CallbackLeft'
  <1>1. /\ use' = use /\ wpc = "collect" /\ wkey \in Keys /\ m_value_map \in [Keys -> Entry]
        /\ m_value_map' = [m_value_map EXCEPT ![wkey] = Stored(m_value_map[wkey])]
    BY DEF StoreValue, callerVars, TypeOK, Entry
  <1>2. ~use.expire => Stored(m_value_map[wkey]) = Absent
    BY <1>1 DEF FetchOnce, CallbackLeft, Stored
  <1>3. ~Absent.present /\ ~Absent.m_available
    BY DEF Absent
  <1>4. QED
    BY <1>1, <1>2, <1>3 DEF CallbackLeft

\* NoImmediateReturn: "This should *never* happen": docker's lookup returns no value at
\* once, as long as no request expires.
THEOREM ContainersNoImmediateReturn == ManagerSpec => []NoImmediateReturn
  <1>1. ManagerInit => CallbackLeft
    BY DEF ManagerInit, Init, CallbackLeft, Absent
  <1>2. AsyncInv /\ CallbackLeft /\ [ManagerNext]_allVars => CallbackLeft'
    <2> SUFFICES ASSUME AsyncInv, CallbackLeft, [ManagerNext]_allVars
                 PROVE  CallbackLeft'
      OBVIOUS
    <2>0. TypeOK /\ FetchOnce /\ ~use.wait /\ m_value_map \in [Keys -> Entry]
      BY ContainersAssumption DEF AsyncInv, TypeOK, Entry
    <2>1. UNCHANGED <<use, m_value_map>> => CallbackLeft'
      BY DEF CallbackLeft
    <2>2. ASSUME NEW t \in Tids, NEW k \in Keys, resolve_container(t, k)
          PROVE  CallbackLeft'
      <3>1. UNCHANGED vars \/ \E c \in Clients : Lookup(c, k, FALSE, TRUE)
        BY <2>2 DEF resolve_container
      <3>2. QED
        BY <2>0, <2>1, <3>1, LookupLeaves DEF vars
    <2>3. ASSUME NEW t \in Tids, resolve_host(t) \/ remove_thread(t)
          PROVE  CallbackLeft'
      BY <2>1, <2>3 DEF resolve_host, remove_thread, vars
    <2>4. CASE parse_container_json_evt \/ remove_inactive_containers \/ UNCHANGED allVars
      BY <2>1, <2>4 DEF parse_container_json_evt, remove_inactive_containers, allVars, vars
    <2>5. CASE SourceWorker
      <3>1. CASE StoreValue
        BY <2>0, <3>1, StoreErases
      <3>2. CASE WorkerPrune
        <4>1. /\ use' = use /\ ~Absent.present /\ ~Absent.m_available
              /\ \A k \in Keys : m_value_map'[k] \in {m_value_map[k], Absent}
          BY <3>2 DEF WorkerPrune, callerVars, Absent
        <4>2. QED
          BY <4>1 DEF CallbackLeft
      <3>3. CASE WorkerStart \/ WorkerEnd \/ WorkerWait \/ WorkerTimeout \/ WorkerCheck \/ DequeueNextKey
        BY <2>1, <3>3 DEF WorkerStart, WorkerEnd, WorkerWait, WorkerTimeout, WorkerCheck,
                          DequeueNextKey, callerVars
      <3>4. QED
        BY <2>5, <3>1, <3>2, <3>3 DEF SourceWorker, Worker
    <2>6. CASE SourceRest
      <3>1. CASE \E k \in Keys : Expire(k)
        BY <3>1 DEF Expire, CallbackLeft, callerVars
      <3>2. CASE SpuriousWake \/ SomeTick \/ Stop \/ Join
        BY <2>1, <3>2 DEF SpuriousWake, SomeTick, Tick, Stop, Join, callerVars
      <3>3. QED
        BY <2>6, <3>1, <3>2 DEF SourceRest
    <2>7. QED
      BY <2>2, <2>3, <2>4, <2>5, <2>6 DEF ManagerNext
  <1>3. CallbackLeft => NoImmediateReturn
    BY DEF CallbackLeft, NoImmediateReturn
  <1>4. QED
    BY <1>1, <1>2, <1>3, ContainersUseSource, PTL DEF ManagerSpec
=============================================================================
