------------------------ MODULE PpmConsumersProofs ------------------------
(***************************************************************************)
(* The driver's consumers for any number of threads and CPUs, any limit    *)
(* and any order of calls, failures, probes and hotplug steps.             *)
(***************************************************************************)
EXTENDS PpmConsumers, FiniteSetTheorems, TLAPS

\* Each leaf is tried with Zenon, then with SMT, and then with both for longer.
USE ZenonT(2), SMTT(30), ZenonT(20), SMTT(60)

Call4 == [kind : Kinds, task : Tasks, cpu : Cpus, in_list : BOOLEAN]
Rings == [Tasks -> [Cpus -> Ring]]
Walks == [in : BOOLEAN, at : {{}} \cup {{t} : t \in Tasks}]

---------------------------------------------------------------------------
\* Types

\* What is written to a ring is a ring.
LEMMA RingTypes ==
    ASSUME NEW r \in Ring
    PROVE  /\ [r EXCEPT !.open = TRUE, !.capture = FALSE] \in Ring
           /\ [r EXCEPT !.open = FALSE] \in Ring
           /\ Closed(r) \in Ring
           /\ \A b \in BOOLEAN : /\ [r EXCEPT !.capture = b] \in Ring
                                 /\ [r EXCEPT !.cpu_online = b] \in Ring
  BY DEF Ring, Closed

\* The rings of a new consumer, and those of none.
LEMMA NoRingTypes ==
    NoRing \in Ring /\ \A b \in BOOLEAN : [NoRing EXCEPT !.cpu_online = b, !.buffer = b] \in Ring
  BY DEF Ring, NoRing

\* One ring is replaced.
LEMMA RingsTypes ==
    ASSUME NEW R \in Rings, NEW t \in Tasks, NEW c \in Cpus, NEW r \in Ring
    PROVE  [R EXCEPT ![t][c] = r] \in Rings
  BY DEF Rings

\* A call goes on.
LEMMA CallTypes ==
    ASSUME NEW o \in Call4, NEW k \in Kinds
    PROVE  [o EXCEPT !.kind = k] \in Call4
  BY DEF Call4

\* A call that is in progress.
LEMMA InCall ==
    ASSUME TypeOK, op.kind # "idle"
    PROVE  op \in Call4 /\ op.task \in Tasks /\ op.cpu \in Cpus /\ op.kind \in Kinds
  <1>1. Idle.kind = "idle"
    BY DEF Idle
  <1>2. op \in Call4
    BY <1>1 DEF TypeOK, Call4
  <1>3. QED
    BY <1>2 DEF Call4

\* The variables that are not records.
PlainTypes ==
    /\ hp \in [Cpus -> {"on", "down", "off", "up"}]
    /\ allocated \subseteq Tasks /\ listed \subseteq Tasks /\ deserted \subseteq Tasks
    /\ registered \subseteq BaseSet \cup Faults
    /\ g_tracepoint_registered \in BOOLEAN /\ g_fault_tracepoint_registered \in BOOLEAN
    /\ grace \subseteq Cpus

\* The types, by part.
LEMMA TypeParts ==
    TypeOK <=> /\ PlainTypes /\ ring \in Rings
               /\ op = Idle \/ op \in Call4
               /\ probe \in [Cpus -> Walks]
  BY DEF TypeOK, PlainTypes, Rings, Call4, Walks

\* The same of the next state.
LEMMA TypePartsNext ==
    TypeOK' <=> /\ PlainTypes' /\ ring' \in Rings
                /\ op' = Idle \/ op' \in Call4
                /\ probe' \in [Cpus -> Walks]
  BY DEF TypeOK, PlainTypes, Rings, Call4, Walks

\* The steps of the call that holds the mutex keep the types.
LEMMA CallStepTypes ==
    ASSUME TypeOK, CallStep
    PROVE  TypeOK'
  <1>0. /\ PlainTypes /\ ring \in Rings /\ probe \in [Cpus -> Walks]
        /\ op.kind # "idle" => op \in Call4 /\ op.task \in Tasks /\ op.cpu \in Cpus
    BY TypeParts, InCall
  <1>a. CASE ListAdd
    <2>1. op \in Call4 /\ op.task \in Tasks
      BY <1>0, <1>a DEF ListAdd
    <2>2. op' \in Call4
      BY <1>a, <2>1 DEF ListAdd, Call4, Kinds
    <2>3. PlainTypes' /\ UNCHANGED <<ring, probe>>
      BY <1>0, <1>a, <2>1 DEF ListAdd, PlainTypes
    <2>4. QED
      BY <1>0, <2>2, <2>3, TypePartsNext
  <1>1. CASE OpenRefused
    BY <1>0, <1>1, TypePartsNext DEF OpenRefused, PlainTypes
  <1>2. CASE OpenRing
    <2>1. op \in Call4 /\ op.task \in Tasks /\ op.cpu \in Cpus
      BY <1>0, <1>2 DEF OpenRing
    <2>2. ring[op.task][op.cpu] \in Ring
      BY <1>0, <2>1 DEF Rings
    <2>3. ring' \in Rings
      BY <1>0, <1>2, <2>1, <2>2, RingTypes, RingsTypes DEF OpenRing
    <2>4. op' = Idle \/ op' \in Call4
      BY <1>2, <2>1, CallTypes DEF OpenRing, Kinds
    <2>5. PlainTypes' /\ UNCHANGED probe
      BY <1>0, <1>2 DEF OpenRing, PlainTypes
    <2>6. QED
      BY <1>0, <2>3, <2>4, <2>5, TypePartsNext
  <1>3. CASE RegisterProbes
    BY <1>0, <1>3, TypePartsNext DEF RegisterProbes, PlainTypes
  <1>4. ASSUME NEW n \in 0 .. 4, RegisterFails(n)
        PROVE  TypeOK'
    <2>1. op \in Call4
      BY <1>0, <1>4 DEF RegisterFails
    <2>2. op' \in Call4
      BY <1>4, <2>1, CallTypes DEF RegisterFails, Kinds
    <2>3. RegisterTo(n) \subseteq BaseSet
      BY DEF RegisterTo, BaseSet
    <2>4. PlainTypes' /\ UNCHANGED <<ring, probe>>
      BY <1>0, <1>4, <2>3 DEF RegisterFails, PlainTypes
    <2>5. QED
      BY <1>0, <2>2, <2>4, TypePartsNext
  <1>5. CASE Unwind
    <2>1. op \in Call4 /\ op.task \in Tasks /\ op.cpu \in Cpus
      BY <1>0, <1>5 DEF Unwind
    <2>2. ring[op.task][op.cpu] \in Ring
      BY <1>0, <2>1 DEF Rings
    <2>3. ring' \in Rings
      BY <1>0, <1>5, <2>1, <2>2, RingTypes, RingsTypes DEF Unwind
    <2>4. op' = Idle \/ op' \in Call4
      BY <1>5, <2>1, CallTypes DEF Unwind, Kinds
    <2>5. PlainTypes' /\ UNCHANGED probe
      BY <1>0, <1>5 DEF Unwind, PlainTypes, Detached
    <2>6. QED
      BY <1>0, <2>3, <2>4, <2>5, TypePartsNext
  <1>6. CASE Unlink
    <2>1. op \in Call4
      BY <1>0, <1>6 DEF Unlink
    <2>2. op' \in Call4
      BY <1>6, <2>1, CallTypes DEF Unlink, Kinds
    <2>3. PlainTypes' /\ UNCHANGED <<ring, probe>>
      BY <1>0, <1>6 DEF Unlink, PlainTypes
    <2>4. QED
      BY <1>0, <2>2, <2>3, TypePartsNext
  <1>7. CASE Free
    <2>1. op \in Call4 /\ op.task \in Tasks
      BY <1>0, <1>7 DEF Free
    <2>2. op' = Idle \/ op' \in Call4
      BY <1>7, <2>1, CallTypes DEF Free, Undefined, Kinds
    <2>3. ring' \in Rings
      BY <1>0, <1>7, <2>1, NoRingTypes DEF Free, Rings
    <2>4. PlainTypes' /\ UNCHANGED probe
      BY <1>0, <1>7 DEF Free, PlainTypes
    <2>5. QED
      BY <1>0, <2>2, <2>3, <2>4, TypePartsNext
  <1>8. CASE StopCollection
    <2>1. op \in Call4
      BY <1>0, <1>8 DEF StopCollection
    <2>2. op' \in Call4
      BY <1>8, <2>1, CallTypes DEF StopCollection, Kinds
    <2>3. PlainTypes' /\ UNCHANGED <<ring, probe>>
      BY <1>0, <1>8 DEF StopCollection, PlainTypes, FaultFlagAfterStop
    <2>4. QED
      BY <1>0, <2>2, <2>3, TypePartsNext
  <1>9. CASE SynchronizeUnregister \/ ReleaseDone
    BY <1>0, <1>9, TypePartsNext DEF SynchronizeUnregister, ReleaseDone, PlainTypes
  <1>10. QED
    BY <1>a, <1>1, <1>2, <1>3, <1>4, <1>5, <1>6, <1>7, <1>8, <1>9 DEF CallStep

\* The calls that take the mutex keep the types.
LEMMA CallsTypes ==
    ASSUME TypeOK, NEW t \in Tasks, NEW c \in Cpus, Call(t, c)
    PROVE  TypeOK'
  <1>0. /\ PlainTypes /\ ring \in Rings /\ probe \in [Cpus -> Walks]
        /\ op = Idle \/ op \in Call4
        /\ ring[t][c] \in Ring
    BY TypeParts DEF Rings
  <1>1. CASE OpenNew(t, c)
    <2>1. ring' \in Rings
      <3>1. \A d \in Cpus : Online(d) \in BOOLEAN
        BY DEF Online
      <3>2. [d \in Cpus |-> [NoRing EXCEPT !.cpu_online = Online(d), !.buffer = Online(d)]]
              \in [Cpus -> Ring]
        BY <3>1, NoRingTypes
      <3>3. QED
        BY <1>0, <1>1, <3>2 DEF OpenNew, Rings
    <2>2. op' \in Call4
      BY <1>1 DEF OpenNew, Call4, Kinds
    <2>3. PlainTypes' /\ UNCHANGED probe
      BY <1>0, <1>1 DEF OpenNew, PlainTypes
    <2>4. QED
      BY <1>0, <2>1, <2>2, <2>3, TypePartsNext
  <1>2. CASE OpenNewFails(t, c)
    <2>1. op' \in Call4
      BY <1>2 DEF OpenNewFails, AfterFailedInit, Call4, Kinds
    <2>2. PlainTypes' /\ UNCHANGED <<ring, probe>>
      BY <1>0, <1>2 DEF OpenNewFails, PlainTypes
    <2>3. QED
      BY <1>0, <2>1, <2>2, TypePartsNext
  <1>3. CASE OpenExisting(t, c)
    <2>1. op' \in Call4
      BY <1>3 DEF OpenExisting, Call4, Kinds
    <2>2. PlainTypes' /\ UNCHANGED <<ring, probe>>
      BY <1>0, <1>3 DEF OpenExisting, PlainTypes
    <2>3. QED
      BY <1>0, <2>1, <2>2, TypePartsNext
  <1>4. CASE Release(t, c)
    <2>1. ring' \in Rings
      BY <1>0, <1>4, RingTypes, RingsTypes DEF Release
    <2>2. op' \in Call4
      BY <1>4 DEF Release, Call4, Kinds
    <2>3. PlainTypes' /\ UNCHANGED probe
      BY <1>0, <1>4 DEF Release, PlainTypes
    <2>4. QED
      BY <1>0, <2>1, <2>2, <2>3, TypePartsNext
  <1>5. ASSUME NEW on \in BOOLEAN, SetCapture(t, c, on)
        PROVE  TypeOK'
    <2>1. ring' \in Rings
      BY <1>0, <1>5, RingTypes, RingsTypes DEF SetCapture
    <2>2. PlainTypes' /\ UNCHANGED <<op, probe>>
      BY <1>0, <1>5 DEF SetCapture, PlainTypes
    <2>3. QED
      BY <1>0, <2>1, <2>2, TypePartsNext
  <1>6. ASSUME NEW on \in BOOLEAN, SetSignalDeliver(t, c, on) \/ EnablePageFaults(t, c, on)
        PROVE  TypeOK'
    <2>1. Base[5] = "signal_deliver" /\ 5 \in 1 .. 5
      BY DEF Base
    <2>2. "signal_deliver" \in BaseSet
      BY <2>1 DEF BaseSet
    <2>3. PlainTypes' /\ UNCHANGED <<ring, op, probe>>
      BY <1>0, <1>6, <2>2 DEF SetSignalDeliver, EnablePageFaults, PlainTypes
    <2>4. QED
      BY <1>0, <2>3, TypePartsNext
  <1>7. QED
    BY <1>1, <1>2, <1>3, <1>4, <1>5, <1>6 DEF Call

\* The probes and the hotplug callbacks keep the types.
LEMMA OtherTypes ==
    ASSUME TypeOK, NEW c \in Cpus,
           \/ \E t \in Tasks : ProbeVisit(c, t)
           \/ ProbeEnter(c) \/ ProbeLeave(c) \/ CpuMask(c)
           \/ \E d \in Cpus : CpuCallback(c, d)
    PROVE  TypeOK'
  <1>0. /\ PlainTypes /\ ring \in Rings /\ probe \in [Cpus -> Walks]
        /\ op = Idle \/ op \in Call4
        /\ probe[c] \in Walks
    BY TypeParts
  <1>a. Outside \in Walks /\ [in |-> TRUE, at |-> {}] \in Walks
    BY DEF Outside, Walks
  <1>1. ASSUME NEW t \in Tasks, ProbeVisit(c, t)
        PROVE  TypeOK'
    <2>1. WalkedTo(probe[c], t) \in Walks
      BY <1>0 DEF WalkedTo, Walks
    <2>2. probe' \in [Cpus -> Walks]
      BY <1>0, <1>1, <2>1 DEF ProbeVisit
    <2>3. PlainTypes' /\ UNCHANGED <<ring, op>>
      BY <1>0, <1>1 DEF ProbeVisit, PlainTypes
    <2>4. QED
      BY <1>0, <2>2, <2>3, TypePartsNext
  <1>2. CASE ProbeEnter(c)
    BY <1>0, <1>a, <1>2, TypePartsNext DEF ProbeEnter, PlainTypes
  <1>3. CASE ProbeLeave(c)
    BY <1>0, <1>a, <1>3, TypePartsNext DEF ProbeLeave, PlainTypes
  <1>4. CASE CpuMask(c)
    BY <1>0, <1>4, TypePartsNext DEF CpuMask, PlainTypes
  <1>5. ASSUME NEW d \in Cpus, CpuCallback(c, d)
        PROVE  TypeOK'
    <2>1. ASSUME NEW b \in BOOLEAN, SetCpuOnline(c, b)
          PROVE  ring' \in Rings
      <3>1. \A t \in Tasks : ring[t] \in [Cpus -> Ring] /\ ring[t][c] \in Ring
        BY <1>0 DEF Rings
      <3>2. \A t \in Tasks : [ring[t][c] EXCEPT !.cpu_online = b] \in Ring
        BY <3>1, RingTypes
      <3>3. \A t \in Tasks : [ring[t] EXCEPT ![c] = [@ EXCEPT !.cpu_online = b]] \in [Cpus -> Ring]
        BY <3>1, <3>2
      <3>4. QED
        BY <2>1, <3>1, <3>3 DEF SetCpuOnline, Rings
    <2>2. ring' \in Rings
      BY <1>5, <2>1 DEF CpuCallback
    <2>3. probe' \in [Cpus -> Walks]
      BY <1>0, <1>a, <1>5 DEF CpuCallback
    <2>4. PlainTypes' /\ UNCHANGED op
      BY <1>0, <1>5 DEF CpuCallback, PlainTypes
    <2>5. QED
      BY <1>0, <2>2, <2>3, <2>4, TypePartsNext
  <1>6. QED
    BY <1>1, <1>2, <1>3, <1>4, <1>5

\* No step breaks the types.
LEMMA TypesStep ==
    ASSUME TypeOK, [Next]_vars
    PROVE  TypeOK'
  <1>1. CASE UNCHANGED vars
    BY <1>1 DEF vars, TypeOK
  <1>2. CASE Next
    BY <1>2, CallStepTypes, CallsTypes, OtherTypes DEF Next
  <1>3. QED
    BY <1>1, <1>2

\* The first state is typed.
LEMMA TypesInit ==
    ASSUME Init
    PROVE  TypeOK
  BY TypeParts, NoRingTypes DEF Init, PlainTypes, Rings, Walks, Outside

\* Types, for any tasks, CPUs and set-ups.
THEOREM ConsumersTyped == Spec => []TypeOK
  BY TypesInit, TypesStep, PTL DEF Spec

---------------------------------------------------------------------------
\* The inductive invariant

\* Before it is added to the list and between its removal and its freeing a consumer
\* is in the hands of the call alone, but for the probes that synchronize_rcu() waits
\* for.  One that is freed while it is on the list had been left there by a refused open.
Freeing == op.kind \in {"free", "free_release"}
Busy == {"open", "register", "unwind", "unlink", "unlink_release"}
MemInv ==
    /\ op.kind # "undefined" =>
           /\ allocated = listed \cup (IF Freeing \/ op.kind = "add" THEN {op.task} ELSE {})
           /\ \A c \in Cpus : probe[c].at \subseteq allocated
    /\ op.kind = "undefined" => allocated = listed \ {op.task} /\ op.task \in deserted
    /\ Freeing => IF op.task \in listed
                  THEN op.task \in deserted
                  ELSE \A c \in Cpus : op.task \in probe[c].at => c \in grace
    /\ \A c \in Cpus : ~probe[c].in => probe[c].at = {}
    /\ op.kind \in Busy => op.task \in listed

\* Open rings belong to consumers on the list, and have buffers.
RingInv ==
    /\ \A t \in Tasks, c \in Cpus :
           /\ ring[t][c].open => t \in listed /\ ring[t][c].buffer
           /\ ring[t][c].capture => ring[t][c].open
    /\ op.kind \in {"unlink", "unlink_release", "free", "free_release", "undefined"} =>
           \A c \in Cpus : ~ring[op.task][c].open
    /\ op.kind \in {"register", "unwind"} =>
           ring[op.task][op.cpu].open /\ ~ring[op.task][op.cpu].capture

\* What the flags say of the rings,
FlagInv ==
    /\ op.kind \in {"register", "unwind"} =>
           /\ ~g_tracepoint_registered
           /\ \A t \in Tasks, c \in Cpus : ring[t][c].open => t = op.task /\ c = op.cpu
    /\ op.kind \notin {"register", "unwind"} =>
           \A t \in Tasks, c \in Cpus : ring[t][c].open => g_tracepoint_registered
    /\ op.kind \in {"unlink_release", "free_release", "stop", "synchronize"} =>
           g_tracepoint_registered
    /\ g_fault_tracepoint_registered => g_tracepoint_registered
    /\ op.kind = "synchronize" => listed = {} /\ ~g_fault_tracepoint_registered

\* and of the probes.
ProbeInv ==
    /\ op.kind \notin {"unwind", "synchronize"} =>
           IF g_tracepoint_registered
           THEN BaseSet \ {"signal_deliver"} \subseteq registered
           ELSE registered = {}
    /\ op.kind = "unwind" => registered \subseteq BaseSet
    /\ op.kind = "synchronize" => registered = {}
    /\ IF g_fault_tracepoint_registered
       THEN Faults \subseteq registered
       ELSE Faults \cap registered = {}

\* A consumer on the list has an open ring, unless the call in progress is its first
\* open or its removal, or a refused open left it behind.
DesertInv ==
    /\ \A t \in listed : \/ t \in deserted
                         \/ \E c \in Cpus : ring[t][c].open
                         \/ op.kind \in Busy /\ op.task = t
    /\ op.kind = "open" /\ ~op.in_list =>
           op.task \in deserted \/ \E c \in Cpus : ring[op.task][c].open
    /\ op.kind \in {"register", "unwind"} /\ ~op.in_list => op.task \in deserted

IInv == MemInv /\ RingInv /\ FlagInv /\ ProbeInv /\ DesertInv

---------------------------------------------------------------------------
\* How the calls change rings and their own stage

\* A call that goes on is about the same task and CPU.
LEMMA GoesOn ==
    ASSUME NEW o \in Call4, NEW k \in Kinds
    PROVE  LET p == [o EXCEPT !.kind = k]
           IN  p.kind = k /\ p.task = o.task /\ p.cpu = o.cpu /\ p.in_list = o.in_list
  BY DEF Call4

\* The kinds are different, and different from the idle one.
LEMMA IdleKind == Idle.kind = "idle" /\ "idle" \notin Kinds
  BY DEF Idle, Kinds

\* The other rings stay as they are.
LEMMA OneRing ==
    ASSUME NEW R \in Rings, NEW t \in Tasks, NEW c \in Cpus, NEW r,
           NEW u \in Tasks, NEW d \in Cpus
    PROVE  [R EXCEPT ![t][c] = r][u][d] = IF u = t /\ d = c THEN r ELSE R[u][d]
  BY DEF Rings

---------------------------------------------------------------------------
\* What a step does to the rings, ring by ring

\* reset_ring_buffer and ring->open = true, for the ring of the call alone.
LEMMA OpenRingEffect ==
    ASSUME TypeOK, OpenRing
    PROVE  /\ op.task \in Tasks /\ op.cpu \in Cpus
           /\ IF g_tracepoint_registered
              THEN op'.kind = "idle"
              ELSE /\ op'.kind = "register" /\ op'.task = op.task /\ op'.cpu = op.cpu
                   /\ op'.in_list = op.in_list
           /\ ring'[op.task][op.cpu].open /\ ~ring'[op.task][op.cpu].capture
           /\ ring'[op.task][op.cpu].buffer
           /\ \A u \in Tasks, d \in Cpus :
                  ~(u = op.task /\ d = op.cpu) => ring'[u][d] = ring[u][d]
  <1>0. /\ op \in Call4 /\ op.task \in Tasks /\ op.cpu \in Cpus /\ ring \in Rings
        /\ ring[op.task][op.cpu] \in Ring
    BY InCall, TypeParts DEF OpenRing, Rings
  <1>1. IF g_tracepoint_registered
        THEN op'.kind = "idle"
        ELSE /\ op'.kind = "register" /\ op'.task = op.task /\ op'.cpu = op.cpu
             /\ op'.in_list = op.in_list
    BY <1>0, IdleKind, GoesOn DEF OpenRing, Kinds
  <1>2. /\ ring'[op.task][op.cpu] =
             [ring[op.task][op.cpu] EXCEPT !.open = TRUE, !.capture = FALSE]
        /\ \A u \in Tasks, d \in Cpus :
               ~(u = op.task /\ d = op.cpu) => ring'[u][d] = ring[u][d]
    <2> DEFINE r == [ring[op.task][op.cpu] EXCEPT !.open = TRUE, !.capture = FALSE]
    <2>1. ring' = [ring EXCEPT ![op.task][op.cpu] = r]
      BY <1>0 DEF OpenRing, Rings
    <2> HIDE DEF r
    <2>2. \A u \in Tasks, d \in Cpus :
              ring'[u][d] = IF u = op.task /\ d = op.cpu THEN r ELSE ring[u][d]
      <3> TAKE u \in Tasks, d \in Cpus
      <3>1. [ring EXCEPT ![op.task][op.cpu] = r][u][d] =
                IF u = op.task /\ d = op.cpu THEN r ELSE ring[u][d]
        BY ONLY <1>0, OneRing, SMTT(60)
      <3>2. QED
        BY ONLY <2>1, <3>1, ZenonT(20), SMTT(60)
    <2>3. QED
      BY <1>0, <2>2 DEF r
  <1>3. ring[op.task][op.cpu].buffer
    BY DEF OpenRing
  <1>4. QED
    BY <1>0, <1>1, <1>2, <1>3 DEF Ring

\* The error labels close the ring of the call.
LEMMA UnwindEffect ==
    ASSUME TypeOK, Unwind
    PROVE  /\ op.task \in Tasks /\ op.cpu \in Cpus
           /\ \/ op'.kind = "idle" /\ \E d \in Cpus \ {op.cpu} : ring[op.task][d].open
              \/ /\ op'.kind \in {"unlink", "free"} /\ op'.task = op.task
                 /\ op'.kind = "unlink" <=> op.in_list
                 /\ \A d \in Cpus \ {op.cpu} : ~ring[op.task][d].open
           /\ ~ring'[op.task][op.cpu].open
           /\ ring'[op.task][op.cpu].capture = ring[op.task][op.cpu].capture
           /\ \A u \in Tasks, d \in Cpus :
                  ~(u = op.task /\ d = op.cpu) => ring'[u][d] = ring[u][d]
  <1>0. /\ op \in Call4 /\ op.task \in Tasks /\ op.cpu \in Cpus /\ ring \in Rings
        /\ ring[op.task][op.cpu] \in Ring
    BY InCall, TypeParts DEF Unwind, Rings
  <1>1. /\ [op EXCEPT !.kind = "unlink"].kind = "unlink"
        /\ [op EXCEPT !.kind = "unlink"].task = op.task
        /\ [op EXCEPT !.kind = "free"].kind = "free"
        /\ [op EXCEPT !.kind = "free"].task = op.task
    BY <1>0, GoesOn DEF Kinds
  <1>2. \/ op'.kind = "idle" /\ \E d \in Cpus \ {op.cpu} : ring[op.task][d].open
        \/ /\ op'.kind \in {"unlink", "free"} /\ op'.task = op.task
           /\ op'.kind = "unlink" <=> op.in_list
           /\ \A d \in Cpus \ {op.cpu} : ~ring[op.task][d].open
    BY <1>0, <1>1, IdleKind DEF Unwind, OpenRings
  <1>3. /\ ring'[op.task][op.cpu] = [ring[op.task][op.cpu] EXCEPT !.open = FALSE]
        /\ \A u \in Tasks, d \in Cpus :
               ~(u = op.task /\ d = op.cpu) => ring'[u][d] = ring[u][d]
    <2> DEFINE r == [ring[op.task][op.cpu] EXCEPT !.open = FALSE]
    <2>1. ring' = [ring EXCEPT ![op.task][op.cpu] = r]
      BY <1>0 DEF Unwind, Rings
    <2> HIDE DEF r
    <2>2. \A u \in Tasks, d \in Cpus :
              ring'[u][d] = IF u = op.task /\ d = op.cpu THEN r ELSE ring[u][d]
      <3> TAKE u \in Tasks, d \in Cpus
      <3>1. [ring EXCEPT ![op.task][op.cpu] = r][u][d] =
                IF u = op.task /\ d = op.cpu THEN r ELSE ring[u][d]
        BY ONLY <1>0, OneRing, SMTT(60)
      <3>2. QED
        BY ONLY <2>1, <3>1, ZenonT(20), SMTT(60)
    <2>3. QED
      BY <1>0, <2>2 DEF r
  <1>4. QED
    BY <1>0, <1>2, <1>3 DEF Unwind, Ring

\* check_remove_consumer frees every ring of the consumer.
LEMMA FreeEffect ==
    ASSUME TypeOK, Free
    PROVE  /\ op'.kind = IF op.task \in listed THEN "undefined"
                         ELSE IF op.kind = "free" THEN "idle" ELSE "stop"
           /\ op.task \in listed => op'.task = op.task
           /\ op.task \in Tasks
           /\ \A u \in Tasks, d \in Cpus :
                  IF u = op.task THEN ~ring'[u][d].open /\ ~ring'[u][d].capture
                                 ELSE ring'[u][d] = ring[u][d]
  <1>0. op \in Call4 /\ op.task \in Tasks /\ ring \in Rings
    BY InCall, TypeParts DEF Free
  <1>1. /\ op'.kind = IF op.task \in listed THEN "undefined"
                      ELSE IF op.kind = "free" THEN "idle" ELSE "stop"
        /\ op.task \in listed => op'.task = op.task
    BY <1>0, IdleKind, GoesOn DEF Free, Undefined, Kinds
  <1>2. ~NoRing.open /\ ~NoRing.capture
    BY DEF NoRing
  <1>3. QED
    BY <1>0, <1>1, <1>2 DEF Free, Rings

\* A new consumer has no open ring.
LEMMA OpenNewEffect ==
    ASSUME TypeOK, NEW t \in Tasks, NEW c \in Cpus, OpenNew(t, c)
    PROVE  /\ op'.kind = "add" /\ op'.task = t
           /\ \A d \in Cpus : ~ring'[t][d].open /\ ~ring'[t][d].capture
           /\ \A u \in Tasks \ {t}, d \in Cpus : ring'[u][d] = ring[u][d]
  <1>0. ring \in Rings
    BY TypeParts
  <1>1. \A d \in Cpus : ring'[t][d] = [NoRing EXCEPT !.cpu_online = Online(d), !.buffer = Online(d)]
    BY <1>0 DEF OpenNew, Rings
  <1>2. \A d \in Cpus : ~ring'[t][d].open /\ ~ring'[t][d].capture
    BY <1>1, ZenonT(60) DEF NoRing
  <1>3. \A u \in Tasks \ {t}, d \in Cpus : ring'[u][d] = ring[u][d]
    BY <1>0 DEF OpenNew, Rings
  <1>4. QED
    BY <1>2, <1>3 DEF OpenNew

\* ppm_release closes one ring.
LEMMA ReleaseEffect ==
    ASSUME TypeOK, NEW t \in Tasks, NEW c \in Cpus, Release(t, c)
    PROVE  /\ op'.task = t
           /\ \/ op'.kind = "stop" /\ \E d \in Cpus \ {c} : ring[t][d].open
              \/ op'.kind = "unlink_release" /\ \A d \in Cpus \ {c} : ~ring[t][d].open
           /\ ~ring'[t][c].open /\ ~ring'[t][c].capture
           /\ \A u \in Tasks, d \in Cpus : ~(u = t /\ d = c) => ring'[u][d] = ring[u][d]
  <1>0. ring \in Rings /\ ring[t][c] \in Ring
    BY TypeParts DEF Rings
  <1>1. /\ op'.task = t
        /\ \/ op'.kind = "stop" /\ \E d \in Cpus \ {c} : ring[t][d].open
           \/ op'.kind = "unlink_release" /\ \A d \in Cpus \ {c} : ~ring[t][d].open
    BY DEF Release, OpenRings
  <1>2. /\ ring'[t][c] = Closed(ring[t][c])
        /\ \A u \in Tasks, d \in Cpus : ~(u = t /\ d = c) => ring'[u][d] = ring[u][d]
    <2> DEFINE r == Closed(ring[t][c])
    <2>1. ring' = [ring EXCEPT ![t][c] = r]
      BY <1>0 DEF Release, Rings
    <2> HIDE DEF r
    <2>2. \A u \in Tasks, d \in Cpus :
              ring'[u][d] = IF u = t /\ d = c THEN r ELSE ring[u][d]
      BY <1>0, <2>1, OneRing
    <2>3. QED
      BY <1>0, <2>2 DEF r
  <1>3. QED
    BY <1>0, <1>1, <1>2 DEF Closed, Ring

\* The capture ioctls and the hotplug callback open and close no ring.
LEMMA RestEffect ==
    ASSUME TypeOK, NEW t \in Tasks, NEW c \in Cpus, NEW u \in Tasks, NEW d \in Cpus,
           \/ \E on \in BOOLEAN : SetCapture(t, c, on)
           \/ \E e \in Cpus : CpuCallback(c, e)
    PROVE  /\ ring'[u][d].open = ring[u][d].open /\ ring'[u][d].buffer = ring[u][d].buffer
           /\ ring'[u][d].capture => ring[u][d].capture \/ ring[u][d].open
  <1>0. ring \in Rings /\ ring[t][c] \in Ring /\ ring[u][d] \in Ring /\ ring[u][c] \in Ring
    BY TypeParts DEF Rings
  <1>1. ASSUME NEW on \in BOOLEAN, SetCapture(t, c, on)
        PROVE  /\ ring'[u][d].open = ring[u][d].open /\ ring'[u][d].buffer = ring[u][d].buffer
               /\ ring'[u][d].capture => ring[u][d].capture \/ ring[u][d].open
    <2>1. /\ ring[t][c].open
          /\ ring'[u][d] = IF u = t /\ d = c THEN [ring[t][c] EXCEPT !.capture = on]
                                             ELSE ring[u][d]
      BY ONLY <1>0, <1>1, OneRing, SMTT(60) DEF SetCapture, HasFd
    <2>2. QED
      BY <1>0, <2>1 DEF Ring
  <1>2. ASSUME NEW up \in BOOLEAN, SetCpuOnline(c, up)
        PROVE  /\ ring'[u][d].open = ring[u][d].open /\ ring'[u][d].buffer = ring[u][d].buffer
               /\ ring'[u][d].capture => ring[u][d].capture \/ ring[u][d].open
    <2>1. \/ ring'[u][d] = ring[u][d]
          \/ d = c /\ ring'[u][d] = [ring[u][c] EXCEPT !.cpu_online = up]
      BY <1>0, <1>2 DEF SetCpuOnline, Rings
    <2>2. QED
      BY <1>0, <2>1 DEF Ring
  <1>3. QED
    BY <1>1, <1>2 DEF CpuCallback

\* Stages of a call that change no ring and leave the list alone.
LEMMA StageEffect ==
    ASSUME TypeOK
    PROVE  /\ OpenRefused \/ RegisterProbes \/ SynchronizeUnregister \/ ReleaseDone =>
                  op'.kind = "idle"
           /\ ListAdd => op'.kind = "open" /\ op'.task = op.task /\ op'.in_list
           /\ \A n \in 0 .. 4 : RegisterFails(n) =>
                  /\ op'.kind = "unwind" /\ op'.task = op.task /\ op'.cpu = op.cpu
                  /\ op'.in_list = op.in_list
           /\ Unlink => /\ op'.kind = IF op.kind = "unlink" THEN "free" ELSE "free_release"
                        /\ op'.task = op.task
           /\ StopCollection => op'.kind = "synchronize"
  <1>1. OpenRefused \/ RegisterProbes \/ SynchronizeUnregister \/ ReleaseDone => op'.kind = "idle"
    BY IdleKind DEF OpenRefused, RegisterProbes, SynchronizeUnregister, ReleaseDone
  <1>a. ASSUME ListAdd
        PROVE  op'.kind = "open" /\ op'.task = op.task /\ op'.in_list
    <2>1. op \in Call4 /\ op' = [op EXCEPT !.kind = "open", !.in_list = TRUE]
      BY <1>a, InCall DEF ListAdd
    <2>2. QED
      BY <2>1 DEF Call4
  <1>2. ASSUME NEW n \in 0 .. 4, RegisterFails(n)
        PROVE  /\ op'.kind = "unwind" /\ op'.task = op.task /\ op'.cpu = op.cpu
               /\ op'.in_list = op.in_list
    BY <1>2, InCall, GoesOn DEF RegisterFails, Kinds
  <1>3. ASSUME Unlink
        PROVE  /\ op'.kind = IF op.kind = "unlink" THEN "free" ELSE "free_release"
               /\ op'.task = op.task
    BY <1>3, InCall, GoesOn DEF Unlink, Kinds
  <1>4. ASSUME StopCollection
        PROVE  op'.kind = "synchronize"
    BY <1>4, InCall, GoesOn DEF StopCollection, Kinds
  <1>5. QED
    BY <1>a, <1>1, <1>2, <1>3, <1>4

---------------------------------------------------------------------------
\* Memory

\* The steps of the call that holds the mutex.
LEMMA MemCallStep ==
    ASSUME TypeOK, MemInv, DesertInv, CallStep
    PROVE  MemInv'
  <1>0. op.kind # "idle" => op \in Call4 /\ op.task \in Tasks /\ op.cpu \in Cpus
    BY InCall
  <1>a. CASE ListAdd
    <2>1. op'.kind = "open" /\ op'.task = op.task
      BY <1>a, StageEffect
    <2>2. QED
      BY <1>a, <2>1 DEF ListAdd, MemInv, Freeing, Busy
  <1>1. CASE OpenRefused \/ RegisterProbes
    BY <1>1, IdleKind DEF OpenRefused, RegisterProbes, MemInv, Freeing, Busy
  <1>2. CASE OpenRing
    <2>1. op'.kind = "idle" \/ (op'.kind = "register" /\ op'.task = op.task)
      BY <1>0, <1>2, IdleKind, GoesOn DEF OpenRing, Kinds
    <2>2. QED
      BY <1>2, <2>1 DEF OpenRing, MemInv, Freeing, Busy
  <1>3. ASSUME NEW n \in 0 .. 4, RegisterFails(n)
        PROVE  MemInv'
    <2>1. op'.kind = "unwind" /\ op'.task = op.task
      BY <1>0, <1>3, GoesOn DEF RegisterFails, Kinds
    <2>2. QED
      BY <1>3, <2>1 DEF RegisterFails, MemInv, Freeing, Busy
  <1>4. CASE Unwind
    <2>1. ~op.in_list => op.task \in deserted
      BY <1>4 DEF Unwind, DesertInv
    <2>2. \/ op'.kind = "idle"
          \/ op'.kind = "unlink" /\ op'.task = op.task
          \/ op'.kind = "free" /\ op'.task = op.task /\ ~op.in_list
      BY <1>4, UnwindEffect
    <2>3. op.task \in listed /\ UNCHANGED <<allocated, listed, deserted, probe, grace>>
      BY <1>4 DEF Unwind, MemInv, Busy
    <2>4. op.kind = "unwind"
      BY <1>4 DEF Unwind
    <2>5. QED
      BY <2>1, <2>2, <2>3, <2>4 DEF MemInv, Freeing, Busy
  <1>5. CASE Unlink
    <2>1. op'.kind \in {"free", "free_release"} /\ op'.task = op.task
      BY <1>0, <1>5, GoesOn DEF Unlink, Kinds
    <2>2. op.task \in listed /\ ~Freeing /\ allocated = listed
      BY <1>5 DEF Unlink, MemInv, Freeing, Busy
    <2>3. \A c \in Cpus : op.task \in probe[c].at => c \in grace'
      BY <1>5 DEF Unlink, MemInv
    <2>4. QED
      BY <1>5, <2>1, <2>2, <2>3 DEF Unlink, MemInv, Freeing, Busy
  <1>6. CASE Free
    <2>0. Freeing /\ op.kind # "undefined" /\ UNCHANGED <<listed, deserted, probe, grace>>
      BY <1>6 DEF Free, Freeing
    <2>1. CASE op.task \in listed
      <3>1. op'.kind = "undefined" /\ op'.task = op.task
        BY <1>6, <2>1, FreeEffect
      <3>2. op.task \in deserted /\ allocated' = listed \ {op.task}
        BY <1>6, <2>0, <2>1 DEF Free, MemInv
      <3>3. QED
        BY <2>0, <3>1, <3>2 DEF MemInv, Freeing, Busy
    <2>2. CASE op.task \notin listed
      <3>1. op'.kind \in {"idle", "stop"}
        BY <1>6, <2>2, FreeEffect
      <3>2. allocated' = listed /\ \A c \in Cpus : op.task \notin probe[c].at
        BY <1>6, <2>0, <2>2 DEF Free, GracePeriodOver, MemInv
      <3>3. \A c \in Cpus : probe[c].at \subseteq listed
        BY <2>0, <3>2 DEF MemInv
      <3>4. QED
        BY <2>0, <3>1, <3>2, <3>3 DEF MemInv, Freeing, Busy
    <2>3. QED
      BY <2>1, <2>2
  <1>7. CASE StopCollection
    <2>1. op'.kind = "synchronize"
      BY <1>0, <1>7, GoesOn DEF StopCollection, Kinds
    <2>2. QED
      BY <1>7, <2>1 DEF StopCollection, MemInv, Freeing, Busy
  <1>8. CASE SynchronizeUnregister \/ ReleaseDone
    BY <1>8, IdleKind DEF SynchronizeUnregister, ReleaseDone, MemInv, Freeing, Busy
  <1>9. QED
    BY <1>a, <1>1, <1>2, <1>3, <1>4, <1>5, <1>6, <1>7, <1>8 DEF CallStep

\* The calls, the probes and hotplug.
LEMMA MemOthers ==
    ASSUME TypeOK, MemInv, NEW t \in Tasks, NEW c \in Cpus, NEW d \in Cpus,
           \/ Call(t, c) \/ ProbeVisit(c, t) \/ ProbeEnter(c) \/ ProbeLeave(c) \/ CpuMask(c)
           \/ CpuCallback(c, d)
    PROVE  MemInv'
  <1>0. /\ probe \in [Cpus -> Walks]
        /\ \A e \in Cpus : probe[e] \in Walks
    BY TypeParts
  <1>1. CASE OpenNew(t, c)
    <2>1. ~Freeing /\ ~Freeing' /\ op.kind = "idle" /\ op'.kind = "add" /\ op'.task = t
      BY <1>1, IdleKind DEF OpenNew, Freeing
    <2>2. QED
      BY <1>1, <2>1 DEF OpenNew, MemInv, Busy
  <1>2. CASE OpenNewFails(t, c)
    <2>1. ~Freeing /\ Freeing' /\ op.kind = "idle" /\ op'.task = t /\ op'.kind = "free"
      BY <1>2, IdleKind DEF OpenNewFails, AfterFailedInit, Freeing
    <2>2. QED
      BY <1>2, <2>1 DEF OpenNewFails, MemInv, Busy
  <1>3. CASE OpenExisting(t, c) \/ Release(t, c)
    <2>1. /\ ~Freeing /\ ~Freeing' /\ op'.task = t /\ t \in listed
          /\ op.kind = "idle" /\ op'.kind \notin {"add", "undefined"}
      BY <1>3, IdleKind DEF OpenExisting, Release, Freeing
    <2>2. QED
      BY <1>3, <2>1 DEF OpenExisting, Release, MemInv
  <1>4. ASSUME NEW on \in BOOLEAN,
               \/ SetCapture(t, c, on) \/ SetSignalDeliver(t, c, on) \/ EnablePageFaults(t, c, on)
        PROVE  MemInv'
    BY <1>4 DEF SetCapture, SetSignalDeliver, EnablePageFaults, MemInv, Freeing
  <1>5. CASE ProbeVisit(c, t)
    <2>1. /\ probe'[c].at = {t} /\ probe'[c].in
          /\ \A e \in Cpus \ {c} : probe'[e] = probe[e]
      BY <1>0, <1>5 DEF ProbeVisit, WalkedTo, Walks
    <2>2. QED
      BY <1>5, <2>1 DEF ProbeVisit, MemInv, Freeing
  <1>6. CASE ProbeEnter(c)
    <2>1. probe'[c].at = {} /\ probe'[c].in /\ \A e \in Cpus \ {c} : probe'[e] = probe[e]
      BY <1>0, <1>6 DEF ProbeEnter
    <2>2. QED
      BY <1>6, <2>1 DEF ProbeEnter, MemInv, Freeing
  <1>7. CASE ProbeLeave(c)
    <2>1. probe'[c].at = {} /\ \A e \in Cpus \ {c} : probe'[e] = probe[e]
      BY <1>0, <1>7 DEF ProbeLeave, Outside
    <2>2. QED
      BY <1>7, <2>1 DEF ProbeLeave, MemInv, Freeing
  <1>8. CASE CpuMask(c)
    BY <1>8 DEF CpuMask, MemInv, Freeing
  <1>9. CASE CpuCallback(c, d)
    <2>1. probe'[d].at = {} /\ probe'[d].in /\ ~probe[d].in
          /\ \A e \in Cpus \ {d} : probe'[e] = probe[e]
      BY <1>0, <1>9 DEF CpuCallback
    <2>2. QED
      BY <1>9, <2>1 DEF CpuCallback, MemInv, Freeing
  <1>10. QED
    BY <1>1, <1>2, <1>3, <1>4, <1>5, <1>6, <1>7, <1>8, <1>9 DEF Call

---------------------------------------------------------------------------
\* Rings

\* The steps of the call that holds the mutex.
LEMMA RingCallStep ==
    ASSUME TypeOK, MemInv, RingInv, CallStep
    PROVE  RingInv'
  <1>0. op.kind # "idle" => op.task \in Tasks /\ op.cpu \in Cpus
    BY InCall
  <1>a. CASE ListAdd
    BY <1>a, StageEffect DEF ListAdd, RingInv
  <1>1. CASE OpenRefused \/ RegisterProbes \/ SynchronizeUnregister \/ ReleaseDone
    <2>1. op'.kind = "idle"
      BY <1>1, StageEffect
    <2>2. QED
      BY <1>1, <2>1
         DEF OpenRefused, RegisterProbes, SynchronizeUnregister, ReleaseDone, RingInv
  <1>2. CASE OpenRing
    <2>1. op.task \in listed
      BY <1>2 DEF OpenRing, MemInv, Busy
    <2>2. QED
      <3>1. UNCHANGED listed
        BY <1>2 DEF OpenRing
      <3>2. /\ op.task \in Tasks /\ op.cpu \in Cpus
            /\ op'.kind = "idle" \/ (op'.kind = "register" /\ op'.task = op.task /\ op'.cpu = op.cpu)
            /\ ring'[op.task][op.cpu].open /\ ~ring'[op.task][op.cpu].capture
            /\ ring'[op.task][op.cpu].buffer
            /\ \A u \in Tasks, d \in Cpus :
                   ~(u = op.task /\ d = op.cpu) => ring'[u][d] = ring[u][d]
        BY <1>2, OpenRingEffect
      <3>3. QED
        BY <2>1, <3>1, <3>2 DEF RingInv
  <1>3. ASSUME NEW n \in 0 .. 4, RegisterFails(n)
        PROVE  RingInv'
    BY <1>3, StageEffect DEF RegisterFails, RingInv
  <1>4. CASE Unwind
    <2>1. UNCHANGED listed /\ op.kind = "unwind"
      BY <1>4 DEF Unwind
    <2>2. ~ring[op.task][op.cpu].capture
      BY <2>1 DEF RingInv
    <2>3. QED
      BY <1>4, <2>1, <2>2, UnwindEffect DEF RingInv
  <1>5. CASE Unlink
    BY <1>0, <1>5, StageEffect DEF Unlink, RingInv
  <1>6. CASE Free
    <2>1. UNCHANGED listed /\ op'.kind \in {"idle", "stop", "undefined"}
      BY <1>6, FreeEffect DEF Free
    <2>2. /\ op.task \in Tasks /\ (op'.kind = "undefined" => op'.task = op.task)
          /\ \A u \in Tasks, d \in Cpus :
                 IF u = op.task THEN ~ring'[u][d].open /\ ~ring'[u][d].capture
                                ELSE ring'[u][d] = ring[u][d]
      BY <1>6, FreeEffect
    <2>3. QED
      BY <2>1, <2>2 DEF RingInv
  <1>7. CASE StopCollection
    BY <1>7, StageEffect DEF StopCollection, RingInv
  <1>8. QED
    BY <1>a, <1>1, <1>2, <1>3, <1>4, <1>5, <1>6, <1>7 DEF CallStep

\* The calls, the probes and hotplug.
LEMMA RingOthers ==
    ASSUME TypeOK, RingInv, NEW t \in Tasks, NEW c \in Cpus, NEW d \in Cpus,
           \/ Call(t, c) \/ ProbeVisit(c, t) \/ ProbeEnter(c) \/ ProbeLeave(c) \/ CpuMask(c)
           \/ CpuCallback(c, d)
    PROVE  RingInv'
  <1>1. CASE OpenNew(t, c)
    <2>1. UNCHANGED listed
      BY <1>1 DEF OpenNew
    <2>2. QED
      BY <1>1, <2>1, OpenNewEffect DEF RingInv
  <1>2. CASE OpenNewFails(t, c)
    BY <1>2 DEF OpenNewFails, AfterFailedInit, RingInv
  <1>3. CASE OpenExisting(t, c)
    BY <1>3 DEF OpenExisting, RingInv
  <1>4. CASE Release(t, c)
    <2>1. UNCHANGED listed
      BY <1>4 DEF Release
    <2>2. QED
      BY <1>4, <2>1, ReleaseEffect DEF RingInv
  <1>5. ASSUME \/ \E on \in BOOLEAN : SetCapture(t, c, on)
               \/ CpuCallback(c, d)
        PROVE  RingInv'
    <2>1. \A u \in Tasks, e \in Cpus :
              /\ ring'[u][e].open = ring[u][e].open /\ ring'[u][e].buffer = ring[u][e].buffer
              /\ ring'[u][e].capture => ring[u][e].capture \/ ring[u][e].open
      BY <1>5, RestEffect
    <2>2. UNCHANGED <<op, listed>> /\ (op.kind # "idle" => op.task \in Tasks /\ op.cpu \in Cpus)
      BY <1>5, InCall DEF SetCapture, CpuCallback
    <2>3. op.kind \in {"register", "unwind"} => ~ring'[op.task][op.cpu].capture
      <3>1. CASE \E on \in BOOLEAN : SetCapture(t, c, on)
        BY <3>1, IdleKind DEF SetCapture, HasFd
      <3>2. ASSUME NEW up \in BOOLEAN, SetCpuOnline(c, up), op.kind \in {"register", "unwind"}
            PROVE  ~ring'[op.task][op.cpu].capture
        <4>1. /\ op.task \in Tasks /\ op.cpu \in Cpus /\ ring \in Rings
              /\ ring[op.task][op.cpu] \in Ring /\ ~ring[op.task][op.cpu].capture
          BY <2>2, <3>2, TypeParts DEF Rings, RingInv
        <4>2. \/ ring'[op.task][op.cpu] = ring[op.task][op.cpu]
              \/ ring'[op.task][op.cpu] = [ring[op.task][op.cpu] EXCEPT !.cpu_online = up]
          BY <3>2, <4>1, ZenonT(60) DEF SetCpuOnline, Rings
        <4>3. QED
          BY <4>1, <4>2 DEF Ring
      <3>3. QED
        BY <1>5, <3>1, <3>2, ZenonT(60) DEF CpuCallback
    <2>4. QED
      BY <2>1, <2>2, <2>3 DEF RingInv
  <1>6. CASE \/ \E on \in BOOLEAN : SetSignalDeliver(t, c, on) \/ EnablePageFaults(t, c, on)
             \/ ProbeVisit(c, t) \/ ProbeEnter(c) \/ ProbeLeave(c) \/ CpuMask(c)
    BY <1>6 DEF SetSignalDeliver, EnablePageFaults, ProbeVisit, ProbeEnter, ProbeLeave, CpuMask,
                RingInv
  <1>7. QED
    BY <1>1, <1>2, <1>3, <1>4, <1>5, <1>6 DEF Call

---------------------------------------------------------------------------
\* Flags

\* The steps of the call that holds the mutex.
LEMMA FlagCallStep ==
    ASSUME TypeOK, MemInv, RingInv, FlagInv, CallStep
    PROVE  FlagInv'
  <1>0. op.kind # "idle" => op.task \in Tasks /\ op.cpu \in Cpus
    BY InCall
  <1>a. CASE ListAdd
    BY <1>a, StageEffect DEF ListAdd, FlagInv
  <1>1. CASE OpenRefused \/ ReleaseDone
    BY <1>1, StageEffect DEF OpenRefused, ReleaseDone, FlagInv
  <1>2. CASE RegisterProbes
    BY <1>2, StageEffect DEF RegisterProbes, FlagInv
  <1>3. CASE SynchronizeUnregister
    BY <1>3, StageEffect DEF SynchronizeUnregister, FlagInv, RingInv
  <1>4. CASE OpenRing
    BY <1>4, OpenRingEffect DEF OpenRing, FlagInv
  <1>5. ASSUME NEW n \in 0 .. 4, RegisterFails(n)
        PROVE  FlagInv'
    BY <1>5, StageEffect DEF RegisterFails, FlagInv
  <1>6. CASE Unwind
    BY <1>6, UnwindEffect DEF Unwind, FlagInv
  <1>7. CASE Unlink
    BY <1>7, StageEffect DEF Unlink, FlagInv
  <1>8. CASE Free
    BY <1>8, FreeEffect DEF Free, FlagInv
  <1>9. CASE StopCollection
    BY <1>9, StageEffect DEF StopCollection, FaultFlagAfterStop, FlagInv
  <1>10. QED
    BY <1>a, <1>1, <1>2, <1>3, <1>4, <1>5, <1>6, <1>7, <1>8, <1>9 DEF CallStep

\* The calls, the probes and hotplug.
LEMMA FlagOthers ==
    ASSUME TypeOK, RingInv, FlagInv, NEW t \in Tasks, NEW c \in Cpus, NEW d \in Cpus,
           \/ Call(t, c) \/ ProbeVisit(c, t) \/ ProbeEnter(c) \/ ProbeLeave(c) \/ CpuMask(c)
           \/ CpuCallback(c, d)
    PROVE  FlagInv'
  <1>1. CASE OpenNew(t, c)
    <2>1. /\ op.kind = "idle"
          /\ UNCHANGED <<g_tracepoint_registered, g_fault_tracepoint_registered>>
      BY <1>1, IdleKind DEF OpenNew
    <2>2. QED
      BY <1>1, <2>1, OpenNewEffect DEF FlagInv
  <1>2. CASE OpenNewFails(t, c)
    BY <1>2, IdleKind DEF OpenNewFails, AfterFailedInit, FlagInv
  <1>3. CASE OpenExisting(t, c)
    BY <1>3, IdleKind DEF OpenExisting, FlagInv
  <1>4. CASE Release(t, c)
    BY <1>4, ReleaseEffect, IdleKind DEF Release, FlagInv
  <1>5. ASSUME \/ \E on \in BOOLEAN : SetCapture(t, c, on)
               \/ CpuCallback(c, d)
        PROVE  FlagInv'
    <2>1. \A u \in Tasks, e \in Cpus : ring'[u][e].open = ring[u][e].open
      BY <1>5, RestEffect
    <2>2. UNCHANGED <<op, listed, g_tracepoint_registered, g_fault_tracepoint_registered>>
      BY <1>5 DEF SetCapture, CpuCallback
    <2>3. QED
      BY <2>1, <2>2 DEF FlagInv
  <1>6. ASSUME NEW on \in BOOLEAN, EnablePageFaults(t, c, on)
        PROVE  FlagInv'
    <2>1. g_tracepoint_registered
      BY <1>6, IdleKind DEF EnablePageFaults, HasFd, FlagInv
    <2>2. QED
      BY <1>6, <2>1, IdleKind DEF EnablePageFaults, HasFd, FlagInv
  <1>7. CASE \/ \E on \in BOOLEAN : SetSignalDeliver(t, c, on)
             \/ ProbeVisit(c, t) \/ ProbeEnter(c) \/ ProbeLeave(c) \/ CpuMask(c)
    BY <1>7 DEF SetSignalDeliver, ProbeVisit, ProbeEnter, ProbeLeave, CpuMask, FlagInv
  <1>8. QED
    BY <1>1, <1>2, <1>3, <1>4, <1>5, <1>6, <1>7 DEF Call

---------------------------------------------------------------------------
\* Probes

\* The tracepoints ppm_open attaches are not the page-fault ones.
LEMMA BaseNames ==
    /\ BaseSet = {"sys_exit", "sys_enter", "sched_process_exit", "sched_switch", "signal_deliver"}
    /\ BaseSet \cap Faults = {}
    /\ \A n \in 0 .. 4 : RegisterTo(n) \subseteq BaseSet
  <1>1. /\ Base[1] = "sys_exit" /\ Base[2] = "sys_enter" /\ Base[3] = "sched_process_exit"
        /\ Base[4] = "sched_switch" /\ Base[5] = "signal_deliver"
    BY DEF Base
  <1>2. 1 .. 5 = {1, 2, 3, 4, 5}
    OBVIOUS
  <1>3. BaseSet = {"sys_exit", "sys_enter", "sched_process_exit", "sched_switch", "signal_deliver"}
    BY <1>1, <1>2 DEF BaseSet
  <1>4. BaseSet \cap Faults = {}
    BY <1>3 DEF Faults
  <1>5. QED
    BY <1>3, <1>4 DEF RegisterTo, BaseSet

\* The steps of the call that holds the mutex.
LEMMA ProbeCallStep ==
    ASSUME TypeOK, FlagInv, ProbeInv, CallStep
    PROVE  ProbeInv'
  <1>0. /\ registered \subseteq BaseSet \cup Faults
        /\ g_tracepoint_registered \in BOOLEAN /\ g_fault_tracepoint_registered \in BOOLEAN
    BY DEF TypeOK
  <1>a. CASE ListAdd
    BY <1>a, StageEffect DEF ListAdd, ProbeInv
  <1>1. CASE OpenRefused \/ ReleaseDone
    BY <1>1, StageEffect DEF OpenRefused, ReleaseDone, ProbeInv
  <1>2. CASE RegisterProbes
    <2>1. op'.kind = "idle" /\ registered' = registered \cup BaseSet /\ g_tracepoint_registered'
      BY <1>2, StageEffect DEF RegisterProbes
    <2>2. QED
      BY <1>2, <2>1, BaseNames DEF RegisterProbes, ProbeInv
  <1>3. CASE SynchronizeUnregister
    BY <1>3, StageEffect DEF SynchronizeUnregister, ProbeInv
  <1>4. CASE OpenRing
    <2>1. op'.kind \in {"idle", "register"} /\ op.kind = "open"
      BY <1>4, OpenRingEffect DEF OpenRing
    <2>2. QED
      BY <1>4, <2>1 DEF OpenRing, ProbeInv
  <1>5. ASSUME NEW n \in 0 .. 4, RegisterFails(n)
        PROVE  ProbeInv'
    <2>1. /\ op.kind = "register" /\ op'.kind = "unwind" /\ RegisterTo(n) \subseteq BaseSet
          /\ registered = {} /\ ~g_fault_tracepoint_registered
      BY <1>5, StageEffect, BaseNames DEF RegisterFails, ProbeInv, FlagInv
    <2>2. QED
      BY <1>5, <2>1, BaseNames DEF RegisterFails, ProbeInv
  <1>6. CASE Unwind
    <2>1. /\ op.kind = "unwind" /\ op'.kind \in {"idle", "unlink", "free"}
          /\ ~g_tracepoint_registered /\ ~g_fault_tracepoint_registered
      BY <1>6, UnwindEffect DEF Unwind, FlagInv
    <2>2. registered' = {}
      BY <1>6, <2>1 DEF Unwind, Detached, ProbeInv
    <2>3. QED
      BY <1>6, <2>1, <2>2 DEF Unwind, ProbeInv
  <1>7. CASE Unlink
    BY <1>7, StageEffect DEF Unlink, ProbeInv
  <1>8. CASE Free
    <2>1. op'.kind \in {"idle", "stop", "undefined"}
      BY <1>8, FreeEffect
    <2>2. QED
      BY <1>8, <2>1 DEF Free, ProbeInv
  <1>9. CASE StopCollection
    <2>1. op'.kind = "synchronize" /\ ~g_fault_tracepoint_registered'
      BY <1>9, StageEffect DEF StopCollection, FaultFlagAfterStop
    <2>2. registered' = {}
      BY <1>0, <1>9 DEF StopCollection, ProbeInv
    <2>3. QED
      BY <2>1, <2>2 DEF ProbeInv
  <1>10. QED
    BY <1>a, <1>1, <1>2, <1>3, <1>4, <1>5, <1>6, <1>7, <1>8, <1>9 DEF CallStep

\* The calls, the probes and hotplug.
LEMMA ProbeOthers ==
    ASSUME TypeOK, RingInv, FlagInv, ProbeInv, NEW t \in Tasks, NEW c \in Cpus, NEW d \in Cpus,
           \/ Call(t, c) \/ ProbeVisit(c, t) \/ ProbeEnter(c) \/ ProbeLeave(c) \/ CpuMask(c)
           \/ CpuCallback(c, d)
    PROVE  ProbeInv'
  <1>1. CASE OpenNew(t, c) \/ OpenNewFails(t, c) \/ OpenExisting(t, c) \/ Release(t, c)
    <2>1. /\ op.kind = "idle" /\ op'.kind \notin {"unwind", "synchronize"}
          /\ UNCHANGED <<registered, g_tracepoint_registered, g_fault_tracepoint_registered>>
      <3>1. CASE OpenNew(t, c)
        BY <3>1, IdleKind, ZenonT(60) DEF OpenNew
      <3>2. CASE OpenNewFails(t, c)
        BY <3>2, IdleKind DEF OpenNewFails, AfterFailedInit
      <3>3. CASE OpenExisting(t, c)
        BY <3>3, IdleKind DEF OpenExisting
      <3>4. CASE Release(t, c)
        BY <3>4, IdleKind DEF Release
      <3>5. QED
        BY <1>1, <3>1, <3>2, <3>3, <3>4
    <2>2. QED
      BY <2>1 DEF ProbeInv
  <1>2. ASSUME NEW on \in BOOLEAN, SetSignalDeliver(t, c, on) \/ EnablePageFaults(t, c, on)
        PROVE  ProbeInv'
    <2>1. op.kind = "idle" /\ UNCHANGED <<op, g_tracepoint_registered>> /\ g_tracepoint_registered
      BY <1>2, IdleKind DEF SetSignalDeliver, EnablePageFaults, HasFd, FlagInv
    <2>2. CASE SetSignalDeliver(t, c, on)
      BY <2>1, <2>2, BaseNames DEF SetSignalDeliver, ProbeInv, Faults
    <2>3. CASE EnablePageFaults(t, c, on)
      BY <2>1, <2>3, BaseNames DEF EnablePageFaults, ProbeInv, Faults
    <2>4. QED
      BY <1>2, <2>2, <2>3
  <1>3. CASE \/ \E on \in BOOLEAN : SetCapture(t, c, on)
             \/ ProbeVisit(c, t) \/ ProbeEnter(c) \/ ProbeLeave(c) \/ CpuMask(c) \/ CpuCallback(c, d)
    <2>1. UNCHANGED <<op, registered, g_tracepoint_registered, g_fault_tracepoint_registered>>
      BY <1>3, ZenonT(60) DEF SetCapture, ProbeVisit, ProbeEnter, ProbeLeave, CpuMask, CpuCallback
    <2>2. QED
      BY <2>1 DEF ProbeInv
  <1>4. QED
    BY <1>1, <1>2, <1>3 DEF Call

---------------------------------------------------------------------------
\* Consumers left behind

\* The steps of the call that holds the mutex.
LEMMA DesertCallStep ==
    ASSUME TypeOK, MemInv, RingInv, FlagInv, DesertInv, CallStep
    PROVE  DesertInv'
  <1>0. op.kind # "idle" => op.task \in Tasks /\ op.cpu \in Cpus
    BY InCall
  <1>a. listed \subseteq Tasks
    BY DEF TypeOK
  <1>b. CASE ListAdd
    <2>1. /\ op'.kind = "open" /\ op'.task = op.task /\ op'.in_list /\ op.kind = "add"
          /\ listed' = listed \cup {op.task} /\ UNCHANGED <<ring, deserted>>
      BY <1>b, StageEffect DEF ListAdd
    <2>2. QED
      BY <2>1 DEF DesertInv, Busy
  <1>1. CASE OpenRefused
    <2>1. /\ op'.kind = "idle" /\ op.kind = "open" /\ UNCHANGED <<listed, ring>>
          /\ deserted \subseteq deserted' /\ (op.in_list => op.task \in deserted')
      BY <1>1, StageEffect DEF OpenRefused
    <2>2. QED
      BY <2>1 DEF DesertInv, Busy
  <1>2. CASE RegisterProbes
    <2>1. /\ op'.kind = "idle" /\ op.kind = "register" /\ UNCHANGED <<listed, ring>>
          /\ deserted' = deserted \ {op.task}
      BY <1>2, StageEffect DEF RegisterProbes
    <2>2. ring[op.task][op.cpu].open /\ op.cpu \in Cpus
      BY <1>0, <2>1 DEF RingInv
    <2>3. QED
      BY <2>1, <2>2 DEF DesertInv, Busy
  <1>3. CASE OpenRing
    <2>1. /\ UNCHANGED listed /\ op.kind = "open"
          /\ deserted' = IF g_tracepoint_registered THEN deserted \ {op.task} ELSE deserted
      BY <1>3 DEF OpenRing
    <2>2. \A t \in listed : (\E c \in Cpus : ring[t][c].open) => \E c \in Cpus : ring'[t][c].open
      BY <1>a, <1>3, OpenRingEffect
    <2>3. \E c \in Cpus : ring'[op.task][c].open
      BY <1>3, OpenRingEffect
    <2>4. IF g_tracepoint_registered
          THEN op'.kind = "idle"
          ELSE op'.kind = "register" /\ op'.task = op.task /\ op'.in_list = op.in_list
      BY <1>3, OpenRingEffect
    <2>5. ~g_tracepoint_registered /\ ~op.in_list => op.task \in deserted
      BY <1>0, <2>1 DEF FlagInv, DesertInv
    <2>6. QED
      BY <2>1, <2>2, <2>3, <2>4, <2>5 DEF DesertInv
  <1>4. ASSUME NEW n \in 0 .. 4, RegisterFails(n)
        PROVE  DesertInv'
    <2>1. /\ op'.kind = "unwind" /\ op'.task = op.task /\ op'.in_list = op.in_list
          /\ op.kind = "register" /\ UNCHANGED <<listed, ring, deserted>>
      BY <1>4, StageEffect DEF RegisterFails
    <2>2. QED
      BY <2>1 DEF DesertInv, Busy
  <1>5. CASE Unwind
    <2>1. op.kind = "unwind" /\ UNCHANGED <<listed, deserted>>
      BY <1>5 DEF Unwind
    <2>2. ~op.in_list => op.task \in deserted
      BY <2>1 DEF DesertInv
    <2>3. \/ op'.kind = "idle" /\ \E d \in Cpus : ring'[op.task][d].open
          \/ op'.kind = "unlink" /\ op'.task = op.task
          \/ op'.kind = "free" /\ ~op.in_list
      BY <1>5, UnwindEffect
    <2>4. \A t \in listed \ {op.task} :
              (\E c \in Cpus : ring[t][c].open) => \E c \in Cpus : ring'[t][c].open
      BY <1>a, <1>5, UnwindEffect
    <2>5. QED
      BY <2>1, <2>2, <2>3, <2>4 DEF DesertInv, Busy
  <1>6. CASE Unlink
    <2>1. /\ op'.kind \in {"free", "free_release"} /\ op'.task = op.task
          /\ listed' = listed \ {op.task} /\ UNCHANGED <<ring, deserted>>
      BY <1>6, StageEffect DEF Unlink
    <2>2. QED
      BY <2>1 DEF DesertInv
  <1>7. CASE Free
    <2>1. /\ op'.kind \in {"idle", "stop", "undefined"} /\ UNCHANGED <<listed, deserted>>
          /\ op.kind \in {"free", "free_release"} /\ (op.task \in listed => op.task \in deserted)
      BY <1>7, FreeEffect DEF Free, MemInv, Freeing
    <2>2. \A t \in listed \ {op.task} :
              (\E c \in Cpus : ring[t][c].open) => \E c \in Cpus : ring'[t][c].open
      BY <1>a, <1>7, FreeEffect
    <2>3. QED
      BY <2>1, <2>2 DEF DesertInv, Busy
  <1>8. CASE StopCollection \/ SynchronizeUnregister \/ ReleaseDone
    <2>1. /\ op'.kind \in {"synchronize", "idle"} /\ op.kind \in {"stop", "synchronize"}
          /\ UNCHANGED <<listed, ring, deserted>>
      BY <1>8, StageEffect DEF StopCollection, SynchronizeUnregister, ReleaseDone
    <2>2. QED
      BY <2>1 DEF DesertInv, Busy
  <1>9. QED
    BY <1>b, <1>1, <1>2, <1>3, <1>4, <1>5, <1>6, <1>7, <1>8 DEF CallStep

\* The calls, the probes and hotplug.
LEMMA DesertOthers ==
    ASSUME TypeOK, DesertInv, NEW t \in Tasks, NEW c \in Cpus, NEW d \in Cpus,
           \/ Call(t, c) \/ ProbeVisit(c, t) \/ ProbeEnter(c) \/ ProbeLeave(c) \/ CpuMask(c)
           \/ CpuCallback(c, d)
    PROVE  DesertInv'
  <1>a. listed \subseteq Tasks
    BY DEF TypeOK
  <1>1. CASE OpenNew(t, c)
    <2>1. op.kind = "idle" /\ t \notin listed /\ UNCHANGED <<listed, deserted>>
      BY <1>1, IdleKind DEF OpenNew
    <2>2. \A u \in listed : (\E e \in Cpus : ring[u][e].open) => \E e \in Cpus : ring'[u][e].open
      BY <1>a, <1>1, <2>1, OpenNewEffect
    <2>3. op'.kind = "add"
      BY <1>1, OpenNewEffect
    <2>4. QED
      BY <2>1, <2>2, <2>3 DEF DesertInv, Busy
  <1>2. CASE OpenNewFails(t, c)
    BY <1>2, IdleKind DEF OpenNewFails, AfterFailedInit, DesertInv, Busy
  <1>3. CASE OpenExisting(t, c)
    BY <1>3, IdleKind DEF OpenExisting, DesertInv, Busy
  <1>4. CASE Release(t, c)
    <2>1. op.kind = "idle" /\ UNCHANGED <<listed, deserted>>
      BY <1>4, IdleKind DEF Release
    <2>2. \A u \in listed \ {t} :
              (\E e \in Cpus : ring[u][e].open) => \E e \in Cpus : ring'[u][e].open
      BY <1>a, <1>4, ReleaseEffect
    <2>3. /\ op'.kind \in {"stop", "unlink_release"} /\ op'.task = t
          /\ op'.kind = "stop" => \E e \in Cpus : ring'[t][e].open
      BY <1>4, ReleaseEffect
    <2>4. QED
      BY <2>1, <2>2, <2>3 DEF DesertInv, Busy
  <1>5. ASSUME (\E on \in BOOLEAN : SetCapture(t, c, on)) \/ CpuCallback(c, d)
        PROVE  DesertInv'
    <2>1. UNCHANGED <<listed, op, deserted>> /\ (op.kind # "idle" => op.task \in Tasks)
      BY <1>5, InCall DEF SetCapture, CpuCallback
    <2>2. \A u \in Tasks, e \in Cpus : ring'[u][e].open = ring[u][e].open
      BY <1>5, RestEffect
    <2>3. QED
      BY <1>a, <2>1, <2>2 DEF DesertInv
  <1>6. CASE \/ \E on \in BOOLEAN : SetSignalDeliver(t, c, on) \/ EnablePageFaults(t, c, on)
             \/ ProbeVisit(c, t) \/ ProbeEnter(c) \/ ProbeLeave(c) \/ CpuMask(c)
    <2>1. UNCHANGED <<listed, op, ring, deserted>>
      BY <1>6 DEF SetSignalDeliver, EnablePageFaults, ProbeVisit, ProbeEnter, ProbeLeave, CpuMask
    <2>2. QED
      BY <2>1 DEF DesertInv
  <1>7. QED
    BY <1>1, <1>2, <1>3, <1>4, <1>5, <1>6 DEF Call

---------------------------------------------------------------------------
\* The limit

\* max_consumers is a number, the list is finite, and there is room for the consumer
\* that is about to be added.
LimitInv ==
    /\ use \in Uses /\ IsFiniteSet(listed) /\ ConsumerLimit
    /\ op.kind = "add" => RoomForConsumer /\ op.task \notin listed

\* Only ppm_open adds to the list, and only below the limit.
LEMMA LimitStep ==
    ASSUME TypeOK, LimitInv, [Next]_vars
    PROVE  LimitInv'
  <1>0. IsFiniteSet(listed) /\ Cardinality(listed) \in Nat /\ use.limit \in Nat
    BY FS_CardinalityType, ConsumerAssumption DEF LimitInv, Use
  <1>1. CASE ListAdd
    <2>1. op.task \notin listed /\ Cardinality(listed) < use.limit /\ UNCHANGED use
      BY <1>1 DEF ListAdd, LimitInv, RoomForConsumer
    <2>2. IsFiniteSet(listed') /\ Cardinality(listed') = Cardinality(listed) + 1
      BY <1>0, <1>1, <2>1, FS_AddElement DEF ListAdd
    <2>3. op' = [op EXCEPT !.kind = "open", !.in_list = TRUE] /\ op \in Call4
      BY <1>1, InCall DEF ListAdd
    <2>4. op'.kind = "open"
      BY <2>3 DEF Call4
    <2>5. QED
      BY <1>0, <2>1, <2>2, <2>4 DEF LimitInv, ConsumerLimit
  <1>2. ASSUME NEW t, listed' = listed \ {t}, UNCHANGED use, op'.kind # "add"
        PROVE  LimitInv'
    <2>1. IsFiniteSet(listed') /\ Cardinality(listed') \in Nat
      BY <1>0, <1>2, FS_RemoveElement, FS_CardinalityType
    <2>2. Cardinality(listed') <= Cardinality(listed)
      BY <1>0, <1>2, <2>1, FS_RemoveElement
    <2>3. QED
      BY <1>0, <1>2, <2>1, <2>2 DEF LimitInv, ConsumerLimit
  <1>3. ASSUME UNCHANGED <<use, listed>>, UNCHANGED op \/ op'.kind # "add"
        PROVE  LimitInv'
    BY <1>3 DEF LimitInv, ConsumerLimit, RoomForConsumer
  <1>4. ASSUME NEW t \in Tasks, NEW c \in Cpus, Call(t, c)
        PROVE  LimitInv'
    <2>1. CASE OpenNew(t, c)
      <3>1. op'.task = t /\ t \notin listed /\ RoomForConsumer /\ UNCHANGED <<use, listed>>
        BY <2>1 DEF OpenNew
      <3>2. QED
        BY <3>1 DEF LimitInv, ConsumerLimit, RoomForConsumer
    <2>2. CASE OpenNewFails(t, c) \/ OpenExisting(t, c) \/ Release(t, c)
      <3>1. UNCHANGED <<use, listed>> /\ op'.kind # "add"
        BY <2>2 DEF OpenNewFails, AfterFailedInit, OpenExisting, Release
      <3>2. QED
        BY <1>3, <3>1
    <2>3. QED
      BY <1>3, <1>4, <2>1, <2>2 DEF Call, SetCapture, SetSignalDeliver, EnablePageFaults
  <1>5. CASE CallStep
    <2>1. CASE \/ OpenRefused \/ RegisterProbes \/ SynchronizeUnregister \/ ReleaseDone
               \/ StopCollection \/ \E n \in 0 .. 4 : RegisterFails(n)
      <3>1. op'.kind # "add"
        BY <2>1, StageEffect
      <3>2. UNCHANGED <<use, listed>>
        BY <2>1 DEF OpenRefused, RegisterProbes, SynchronizeUnregister, ReleaseDone,
                    StopCollection, RegisterFails
      <3>3. QED
        BY <1>3, <3>1, <3>2
    <2>2. CASE OpenRing \/ Unwind \/ Free
      <3>1. op'.kind # "add"
        BY <2>2, OpenRingEffect, UnwindEffect, FreeEffect
      <3>2. UNCHANGED <<use, listed>>
        BY <2>2 DEF OpenRing, Unwind, Free
      <3>3. QED
        BY <1>3, <3>1, <3>2
    <2>3. CASE Unlink
      <3>1. op'.kind # "add"
        BY <2>3, StageEffect
      <3>2. QED
        BY <1>2, <2>3, <3>1 DEF Unlink
    <2>4. QED
      BY <1>1, <1>5, <2>1, <2>2, <2>3 DEF CallStep
  <1>6. QED
    BY <1>3, <1>4, <1>5
       DEF Next, vars, ProbeVisit, ProbeEnter, ProbeLeave, CpuMask, CpuCallback

\* max_consumers is never exceeded, for any number of threads and CPUs, with calls
\* that fail and CPUs that come and go.
THEOREM ConsumersLimited == Spec => []ConsumerLimit
  <1>1. Init => LimitInv
    <2>1. ASSUME Init
          PROVE  use \in Uses /\ listed = {} /\ use.limit \in Nat /\ op.kind = "idle"
      BY <2>1, ConsumerAssumption, IdleKind DEF Init, Use
    <2>2. QED
      BY <2>1, FS_EmptySet DEF LimitInv, ConsumerLimit
  <1>2. LimitInv => ConsumerLimit
    BY DEF LimitInv
  <1>3. QED
    BY <1>1, <1>2, LimitStep, ConsumersTyped, PTL DEF Spec

---------------------------------------------------------------------------
\* The theorems

\* The first state.
LEMMA InvInit ==
    ASSUME Init
    PROVE  IInv
  <1>1. /\ use \in Uses /\ allocated = {} /\ listed = {} /\ registered = {}
        /\ ~g_tracepoint_registered /\ ~g_fault_tracepoint_registered /\ op.kind = "idle"
    BY IdleKind DEF Init
  <1>2. \A t \in Tasks, c \in Cpus : ~ring[t][c].open /\ ~ring[t][c].capture
    BY DEF Init, NoRing
  <1>3. \A c \in Cpus : probe[c].at = {}
    BY DEF Init, Outside
  <1>5. MemInv /\ RingInv /\ FlagInv /\ ProbeInv
    BY <1>1, <1>2, <1>3 DEF MemInv, Freeing, Busy, RingInv, FlagInv, ProbeInv
  <1>6. DesertInv
    BY <1>1 DEF DesertInv
  <1>7. QED
    BY <1>5, <1>6 DEF IInv

\* Every step keeps the invariant.
LEMMA InvStep ==
    ASSUME TypeOK, IInv, [Next]_vars
    PROVE  IInv'
  <1>1. CASE UNCHANGED vars
    <2>1. MemInv' /\ RingInv' /\ FlagInv' /\ ProbeInv'
      BY <1>1 DEF vars, IInv, MemInv, Freeing, RingInv, FlagInv, ProbeInv
    <2>2. DesertInv'
      BY <1>1 DEF vars, IInv, DesertInv
    <2>3. QED
      BY <2>1, <2>2 DEF IInv
  <1>2. CASE CallStep
    BY <1>2, MemCallStep, RingCallStep, FlagCallStep, ProbeCallStep, DesertCallStep DEF IInv
  <1>3. ASSUME NEW t \in Tasks, NEW c \in Cpus, NEW d \in Cpus,
               \/ Call(t, c) \/ ProbeVisit(c, t) \/ ProbeEnter(c) \/ ProbeLeave(c) \/ CpuMask(c)
               \/ CpuCallback(c, d)
        PROVE  IInv'
    BY <1>3, MemOthers, RingOthers, FlagOthers, ProbeOthers, DesertOthers DEF IInv
  <1>4. QED
    BY <1>1, <1>2, <1>3, ConsumerAssumption DEF Next

\* The inductive invariant, for any tasks, CPUs and set-ups.
THEOREM ConsumersInvariant == Spec => []IInv
  <1>1. Init => TypeOK /\ IInv
    BY TypesInit, InvInit
  <1>2. TypeOK /\ IInv /\ [Next]_vars => TypeOK' /\ IInv'
    BY TypesStep, InvStep
  <1>3. QED
    BY <1>1, <1>2, PTL DEF Spec

\* No probe works on a freed consumer, and every consumer has a device whose release
\* will free it, with CPUs that come and go and calls that fail: check_remove_consumer
\* unlinks, waits for the probes, frees.  The exception, in either part, is a consumer
\* that a refused first open left on the list.
THEOREM ConsumersMemorySafe == Spec => []MemorySafe
  <1>1. IInv => MemorySafe
    BY IdleKind DEF IInv, MemInv, Freeing, DesertInv, Busy, MemorySafe, NoUseAfterFree, NoOrphan,
                    OpenRings
  <1>2. QED
    BY <1>1, ConsumersInvariant, PTL

\* capture_enabled is never left set on a closed or freed ring.
THEOREM ConsumersCapture == Spec => []CaptureNeedsBuffer
  <1>1. IInv => CaptureNeedsBuffer
    BY DEF IInv, MemInv, RingInv, CaptureNeedsBuffer
  <1>2. QED
    BY <1>1, ConsumersInvariant, PTL

\* Between calls the driver's two flags say which probes are attached, and its own
\* assertions about them hold.
THEOREM ConsumersProbes == Spec => []ProbesSound
  <1>1. IInv => ProbesMatchFlags
    BY IdleKind DEF IInv, FlagInv, ProbeInv, ProbesMatchFlags, OpenRings
  <1>2. IInv => DriverAsserts
    BY DEF IInv, FlagInv, DriverAsserts
  <1>3. IInv => ProbesSound
    BY <1>1, <1>2 DEF ProbesSound
  <1>4. QED
    BY <1>3, ConsumersInvariant, PTL
=============================================================================
