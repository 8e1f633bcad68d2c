--------------------------- MODULE PpmRingProofs ---------------------------
(***************************************************************************)
(* For every ring size, cushion and set of event sizes: the events in the  *)
(* ring, and the one the caller of scap_next holds, are never damaged;     *)
(* they are served in order; the counters add up.  First the inductive     *)
(* invariant, the arithmetic of the offsets and the steps of the driver,   *)
(* then the steps of libscap, and the theorems.                            *)
(***************************************************************************)
EXTENDS PpmRing, TLAPS

\* Each leaf is tried with Zenon, then with SMT, and then with both for longer.
USE ZenonT(2), SMTT(30), ZenonT(20), SMTT(60)

\* Where the i-th event starts in the stream of published bytes; one past the
\* last event: where the next one will.
StartOf(i) == IF i <= Len(log) THEN log[i].start ELSE wpos

\* The gate: exactly the call in progress holds preempt_count.
GateInv == preempt_count = IF pc = "idle" THEN 0 ELSE 1

\* The two shared offsets say how many published bytes are unreleased.
SpaceInv == wpos - rpos = ReadSize(head, tail)

\* The published events tile the stream.
LogInv ==
    /\ Len(log) = nevents
    /\ \A i \in 1 .. Len(log) :
          /\ log[i].id = i - 1
          /\ log[i].len >= 1
          /\ log[i].start + log[i].len <= wpos
          /\ log[i].start + log[i].len = StartOf(i + 1)
    /\ \A i, j \in 1 .. Len(log) : i < j => log[i].start + log[i].len <= log[j].start
    /\ Len(log) = 0 => wpos = 0

\* What the call in progress knows about the ring: its head is the head, the
\* space it computed is still free, and from the copy on its event is complete.
CallInv ==
    /\ pc \in {"gated", "filling", "filled", "copied"} =>
          /\ evt.id = nevents /\ evt.start = wpos /\ evt.len >= 1
    /\ pc \in {"filling", "filled", "copied"} =>
          /\ lhead = head
          /\ FreeSpace(lhead, ttail) <= FreeSpace(head, tail)
    /\ pc \in {"filled", "copied"} => evt.len <= Avail(lhead, ttail)
    /\ pc = "filled" =>
          \A k \in 0 .. evt.len - 1 : buffer[lhead + k] = [evt |-> evt, off |-> k]
    /\ pc = "copied" =>
          \A k \in 0 .. evt.len - 1 : buffer[Wrap(lhead + k)] = [evt |-> evt, off |-> k]

\* What the reader holds: a whole number of events, at the tail.
ReaderInv ==
    /\ m_lastreadsize <= wpos - rpos
    /\ m_sn_len <= m_lastreadsize
    /\ rpc = "refill" => m_lastreadsize = 0 /\ m_sn_len = 0
    /\ m_sn_len > 0 => m_sn_next_event = tail + (m_lastreadsize - m_sn_len)
    /\ next <= Len(log) + 1
    /\ StartOf(next) = rpos + m_lastreadsize - m_sn_len
    /\ \E j \in 1 .. Len(log) + 1 : StartOf(j) = rpos + m_lastreadsize

\* The event the caller holds is one of the published, unreleased ones.
HeldInv ==
    held # NoHeld =>
        \E h \in 1 .. Len(log) :
            /\ held.evt = log[h]
            /\ held.at \in Nat /\ held.at >= tail
            /\ log[h].start = rpos + (held.at - tail)

IInv ==
    /\ TypeOK /\ GateInv /\ SpaceInv /\ LogInv /\ CallInv /\ ReaderInv /\ HeldInv
    /\ EventsIntact /\ NoCorruption /\ CountersAddUp

---------------------------------------------------------------------------
\* Ring arithmetic

\* The space the producer computes and the size the reader computes from the
\* same two offsets always leave one byte of the ring unused, so that a full
\* ring is never taken for an empty one.
LEMMA FreePlusUsed ==
    ASSUME NEW h \in 0 .. RING_BUF_SIZE - 1, NEW t \in 0 .. RING_BUF_SIZE - 1
    PROVE  /\ ReadSize(h, t) \in 0 .. RING_BUF_SIZE - 1
           /\ FreeSpace(h, t) \in 0 .. RING_BUF_SIZE - 1
           /\ FreeSpace(h, t) = RING_BUF_SIZE - 1 - ReadSize(h, t)
BY SizeAssumption DEF ReadSize, FreeSpace

\* The room given to a filler lies in the buffer and in the free space.
LEMMA AvailFits ==
    ASSUME NEW h \in 0 .. RING_BUF_SIZE - 1, NEW t \in 0 .. RING_BUF_SIZE - 1
    PROVE  /\ Avail(h, t) \in Nat
           /\ Avail(h, t) <= FreeSpace(h, t)
           /\ h + Avail(h, t) <= RING_BUF_SIZE + CUSHION - 1
BY SizeAssumption DEF Avail, DeltaFromEnd, FreeSpace

\* A filler that writes inside the free space touches no unreleased byte.
LEMMA WriteMisses ==
    ASSUME NEW h \in 0 .. RING_BUF_SIZE - 1, NEW t \in 0 .. RING_BUF_SIZE - 1,
           NEW n \in Nat, n <= FreeSpace(h, t),
           NEW d \in Nat, d < ReadSize(h, t)
    PROVE  /\ Wrap(t + d) \in 0 .. RING_BUF_SIZE - 1
           /\ Wrap(t + d) \notin h .. h + n - 1
BY SizeAssumption DEF Wrap, ReadSize, FreeSpace

\* Neither does the copy of the cushion to the start of the ring.
LEMMA CopyMisses ==
    ASSUME NEW h \in 0 .. RING_BUF_SIZE - 1, NEW t \in 0 .. RING_BUF_SIZE - 1,
           NEW n \in Nat, n <= FreeSpace(h, t), h + n > RING_BUF_SIZE,
           NEW d \in Nat, d < ReadSize(h, t)
    PROVE  Wrap(t + d) \notin 0 .. h + n - RING_BUF_SIZE - 1
BY SizeAssumption DEF Wrap, ReadSize, FreeSpace

\* Moving the head over n free bytes makes n more bytes readable, and the
\* bytes behind the old ones are the ones that were written.
LEMMA HeadMoves ==
    ASSUME NEW h \in 0 .. RING_BUF_SIZE - 1, NEW t \in 0 .. RING_BUF_SIZE - 1,
           NEW n \in Nat, n <= FreeSpace(h, t)
    PROVE  /\ Wrap(h + n) \in 0 .. RING_BUF_SIZE - 1
           /\ ReadSize(Wrap(h + n), t) = ReadSize(h, t) + n
           /\ \A k \in 0 .. n - 1 : Wrap(t + (ReadSize(h, t) + k)) = Wrap(h + k)
BY SizeAssumption DEF Wrap, ReadSize, FreeSpace

\* Moving the tail over n readable bytes leaves the others where they are.
LEMMA TailMoves ==
    ASSUME NEW h \in 0 .. RING_BUF_SIZE - 1, NEW t \in 0 .. RING_BUF_SIZE - 1,
           NEW n \in Nat, n <= ReadSize(h, t)
    PROVE  /\ Wrap(t + n) \in 0 .. RING_BUF_SIZE - 1
           /\ ReadSize(h, Wrap(t + n)) = ReadSize(h, t) - n
           /\ \A d \in Nat : n <= d /\ d < ReadSize(h, t) =>
                 Wrap(Wrap(t + n) + (d - n)) = Wrap(t + d)
BY SizeAssumption DEF Wrap, ReadSize

---------------------------------------------------------------------------
\* A conjunct of the invariant stays as long as the variables that it is about do.

\* The published events.
LEMMA LogFrame ==
    ASSUME LogInv, UNCHANGED <<log, wpos, nevents>>
    PROVE  LogInv'
  BY DEF LogInv, StartOf

\* The call in progress.
LEMMA CallFrame ==
    ASSUME CallInv, UNCHANGED <<pc, evt, lhead, ttail, nevents, wpos, head, tail, buffer>>
    PROVE  CallInv'
  BY DEF CallInv

\* The event that the caller holds.
LEMMA HeldFrame ==
    ASSUME HeldInv, UNCHANGED <<held, log, tail, rpos>>
    PROVE  HeldInv'
  BY DEF HeldInv

\* The bytes of the events in the ring.
LEMMA IntactFrame ==
    ASSUME EventsIntact, UNCHANGED <<log, rpos, tail, buffer>>
    PROVE  EventsIntact'
  BY DEF EventsIntact, At

\* What the reader has.
LEMMA ReaderFrame ==
    ASSUME ReaderInv, UNCHANGED <<m_lastreadsize, m_sn_len, m_sn_next_event, rpc, tail>>,
           UNCHANGED ghostVars
    PROVE  ReaderInv'
  BY DEF ReaderInv, StartOf, ghostVars

---------------------------------------------------------------------------
\* The inductive invariant

\* A ring that reset_ring_buffer has just set up satisfies the invariant.
LEMMA InitInv == Init => IInv
<1> SUFFICES ASSUME Init PROVE IInv
  OBVIOUS
<1> USE SizeAssumption DEF Init
<1>1. Zero \in Cell /\ Zero.evt \in Event /\ NoHeld \in [evt : Event, at : Nat \cup {-1}]
  BY DEF Zero, Cell, Event, NoHeld
<1>2. TypeOK
  <2>1. buffer \in [0 .. RING_BUF_SIZE + CUSHION - 1 -> Cell] /\ log \in Seq(Event)
    BY <1>1
  <2>2. capture_enabled \in BOOLEAN /\ failed \in BOOLEAN
    OBVIOUS
  <2> QED
    BY <1>1, <2>1, <2>2 DEF TypeOK
<1>3. GateInv /\ SpaceInv /\ NoCorruption /\ CountersAddUp
  BY DEF GateInv, SpaceInv, ReadSize, NoCorruption, CountersAddUp
<1>4. LogInv /\ CallInv /\ HeldInv /\ EventsIntact
  BY DEF LogInv, CallInv, HeldInv, EventsIntact
<1>5. ReaderInv
  BY DEF ReaderInv, StartOf
<1> QED
  BY <1>2, <1>3, <1>4, <1>5 DEF IInv

\* The ioctls that switch capture on and off.
LEMMA SetCaptureInv == ASSUME IInv, NEW on \in BOOLEAN, SetCapture(on) PROVE IInv'
<1> USE DEF SetCapture, ringVars, statVars, callVars, readerVars, ghostVars
<1>1. TypeOK'
  BY DEF IInv, TypeOK
<1>2. GateInv' /\ SpaceInv' /\ NoCorruption' /\ CountersAddUp'
  BY DEF IInv, GateInv, SpaceInv, ReadSize, NoCorruption, CountersAddUp
<1>3. LogInv' /\ CallInv' /\ HeldInv' /\ EventsIntact'
  BY LogFrame, CallFrame, HeldFrame, IntactFrame DEF IInv
<1>4. ReaderInv'
  BY ReaderFrame DEF IInv
<1> QED
  BY <1>1, <1>2, <1>3, <1>4 DEF IInv

\* An event gets through the gate or is turned away.
LEMMA RecordEventInv ==
    ASSUME IInv, NEW pageFault \in BOOLEAN, NEW len \in EvtSizes, RecordEvent(pageFault, len)
    PROVE  IInv'
<1> USE DEF RecordEvent, ringVars, readerVars, ghostVars
<1>1. len \in Nat /\ len >= 1
  BY SizeAssumption
<1>2. TypeOK'
  <2>1. CASE preempt_count + 1 = 1
    <3>1. evt' = [id |-> nevents, len |-> len, snaplen |-> snaplen, start |-> wpos]
      BY <2>1
    <3>2. nevents \in Nat /\ snaplen \in Nat /\ wpos \in Nat
      BY DEF IInv, TypeOK
    <3>3. evt' \in Event
      BY <1>1, <3>1, <3>2 DEF Event
    <3> QED
      BY <2>1, <3>3 DEF IInv, TypeOK
  <2>2. CASE preempt_count + 1 # 1
    <3>1. n_preemptions' \in Nat /\ uncounted' \in Nat
      BY <2>2 DEF IInv, TypeOK, Preempted
    <3> QED
      BY <2>2, <3>1 DEF IInv, TypeOK
  <2> QED
    BY <2>1, <2>2
<1>3. preempt_count = 0 => pc = "idle"
  BY DEF IInv, GateInv
<1>4. preempt_count + 1 # 1 => pc # "idle"
  BY DEF IInv, GateInv
<1>5. GateInv' /\ SpaceInv' /\ NoCorruption'
  BY <1>3, <1>4 DEF IInv, TypeOK, GateInv, SpaceInv, ReadSize, NoCorruption
<1>6. CountersAddUp'
  <2>1. CASE preempt_count + 1 = 1
    BY <1>3, <2>1 DEF IInv, TypeOK, CountersAddUp
  <2>2. CASE preempt_count + 1 # 1
    <3>1. pc' = pc /\ nevents' = nevents /\ n_drops_buffer' = n_drops_buffer
          /\ n_drops_pf' = n_drops_pf /\ n_evts' = n_evts + 1
      BY <2>2
    <3>2. CASE pageFault
      <4>1. n_preemptions' = n_preemptions /\ uncounted' = uncounted + 1
        BY <2>2, <3>2 DEF Preempted
      <4> QED
        BY <3>1, <4>1 DEF IInv, TypeOK, CountersAddUp
    <3>3. CASE ~pageFault
      <4>1. n_preemptions' = n_preemptions + 1 /\ uncounted' = uncounted
        BY <2>2, <3>3 DEF Preempted
      <4> QED
        BY <3>1, <4>1 DEF IInv, TypeOK, CountersAddUp
    <3> QED
      BY <3>2, <3>3
  <2> QED
    BY <2>1, <2>2
<1>7. LogInv' /\ HeldInv' /\ EventsIntact'
  BY LogFrame, HeldFrame, IntactFrame DEF IInv
<1>8. CallInv'
  <2>1. CASE preempt_count + 1 = 1
    BY <1>1, <2>1 DEF IInv, TypeOK, CallInv
  <2>2. CASE preempt_count + 1 # 1
    BY <2>2 DEF IInv, CallInv
  <2> QED
    BY <2>1, <2>2
<1>9. ReaderInv'
  BY ReaderFrame DEF IInv
<1> QED
  BY <1>2, <1>5, <1>6, <1>7, <1>8, <1>9 DEF IInv

\* The producer's copies of head and tail.
LEMMA ReadPointersInv == ASSUME IInv, ReadPointers PROVE IInv'
<1> USE DEF ReadPointers, ringVars, kernelVars, statVars, readerVars, ghostVars
<1>1. TypeOK'
  BY DEF IInv, TypeOK
<1>2. GateInv' /\ SpaceInv' /\ NoCorruption' /\ CountersAddUp'
  BY DEF IInv, TypeOK, GateInv, SpaceInv, ReadSize, NoCorruption, CountersAddUp
<1>3. LogInv' /\ HeldInv' /\ EventsIntact'
  BY LogFrame, HeldFrame, IntactFrame DEF IInv
<1>4. CallInv'
  <2>1. FreeSpace(head, tail) \in Int
    BY FreePlusUsed DEF IInv, TypeOK
  <2> QED
    BY <2>1 DEF IInv, CallInv
<1>5. ReaderInv'
  BY ReaderFrame DEF IInv
<1> QED
  BY <1>1, <1>2, <1>3, <1>4, <1>5 DEF IInv

\* A call that ends without an event, because not even the header fits.
LEMMA NoSpaceInv == ASSUME IInv, NoSpace PROVE IInv'
<1> USE DEF NoSpace, ringVars, kernelVars, readerVars, ghostVars
<1>1. TypeOK'
  BY DEF IInv, TypeOK
<1>2. GateInv' /\ SpaceInv' /\ NoCorruption' /\ CountersAddUp'
  BY DEF IInv, TypeOK, GateInv, SpaceInv, ReadSize, NoCorruption, CountersAddUp
<1>3. LogInv' /\ CallInv' /\ HeldInv' /\ EventsIntact'
  <2>1. LogInv' /\ HeldInv' /\ EventsIntact'
    BY LogFrame, HeldFrame, IntactFrame DEF IInv
  <2>2. CallInv'
    BY DEF CallInv
  <2> QED
    BY <2>1, <2>2
<1>4. ReaderInv'
  BY ReaderFrame DEF IInv
<1> QED
  BY <1>1, <1>2, <1>3, <1>4 DEF IInv

\* The end of every call of record_event_consumer reopens the gate.
LEMMA RecordExitInv == ASSUME IInv, RecordExit PROVE IInv'
<1> USE DEF RecordExit, ringVars, statVars, readerVars, ghostVars
<1>1. TypeOK'
  BY DEF IInv, TypeOK, GateInv
<1>2. GateInv' /\ SpaceInv' /\ NoCorruption' /\ CountersAddUp'
  BY DEF IInv, TypeOK, GateInv, SpaceInv, ReadSize, NoCorruption, CountersAddUp
<1>3. LogInv' /\ CallInv' /\ HeldInv' /\ EventsIntact'
  <2>1. LogInv' /\ HeldInv' /\ EventsIntact'
    BY LogFrame, HeldFrame, IntactFrame DEF IInv
  <2>2. CallInv'
    BY DEF CallInv
  <2> QED
    BY <2>1, <2>2
<1>4. ReaderInv'
  BY ReaderFrame DEF IInv
<1> QED
  BY <1>1, <1>2, <1>3, <1>4 DEF IInv

\* The ioctl of scap_set_snaplen.
LEMMA SetSnaplenInv == ASSUME IInv, SetSnaplen PROVE IInv'
<1> USE DEF SetSnaplen, ringVars, statVars, callVars, ghostVars
<1>1. TypeOK'
  BY DEF IInv, TypeOK
<1>2. GateInv' /\ SpaceInv' /\ NoCorruption' /\ CountersAddUp'
  BY DEF IInv, TypeOK, GateInv, SpaceInv, ReadSize, NoCorruption, CountersAddUp
<1>3. LogInv' /\ CallInv' /\ HeldInv' /\ EventsIntact'
  BY LogFrame, CallFrame, HeldFrame, IntactFrame DEF IInv
<1>4. ReaderInv'
  BY DEF IInv, ReaderInv, StartOf
<1> QED
  BY <1>1, <1>2, <1>3, <1>4 DEF IInv

---------------------------------------------------------------------------
\* The steps of record_event_consumer that write to the ring or move its head

\* Where an unreleased byte of a published event lies.
LEMMA Unreleased ==
    ASSUME IInv, NEW i \in 1 .. Len(log), NEW k \in 0 .. log[i].len - 1,
           log[i].start + k >= rpos
    PROVE  /\ (log[i].start + k) - rpos \in Nat
           /\ (log[i].start + k) - rpos < ReadSize(head, tail)
<1>1. log[i] \in Event
  BY DEF IInv, TypeOK
<1>2. log[i].start \in Nat /\ log[i].len \in Nat
  BY <1>1 DEF Event
<1>3. log[i].start + log[i].len <= wpos
  BY DEF IInv, LogInv
<1>4. wpos \in Nat /\ rpos \in Nat /\ wpos - rpos = ReadSize(head, tail)
  BY DEF IInv, TypeOK, SpaceInv
<1>5. (log[i].start + k) - rpos \in Nat /\ (log[i].start + k) - rpos < wpos - rpos
  BY <1>2, <1>3, <1>4
<1> QED
  BY <1>4, <1>5

\* Whatever a filler does to the room it was given, published events survive.
LEMMA FillerKeepsEvents ==
    ASSUME IInv, pc = "filling", UNCHANGED <<log, tail, rpos>>,
           \A j \in DOMAIN buffer :
              j \notin lhead .. lhead + Avail(lhead, ttail) - 1 => buffer'[j] = buffer[j]
    PROVE  EventsIntact'
<1> SUFFICES ASSUME NEW i \in 1 .. Len(log), NEW k \in 0 .. log[i].len - 1,
                    log[i].start + k >= rpos
             PROVE  buffer'[At(log[i].start + k)] = [evt |-> log[i], off |-> k]
  BY DEF EventsIntact, At
<1> DEFINE d == (log[i].start + k) - rpos
<1>1. d \in Nat /\ d < ReadSize(head, tail)
  BY Unreleased
<1>2. /\ lhead = head /\ head \in 0 .. RING_BUF_SIZE - 1 /\ tail \in 0 .. RING_BUF_SIZE - 1
      /\ ttail \in 0 .. RING_BUF_SIZE - 1
      /\ FreeSpace(lhead, ttail) <= FreeSpace(head, tail)
  BY DEF IInv, TypeOK, CallInv
<1>3. /\ Avail(lhead, ttail) \in Nat
      /\ Avail(lhead, ttail) <= FreeSpace(head, tail)
  <2>1. Avail(lhead, ttail) \in Nat /\ Avail(lhead, ttail) <= FreeSpace(lhead, ttail)
    BY <1>2, AvailFits
  <2>2. FreeSpace(lhead, ttail) \in Int /\ FreeSpace(head, tail) \in Int
    BY <1>2, FreePlusUsed
  <2> QED
    BY <1>2, <2>1, <2>2
<1>4. /\ Wrap(tail + d) \in 0 .. RING_BUF_SIZE - 1
      /\ Wrap(tail + d) \notin lhead .. lhead + Avail(lhead, ttail) - 1
  BY <1>1, <1>2, <1>3, WriteMisses
<1>5. Wrap(tail + d) \in DOMAIN buffer
  BY <1>4, SizeAssumption DEF IInv, TypeOK
<1>6. buffer[At(log[i].start + k)] = [evt |-> log[i], off |-> k]
  BY DEF IInv, EventsIntact
<1>7. At(log[i].start + k) = Wrap(tail + d)
  BY DEF At
<1> HIDE DEF d
<1> QED
  BY <1>4, <1>5, <1>6, <1>7

\* A filler succeeds: its event is in place from the header on.
LEMMA FillOkInv == ASSUME IInv, FillOk PROVE IInv'
<1>1. /\ lhead \in 0 .. RING_BUF_SIZE - 1 /\ ttail \in 0 .. RING_BUF_SIZE - 1
      /\ evt \in Event /\ evt.len \in Nat /\ evt.start \in Nat
      /\ evt.len <= Avail(lhead, ttail)
      /\ buffer \in [0 .. RING_BUF_SIZE + CUSHION - 1 -> Cell]
  BY DEF IInv, TypeOK, FillOk, Event
<1>2. /\ Avail(lhead, ttail) \in Nat
      /\ lhead + Avail(lhead, ttail) <= RING_BUF_SIZE + CUSHION - 1
  BY <1>1, AvailFits
<1>3. evt' = [evt EXCEPT !.snaplen = snaplen] /\ evt' \in Event
  <2>1. evt' = [evt EXCEPT !.snaplen = snaplen] /\ snaplen \in Nat
    BY DEF IInv, TypeOK, FillOk
  <2> QED
    BY <1>1, <2>1 DEF Event
<1>4. /\ evt'.len = evt.len /\ evt'.id = evt.id /\ evt'.start = evt.start
  BY <1>1, <1>3 DEF Event
<1>5. buffer' \in [0 .. RING_BUF_SIZE + CUSHION - 1 -> Cell]
  <2>1. ASSUME NEW j \in 0 .. RING_BUF_SIZE + CUSHION - 1
        PROVE  Written(j, evt') \in Cell
    <3>1. Zero \in Cell
      BY DEF Zero, Cell, Event
    <3>2. j \in lhead .. lhead + evt.len - 1 => [evt |-> evt', off |-> j - lhead] \in Cell
      BY <1>1, <1>3 DEF Cell
    <3> QED
      BY <1>1, <3>1, <3>2 DEF Written
  <2>2. buffer' = [j \in 0 .. RING_BUF_SIZE + CUSHION - 1 |-> Written(j, evt')]
    BY <1>1 DEF FillOk
  <2> QED
    BY <2>1, <2>2
<1>6. TypeOK'
  BY <1>3, <1>5
     DEF FillOk, IInv, TypeOK, kernelVars, statVars, readerVars, ghostVars
<1>7. GateInv' /\ SpaceInv' /\ NoCorruption' /\ CountersAddUp'
  BY DEF FillOk, kernelVars, statVars, readerVars, ghostVars, IInv, TypeOK, GateInv,
         SpaceInv, ReadSize, NoCorruption, CountersAddUp
<1>8. LogInv' /\ HeldInv'
  BY LogFrame, HeldFrame DEF FillOk, kernelVars, readerVars, ghostVars, IInv
<1>9. ReaderInv'
  BY ReaderFrame DEF FillOk, readerVars, ghostVars, IInv
<1>10. EventsIntact'
  <2>1. \A j \in DOMAIN buffer :
           j \notin lhead .. lhead + Avail(lhead, ttail) - 1 => buffer'[j] = buffer[j]
    BY <1>1, <1>2 DEF FillOk, Written
  <2> QED
    BY <2>1, FillerKeepsEvents DEF FillOk, ghostVars
<1>11. CallInv'
  <2>1. \A k \in 0 .. evt.len - 1 : buffer'[lhead + k] = [evt |-> evt', off |-> k]
    <3> SUFFICES ASSUME NEW k \in 0 .. evt.len - 1
                 PROVE  buffer'[lhead + k] = [evt |-> evt', off |-> k]
      OBVIOUS
    <3>1. lhead + k \in DOMAIN buffer /\ lhead + k \in lhead .. lhead + evt.len - 1
      BY <1>1, <1>2, SizeAssumption
    <3>2. buffer'[lhead + k] = Written(lhead + k, evt')
      BY <3>1 DEF FillOk
    <3>3. (lhead + k) - lhead = k
      BY <1>1
    <3>4. Written(lhead + k, evt') = [evt |-> evt', off |-> (lhead + k) - lhead]
      BY <3>1 DEF Written
    <3> QED
      BY <3>2, <3>3, <3>4
  <2>2. /\ pc = "filling" /\ pc' = "filled"
        /\ UNCHANGED <<head, tail, lhead, ttail, nevents, wpos>>
    BY DEF FillOk, kernelVars, ghostVars
  <2>3. /\ evt.id = nevents /\ evt.start = wpos /\ evt.len >= 1
        /\ lhead = head /\ FreeSpace(lhead, ttail) <= FreeSpace(head, tail)
    BY <2>2 DEF IInv, CallInv
  <2> QED
    BY ONLY <1>1, <1>4, <2>1, <2>2, <2>3, SMTT(60) DEF CallInv
<1> QED
  BY <1>6, <1>7, <1>8, <1>9, <1>10, <1>11 DEF IInv

\* What a failed filler may have done.
LEMMA ScribbledInv ==
    ASSUME IInv, pc = "filling", buffer' = [i \in DOMAIN buffer |-> Scribbled(i)],
           UNCHANGED <<log, tail, rpos>>
    PROVE  /\ buffer' \in [0 .. RING_BUF_SIZE + CUSHION - 1 -> Cell]
           /\ EventsIntact'
<1>1. buffer \in [0 .. RING_BUF_SIZE + CUSHION - 1 -> Cell] /\ Zero \in Cell
  BY DEF IInv, TypeOK, Zero, Cell, Event
<1>2. buffer' \in [0 .. RING_BUF_SIZE + CUSHION - 1 -> Cell]
  BY <1>1 DEF Scribbled
<1>3. \A j \in DOMAIN buffer :
         j \notin lhead .. lhead + Avail(lhead, ttail) - 1 => buffer'[j] = buffer[j]
  BY DEF Scribbled
<1> QED
  BY <1>2, <1>3, FillerKeepsEvents

\* A filler that ran out of room counts a drop and publishes nothing.
LEMMA FillFullInv == ASSUME IInv, FillFull PROVE IInv'
<1> USE DEF FillFull, kernelVars, readerVars, ghostVars
<1>1. buffer' \in [0 .. RING_BUF_SIZE + CUSHION - 1 -> Cell] /\ EventsIntact'
  BY ScribbledInv
<1>2. TypeOK'
  BY <1>1 DEF IInv, TypeOK
<1>3. GateInv' /\ SpaceInv' /\ NoCorruption' /\ CountersAddUp'
  BY DEF IInv, TypeOK, GateInv, SpaceInv, ReadSize, NoCorruption, CountersAddUp
<1>4. LogInv' /\ CallInv' /\ HeldInv'
  <2>1. LogInv' /\ HeldInv'
    BY LogFrame, HeldFrame DEF IInv
  <2>2. CallInv'
    BY DEF IInv, CallInv
  <2> QED
    BY <2>1, <2>2
<1>5. ReaderInv'
  BY ReaderFrame DEF IInv
<1> QED
  BY <1>1, <1>2, <1>3, <1>4, <1>5 DEF IInv

\* So does one that failed for another reason, with the counter of that reason.
LEMMA FillFailedInv == ASSUME IInv, NEW cbres \in Outcomes, FillFailed(cbres) PROVE IInv'
<1> USE DEF FillFailed, kernelVars, readerVars, ghostVars
<1>1. buffer' \in [0 .. RING_BUF_SIZE + CUSHION - 1 -> Cell] /\ EventsIntact'
  BY ScribbledInv
<1>2. TypeOK'
  BY <1>1 DEF IInv, TypeOK
<1>3. GateInv' /\ SpaceInv' /\ NoCorruption'
  BY DEF IInv, TypeOK, GateInv, SpaceInv, ReadSize, NoCorruption
<1>4. CountersAddUp'
  <2>1. CASE cbres = "SUCCESS"
    BY <2>1 DEF IInv, TypeOK, CountersAddUp
  <2>2. CASE cbres = "INVALID_USER_MEMORY"
    BY <2>2 DEF IInv, TypeOK, CountersAddUp
  <2>3. CASE cbres = "BUG"
    BY <2>3 DEF IInv, TypeOK, CountersAddUp
  <2> QED
    BY <2>1, <2>2, <2>3 DEF Outcomes
<1>5. LogInv' /\ CallInv' /\ HeldInv'
  <2>1. LogInv' /\ HeldInv'
    BY LogFrame, HeldFrame DEF IInv
  <2>2. CallInv'
    BY DEF IInv, CallInv
  <2> QED
    BY <2>1, <2>2
<1>6. ReaderInv'
  BY ReaderFrame DEF IInv
<1> QED
  BY <1>1, <1>2, <1>3, <1>4, <1>5, <1>6 DEF IInv

\* The cushion is copied: now the event is in place modulo the ring size.
LEMMA CopyCushionInv == ASSUME IInv, CopyCushion PROVE IInv'
<1> USE DEF CopyCushion, kernelVars, statVars, readerVars, ghostVars
<1> DEFINE n == evt.len
<1>1. /\ head \in 0 .. RING_BUF_SIZE - 1 /\ tail \in 0 .. RING_BUF_SIZE - 1
      /\ lhead = head /\ ttail \in 0 .. RING_BUF_SIZE - 1
      /\ FreeSpace(lhead, ttail) <= FreeSpace(head, tail)
      /\ n \in Nat /\ n >= 1 /\ n <= Avail(lhead, ttail)
      /\ buffer \in [0 .. RING_BUF_SIZE + CUSHION - 1 -> Cell]
  BY DEF IInv, TypeOK, CallInv, Event
<1>2. n <= FreeSpace(head, tail) /\ n <= RING_BUF_SIZE - 1
      /\ head + n <= RING_BUF_SIZE + CUSHION - 1
  <2>1. /\ Avail(lhead, ttail) \in Nat /\ Avail(lhead, ttail) <= FreeSpace(lhead, ttail)
        /\ lhead + Avail(lhead, ttail) <= RING_BUF_SIZE + CUSHION - 1
    BY <1>1, AvailFits
  <2>2. /\ FreeSpace(lhead, ttail) \in 0 .. RING_BUF_SIZE - 1
        /\ FreeSpace(head, tail) \in 0 .. RING_BUF_SIZE - 1
    BY <1>1, FreePlusUsed
  <2> QED
    BY <1>1, <2>1, <2>2, SizeAssumption
<1>3. buffer' \in [0 .. RING_BUF_SIZE + CUSHION - 1 -> Cell]
  BY <1>1, <1>2, SizeAssumption DEF Copied
<1>4. TypeOK'
  BY <1>3 DEF IInv, TypeOK
<1>5. GateInv' /\ SpaceInv' /\ NoCorruption' /\ CountersAddUp'
  BY DEF IInv, TypeOK, GateInv, SpaceInv, ReadSize, NoCorruption, CountersAddUp
<1>6. LogInv' /\ HeldInv'
  BY LogFrame, HeldFrame DEF IInv
<1>7. ReaderInv'
  BY ReaderFrame DEF IInv
<1>8. EventsIntact'
  <2> SUFFICES ASSUME NEW i \in 1 .. Len(log), NEW k \in 0 .. log[i].len - 1,
                      log[i].start + k >= rpos
               PROVE  buffer'[At(log[i].start + k)] = [evt |-> log[i], off |-> k]
    BY DEF EventsIntact, At
  <2> DEFINE d == (log[i].start + k) - rpos
  <2>1. d \in Nat /\ d < ReadSize(head, tail)
    BY Unreleased
  <2>2. At(log[i].start + k) = Wrap(tail + d)
    BY DEF At
  <2>3. buffer[At(log[i].start + k)] = [evt |-> log[i], off |-> k]
    BY DEF IInv, EventsIntact
  <2> HIDE DEF d
  <2>4. Wrap(tail + d) \in 0 .. RING_BUF_SIZE - 1
    BY <1>1, <1>2, <2>1, WriteMisses
  <2>5. head + n > RING_BUF_SIZE => Wrap(tail + d) \notin 0 .. head + n - RING_BUF_SIZE - 1
    BY <1>1, <1>2, <2>1, CopyMisses
  <2>6. Wrap(tail + d) \in DOMAIN buffer
    BY <1>1, <2>4, SizeAssumption
  <2>7. buffer'[Wrap(tail + d)] = buffer[Wrap(tail + d)]
    BY <1>1, <2>5, <2>6 DEF Copied
  <2> QED
    BY <2>2, <2>3, <2>7
<1>9. \A k \in 0 .. n - 1 : buffer'[Wrap(lhead + k)] = [evt |-> evt, off |-> k]
  <2> SUFFICES ASSUME NEW k \in 0 .. n - 1
               PROVE  buffer'[Wrap(lhead + k)] = [evt |-> evt, off |-> k]
    OBVIOUS
  <2>1. buffer[lhead + k] = [evt |-> evt, off |-> k]
    BY DEF IInv, CallInv
  <2>2. CASE lhead + k < RING_BUF_SIZE
    <3>1. Wrap(lhead + k) = lhead + k /\ lhead + k \in DOMAIN buffer
      BY <1>1, <2>2, SizeAssumption DEF Wrap
    <3>2. ~(lhead + k \in 0 .. lhead + n - RING_BUF_SIZE - 1)
      BY <1>1, <1>2, SizeAssumption
    <3> QED
      BY <2>1, <3>1, <3>2 DEF Copied
  <2>3. CASE ~(lhead + k < RING_BUF_SIZE)
    <3> DEFINE w == (lhead + k) - RING_BUF_SIZE
    <3>1. /\ Wrap(lhead + k) = w /\ w \in 0 .. lhead + n - RING_BUF_SIZE - 1
          /\ w \in DOMAIN buffer /\ lhead + n > RING_BUF_SIZE
          /\ RING_BUF_SIZE + w = lhead + k
      BY <1>1, <1>2, <2>3, SizeAssumption DEF Wrap
    <3> HIDE DEF w
    <3>2. buffer'[w] = buffer[RING_BUF_SIZE + w]
      BY <3>1 DEF Copied
    <3> QED
      BY <2>1, <3>1, <3>2
  <2> QED
    BY <2>2, <2>3
<1>10. CallInv'
  BY <1>9 DEF IInv, CallInv
<1> QED
  BY <1>4, <1>5, <1>6, <1>7, <1>8, <1>10 DEF IInv

\* The new head makes the event readable, behind the older ones.
LEMMA PublishInv == ASSUME IInv, Publish PROVE IInv'
<1> USE DEF Publish, statVars, readerVars
<1> DEFINE n == evt.len
           L == Len(log)
<1>1. /\ head \in 0 .. RING_BUF_SIZE - 1 /\ tail \in 0 .. RING_BUF_SIZE - 1
      /\ lhead = head /\ ttail \in 0 .. RING_BUF_SIZE - 1
      /\ FreeSpace(lhead, ttail) <= FreeSpace(head, tail)
      /\ evt \in Event /\ n \in Nat /\ n >= 1 /\ n <= Avail(lhead, ttail)
      /\ evt.start = wpos /\ evt.id = nevents
      /\ wpos \in Nat /\ rpos \in Nat /\ log \in Seq(Event) /\ L \in Nat
      /\ next \in Nat \ {0} /\ m_lastreadsize \in Nat /\ m_sn_len \in Nat
  BY DEF IInv, TypeOK, CallInv, Event
<1>2. n <= FreeSpace(head, tail)
  <2>1. Avail(lhead, ttail) \in Nat /\ Avail(lhead, ttail) <= FreeSpace(lhead, ttail)
    BY <1>1, AvailFits
  <2>2. FreeSpace(lhead, ttail) \in Int /\ FreeSpace(head, tail) \in Int
    BY <1>1, FreePlusUsed
  <2> QED
    BY <1>1, <2>1, <2>2
<1>3. /\ head' = Wrap(head + n)
      /\ head' \in 0 .. RING_BUF_SIZE - 1
      /\ ReadSize(head', tail) = ReadSize(head, tail) + n
      /\ \A k \in 0 .. n - 1 : Wrap(tail + (ReadSize(head, tail) + k)) = Wrap(head + k)
  BY <1>1, <1>2, HeadMoves
<1>4. /\ log' \in Seq(Event) /\ Len(log') = L + 1
      /\ log'[L + 1] = evt
      /\ \A i \in 1 .. L : log'[i] = log[i]
  BY <1>1
<1>5. ASSUME NEW i \in 1 .. L PROVE log[i].start \in Nat /\ log[i].len \in Nat
  <2>1. log[i] \in Event
    BY <1>1
  <2> QED
    BY <2>1 DEF Event
<1>6. TypeOK'
  BY <1>1, <1>3, <1>4 DEF IInv, TypeOK
<1>7. SpaceInv'
  <2>1. ReadSize(head, tail) \in Int /\ wpos - rpos = ReadSize(head, tail)
    BY <1>1, FreePlusUsed DEF IInv, SpaceInv
  <2>2. (wpos + n) - rpos = ReadSize(head, tail) + n
    BY ONLY <1>1, <2>1, ZenonT(10), SMTT(60)
  <2> QED
    BY <1>3, <2>2 DEF SpaceInv
<1>8. GateInv' /\ NoCorruption' /\ CountersAddUp' /\ CallInv'
  BY DEF IInv, TypeOK, GateInv, NoCorruption, CountersAddUp, CallInv
<1>9. \A i \in 1 .. L + 1 : StartOf(i)' = StartOf(i)
  BY <1>1, <1>4 DEF StartOf
<1>10. LogInv'
  <2>1. Len(log') = nevents'
    BY <1>4 DEF IInv, LogInv
  <2>2. ASSUME NEW i \in 1 .. Len(log')
        PROVE  /\ log'[i].id = i - 1
               /\ log'[i].len >= 1
               /\ log'[i].start + log'[i].len <= wpos'
               /\ log'[i].start + log'[i].len = StartOf(i + 1)'
    <3>1. CASE i \in 1 .. L
      <4>1. /\ log[i].id = i - 1 /\ log[i].len >= 1
            /\ log[i].start + log[i].len <= wpos
            /\ log[i].start + log[i].len = StartOf(i + 1)
        BY <3>1 DEF IInv, LogInv
      <4>2. StartOf(i + 1)' = StartOf(i + 1)
        BY <1>1, <1>9, <3>1
      <4>3. log'[i] = log[i] /\ log[i].start \in Nat /\ log[i].len \in Nat
        BY <1>4, <1>5, <3>1
      <4>4. ASSUME NEW a \in Nat, NEW b \in Nat, a + b <= wpos PROVE a + b <= wpos + n
        BY ONLY <1>1, <4>4, SMTT(60)
      <4>5. log[i].start + log[i].len <= wpos + n
        BY <4>1, <4>3, <4>4
      <4> QED
        BY <4>1, <4>2, <4>3, <4>5
    <3>2. CASE i = L + 1
      <4>1. StartOf(i + 1)' = wpos'
        BY <1>1, <1>4, <3>2 DEF StartOf
      <4>2. L = nevents
        BY DEF IInv, LogInv
      <4> QED
        BY <1>1, <1>4, <3>2, <4>1, <4>2
    <3> QED
      BY ONLY <1>1, <1>4, <3>1, <3>2, ZenonT(10), SMTT(60)
  <2>3. ASSUME NEW i \in 1 .. Len(log'), NEW j \in 1 .. Len(log'), i < j
        PROVE  log'[i].start + log'[i].len <= log'[j].start
    <3>1. i \in 1 .. L
      BY <1>1, <1>4, <2>3
    <3>2. CASE j \in 1 .. L
      <4>1. log[i].start + log[i].len <= log[j].start
        BY <2>3, <3>1, <3>2 DEF IInv, LogInv
      <4> QED
        BY <1>4, <3>1, <3>2, <4>1
    <3>3. CASE j = L + 1
      <4>1. log[i].start + log[i].len <= wpos
        BY <3>1 DEF IInv, LogInv
      <4> QED
        BY <1>1, <1>4, <3>1, <3>3, <4>1
    <3> QED
      BY <1>1, <1>4, <3>2, <3>3
  <2>4. Len(log') # 0
    BY <1>1, <1>4
  <2> QED
    BY ONLY <2>1, <2>2, <2>3, <2>4, SMTT(60) DEF LogInv
<1>11. EventsIntact'
  <2> SUFFICES ASSUME NEW i \in 1 .. L + 1, NEW k \in 0 .. log'[i].len - 1,
                      log'[i].start + k >= rpos
               PROVE  buffer[At(log'[i].start + k)] = [evt |-> log'[i], off |-> k]
    BY <1>4 DEF EventsIntact, At
  <2>1. CASE i \in 1 .. L
    BY <1>4, <2>1 DEF IInv, EventsIntact
  <2>2. CASE i = L + 1
    <3>1. buffer[Wrap(head + k)] = [evt |-> evt, off |-> k]
      BY <1>1, <1>4, <2>2 DEF IInv, CallInv
    <3>2. (wpos + k) - rpos = ReadSize(head, tail) + k
      BY <1>1, <1>4, <2>2, FreePlusUsed DEF IInv, SpaceInv
    <3>3. At(wpos + k) = Wrap(head + k)
      BY <1>3, <1>4, <2>2, <3>2 DEF At
    <3> QED
      BY <1>1, <1>4, <2>2, <3>1, <3>3
  <2> QED
    BY <1>1, <2>1, <2>2
<1>12. HeldInv'
  BY <1>1, <1>4 DEF IInv, HeldInv
<1>13. ReaderInv'
  <2>1. next \in 1 .. L + 1
    BY <1>1 DEF IInv, ReaderInv
  <2>2. StartOf(next)' = StartOf(next)
    BY <1>9, <2>1
  <2>3. PICK j \in 1 .. L + 1 : StartOf(j) = rpos + m_lastreadsize
    BY DEF IInv, ReaderInv
  <2>4. j \in 1 .. Len(log') + 1 /\ StartOf(j)' = rpos' + m_lastreadsize'
    BY <1>1, <1>4, <1>9, <2>3
  <2>5. \E x \in 1 .. Len(log') + 1 : StartOf(x)' = rpos' + m_lastreadsize'
    BY <2>4
  <2>6. /\ wpos' = wpos + n /\ UNCHANGED <<rpos, next, tail, readerVars>>
    OBVIOUS
  <2>7. ReaderInv
    BY DEF IInv
  <2>8. m_lastreadsize <= wpos' - rpos /\ next <= Len(log') + 1
    <3>1. m_lastreadsize <= wpos - rpos
      BY <2>7 DEF ReaderInv
    <3> HIDE DEF n, L, Publish
    <3> QED
      BY ONLY <1>1, <1>4, <2>1, <2>6, <3>1, SMTT(60)
  <2> QED
    BY ONLY <2>2, <2>5, <2>6, <2>7, <2>8, SMTT(60) DEF ReaderInv, readerVars
<1> QED
  BY <1>6, <1>7, <1>8, <1>10, <1>11, <1>12, <1>13 DEF IInv

---------------------------------------------------------------------------
\* The steps of scap_next_live and of the flush behind the setters

\* The types of the published events, for the steps below.
LEMMA LogTypes ==
    ASSUME IInv, NEW i \in 1 .. Len(log)
    PROVE  log[i] \in Event /\ log[i].start \in Nat /\ log[i].len \in Nat /\ log[i].len >= 1
<1>1. log[i] \in Event
  BY DEF IInv, TypeOK
<1> QED
  BY <1>1 DEF Event, IInv, LogInv

\* What the reader parses next is the next event, complete: the bytes it has
\* left end where some event ends, and events tile the stream.
LEMMA NextEventReady == IInv => NextInOrder
<1> SUFFICES ASSUME IInv, m_sn_len > 0
             PROVE  /\ next <= Len(log)
                    /\ Mapped(m_sn_next_event) = [evt |-> log[next], off |-> 0]
                    /\ log[next].len <= m_sn_len
  BY DEF NextInOrder
<1> DEFINE L == Len(log)
<1>1. /\ L \in Nat /\ next \in Nat \ {0} /\ next <= L + 1
      /\ wpos \in Nat /\ rpos \in Nat /\ tail \in Nat
      /\ m_sn_len \in Nat /\ m_lastreadsize \in Nat /\ m_sn_len <= m_lastreadsize
      /\ m_sn_next_event = tail + (m_lastreadsize - m_sn_len)
      /\ StartOf(next) = rpos + m_lastreadsize - m_sn_len
  BY DEF IInv, TypeOK, ReaderInv
<1>2. PICK j \in 1 .. L + 1 : StartOf(j) = rpos + m_lastreadsize
  BY DEF IInv, ReaderInv
<1>3. StartOf(next) < StartOf(j) /\ StartOf(j) - StartOf(next) = m_sn_len
  BY <1>1, <1>2
<1>4. StartOf(j) <= wpos
  <2>1. CASE j <= L
    <3>1. StartOf(j) = log[j].start /\ j \in 1 .. L
      BY <1>1, <2>1 DEF StartOf
    <3>2. log[j].start \in Nat /\ log[j].len \in Nat
      BY <3>1, LogTypes
    <3>3. log[j].start + log[j].len <= wpos
      BY <3>1 DEF IInv, LogInv
    <3>4. wpos \in Nat
      BY <1>1
    <3> HIDE DEF L
    <3>5. log[j].start <= wpos
      BY ONLY <3>2, <3>3, <3>4, SMTT(60)
    <3> QED
      BY ONLY <3>1, <3>5, SMTT(60)
  <2>2. CASE ~(j <= L)
    BY <1>1, <2>2 DEF StartOf
  <2> QED
    BY <2>1, <2>2
<1>5. next <= L
  <2> SUFFICES ASSUME ~(next <= L) PROVE FALSE
    OBVIOUS
  <2>1. StartOf(next) = wpos
    BY DEF StartOf
  <2> QED
    BY <1>1, <1>2, <1>3, <1>4, <2>1
<1>6. next \in 1 .. L /\ StartOf(next) = log[next].start
  BY <1>1, <1>5 DEF StartOf
<1>7. log[next].start \in Nat /\ log[next].len \in Nat /\ log[next].len >= 1
  BY <1>6, LogTypes
<1>8. log[next].start + log[next].len <= StartOf(j)
  <2>1. CASE j <= L
    <3>1. StartOf(j) = log[j].start /\ j \in 1 .. L
      BY <1>1, <2>1 DEF StartOf
    <3>2. log[j].start \in Nat /\ log[j].len \in Nat /\ log[j].len >= 1
      BY <3>1, LogTypes
    <3>3. ~(j < next)
      <4> SUFFICES ASSUME j < next PROVE FALSE
        OBVIOUS
      <4>1. log[j].start + log[j].len <= log[next].start
        BY <1>6, <3>1 DEF IInv, LogInv
      <4> QED
        BY <1>3, <1>6, <1>7, <3>1, <3>2, <4>1
    <3>4. j # next
      BY <1>3, <1>6, <1>7
    <3>5. next < j
      BY <1>1, <3>1, <3>3, <3>4
    <3> QED
      BY <1>6, <3>1, <3>5 DEF IInv, LogInv
  <2>2. CASE ~(j <= L)
    BY <1>1, <1>6, <2>2 DEF IInv, LogInv, StartOf
  <2> QED
    BY <2>1, <2>2
<1>9. log[next].len <= m_sn_len
  BY <1>1, <1>2, <1>3, <1>6, <1>7, <1>8
<1>10. Mapped(m_sn_next_event) = [evt |-> log[next], off |-> 0]
  <2>1. 0 \in 0 .. log[next].len - 1 /\ log[next].start + 0 >= rpos
        /\ m_sn_next_event = tail + ((log[next].start + 0) - rpos)
    BY ONLY <1>1, <1>6, <1>7, ZenonT(10), SMTT(60)
  <2>2. buffer[At(log[next].start + 0)] = [evt |-> log[next], off |-> 0]
    BY <1>6, <2>1 DEF IInv, EventsIntact
  <2> QED
    BY <2>1, <2>2 DEF At, Mapped
<1> QED
  BY <1>5, <1>9, <1>10

\* What returning an event does: the header's length is the next event's, so
\* the corruption test does not fire.
LEMMA NextEventEffect ==
    ASSUME IInv, NextEvent
    PROVE  /\ next \in 1 .. Len(log) /\ log[next] \in Event
           /\ log[next].len \in Nat /\ log[next].len >= 1 /\ log[next].len <= m_sn_len
           /\ held' = [evt |-> log[next], at |-> m_sn_next_event]
           /\ m_sn_len' = m_sn_len - log[next].len
           /\ m_sn_next_event' = m_sn_next_event + log[next].len
           /\ next' = next + 1
           /\ UNCHANGED <<failed, ringVars, kernelVars, statVars, callVars, rpc,
                          m_lastreadsize, log, wpos, rpos>>
<1> DEFINE len == log[next].len
           cell == Mapped(m_sn_next_event)
<1>1. cell = [evt |-> log[next], off |-> 0] /\ next <= Len(log) /\ len <= m_sn_len
  <2>1. NextInOrder /\ m_sn_len > 0
    BY NextEventReady DEF NextEvent
  <2> QED
    BY <2>1 DEF NextInOrder
<1>2. next \in Nat \ {0} /\ Len(log) \in Nat /\ m_sn_len \in Nat
  BY DEF IInv, TypeOK
<1>3. next \in 1 .. Len(log)
  BY ONLY <1>1, <1>2, SMTT(60)
<1>4. log[next] \in Event /\ len \in Nat /\ len >= 1
  BY <1>3, LogTypes
<1>5. LenRead(cell) = {len}
  BY ONLY <1>1, SMTT(60) DEF LenRead
<1>6. ~(len > m_sn_len)
  <2> HIDE DEF len
  <2> QED
    BY ONLY <1>1, <1>2, <1>4, SMTT(60)
<1>7. PICK x \in LenRead(cell) :
         IF x > m_sn_len
         THEN /\ failed' = TRUE
              /\ UNCHANGED <<held, m_sn_len, m_sn_next_event, next>>
         ELSE /\ held' = [evt |-> cell.evt, at |-> m_sn_next_event]
              /\ m_sn_len' = m_sn_len - x
              /\ m_sn_next_event' = m_sn_next_event + x
              /\ next' = next + 1
              /\ UNCHANGED failed
  BY DEF NextEvent
<1>8. x = len
  BY <1>5
<1>9. /\ held' = [evt |-> cell.evt, at |-> m_sn_next_event]
      /\ m_sn_len' = m_sn_len - len /\ m_sn_next_event' = m_sn_next_event + len
      /\ next' = next + 1 /\ UNCHANGED failed
  <2> HIDE DEF len, cell
  <2> QED
    BY ONLY <1>6, <1>7, <1>8, ZenonT(60)
<1>10. cell.evt = log[next]
  BY ONLY <1>1, SMTT(60)
<1>11. UNCHANGED <<ringVars, kernelVars, statVars, callVars, rpc, m_lastreadsize,
                   log, wpos, rpos>>
  BY DEF NextEvent
<1> HIDE DEF cell
<1> QED
  BY ONLY <1>1, <1>3, <1>4, <1>9, <1>10, <1>11, SMTT(60)

\* Return an event: it is the next one, and the corruption test never fires.
LEMMA NextEventInv == ASSUME IInv, NextEvent PROVE IInv'
<1> USE DEF ringVars, kernelVars, statVars, callVars
<1> DEFINE len == log[next].len
<1>1. /\ Mapped(m_sn_next_event) = [evt |-> log[next], off |-> 0]
      /\ next <= Len(log) /\ len <= m_sn_len
  <2>1. NextInOrder /\ m_sn_len > 0
    BY NextEventReady DEF NextEvent
  <2> QED
    BY <2>1 DEF NextInOrder
<1>2. next \in 1 .. Len(log) /\ Len(log) \in Nat
  BY NextEventEffect DEF IInv, TypeOK
<1>3. log[next] \in Event /\ len \in Nat /\ len >= 1
  BY NextEventEffect
<1>4. /\ held' = [evt |-> log[next], at |-> m_sn_next_event]
      /\ m_sn_len' = m_sn_len - len /\ m_sn_next_event' = m_sn_next_event + len
      /\ next' = next + 1
      /\ UNCHANGED <<failed, ringVars, kernelVars, statVars, callVars, rpc, m_lastreadsize,
                     log, wpos, rpos>>
  BY NextEventEffect
<1>7. TypeOK'
  <2>1. held' \in [evt : Event, at : Nat \cup {-1}]
    BY <1>3, <1>4 DEF IInv, TypeOK
  <2>2. m_sn_len' \in Nat /\ m_sn_next_event' \in Nat /\ next' \in Nat \ {0}
    <3>1. m_sn_len \in Nat /\ m_sn_next_event \in Nat /\ next \in Nat \ {0}
      BY DEF IInv, TypeOK
    <3> HIDE DEF len
    <3> QED
      BY ONLY <1>1, <1>3, <1>4, <3>1, SMTT(60)
  <2> QED
    BY <1>4, <2>1, <2>2 DEF IInv, TypeOK
<1>8. GateInv' /\ SpaceInv' /\ NoCorruption' /\ CountersAddUp'
  BY <1>4 DEF IInv, GateInv, SpaceInv, ReadSize, NoCorruption, CountersAddUp
<1>9. LogInv' /\ CallInv' /\ EventsIntact'
  BY <1>4 DEF IInv, LogInv, StartOf, CallInv, EventsIntact, At
<1>10. /\ m_sn_len \in Nat /\ m_lastreadsize \in Nat /\ m_sn_len <= m_lastreadsize
       /\ m_sn_next_event = tail + (m_lastreadsize - m_sn_len)
       /\ log[next].start = rpos + m_lastreadsize - m_sn_len
       /\ rpos \in Nat /\ tail \in Nat /\ rpc = "idle" /\ wpos \in Nat
  BY <1>1 DEF IInv, TypeOK, ReaderInv, StartOf, NextEvent
<1>11. HeldInv'
  <2>1. m_sn_next_event \in Nat /\ m_sn_next_event >= tail
        /\ log[next].start = rpos + (m_sn_next_event - tail)
    BY <1>10
  <2>2. \E h \in 1 .. Len(log) :
            /\ held'.evt = log[h]
            /\ held'.at \in Nat /\ held'.at >= tail
            /\ log[h].start = rpos + (held'.at - tail)
    BY <1>2, <1>4, <2>1
  <2> QED
    BY <1>4, <2>2 DEF HeldInv
<1>12. ReaderInv'
  <2>1. StartOf(next + 1) = log[next].start + len
    BY <1>2 DEF IInv, LogInv
  <2>2. StartOf(next)' = StartOf(next + 1)
    BY <1>4 DEF StartOf
  <2>3. StartOf(next)' = rpos + m_lastreadsize - m_sn_len'
    BY <1>3, <1>4, <1>10, <2>1, <2>2
  <2>4. m_sn_len' <= m_lastreadsize /\ next' <= Len(log) + 1
        /\ m_sn_next_event' = tail + (m_lastreadsize - m_sn_len')
    <3> HIDE DEF len
    <3>1. m_sn_len' <= m_lastreadsize /\ m_sn_next_event' = tail + (m_lastreadsize - m_sn_len')
      BY ONLY <1>3, <1>4, <1>10, SMTT(60)
    <3>2. next' <= Len(log) + 1
      BY ONLY <1>2, <1>4, SMTT(60)
    <3> QED
      BY ONLY <3>1, <3>2
  <2>5. \E j \in 1 .. Len(log) + 1 : StartOf(j)' = rpos + m_lastreadsize
    BY <1>4 DEF IInv, ReaderInv, StartOf
  <2>6. m_lastreadsize <= wpos - rpos
    BY DEF IInv, ReaderInv
  <2> QED
    BY ONLY ZenonT(60), <1>4, <1>10, <2>3, <2>4, <2>5, <2>6 DEF ReaderInv
<1> QED
  BY <1>7, <1>8, <1>9, <1>11, <1>12 DEF IInv

\* Release what was served: the bytes behind it stay where they are.
LEMMA AdvanceTailInv == ASSUME IInv, AdvanceTail PROVE IInv'
<1> USE DEF AdvanceTail, Released, kernelVars, statVars, callVars
<1> DEFINE n == m_lastreadsize
<1>1. /\ head \in 0 .. RING_BUF_SIZE - 1 /\ tail \in 0 .. RING_BUF_SIZE - 1
      /\ n \in Nat /\ wpos \in Nat /\ rpos \in Nat /\ m_sn_len = 0
      /\ wpos - rpos = ReadSize(head, tail) /\ n <= ReadSize(head, tail)
      /\ ReadSize(head, tail) \in Nat
  BY FreePlusUsed DEF IInv, TypeOK, SpaceInv, ReaderInv
<1>2. /\ tail' = Wrap(tail + n) /\ rpos' = rpos + n
      /\ tail' \in 0 .. RING_BUF_SIZE - 1
      /\ ReadSize(head, tail') = ReadSize(head, tail) - n
      /\ \A d \in Nat : n <= d /\ d < ReadSize(head, tail) =>
            Wrap(tail' + (d - n)) = Wrap(tail + d)
  BY <1>1, TailMoves
<1>3. TypeOK'
  <2>1. NoHeld \in [evt : Event, at : Nat \cup {-1}]
    BY DEF NoHeld, Zero, Event
  <2> QED
    BY <1>1, <1>2, <2>1 DEF IInv, TypeOK
<1>4. SpaceInv'
  <2>1. wpos - (rpos + n) = ReadSize(head, tail) - n
    BY <1>1
  <2> QED
    BY <1>2, <2>1 DEF SpaceInv
<1>5. GateInv' /\ NoCorruption' /\ CountersAddUp' /\ HeldInv'
  BY DEF IInv, GateInv, NoCorruption, CountersAddUp, HeldInv
<1>6. LogInv'
  BY DEF IInv, LogInv, StartOf
<1>7. CallInv'
  <2>1. /\ FreeSpace(head, tail) \in Int /\ FreeSpace(head, tail') \in Int
        /\ FreeSpace(head, tail) <= FreeSpace(head, tail')
    BY <1>1, <1>2, FreePlusUsed, SizeAssumption
  <2>2. lhead \in 0 .. RING_BUF_SIZE - 1 /\ ttail \in 0 .. RING_BUF_SIZE - 1
    BY DEF IInv, TypeOK
  <2>3. FreeSpace(lhead, ttail) \in Int
    BY <2>2, FreePlusUsed
  <2>4. FreeSpace(lhead, ttail) <= FreeSpace(head, tail) =>
           FreeSpace(lhead, ttail) <= FreeSpace(head, tail')
    BY ONLY <2>1, <2>3, SMTT(60)
  <2> QED
    BY <2>4 DEF IInv, CallInv
<1>8. EventsIntact'
  <2> SUFFICES ASSUME NEW i \in 1 .. Len(log), NEW k \in 0 .. log[i].len - 1,
                      log[i].start + k >= rpos'
               PROVE  buffer[At(log[i].start + k)'] = [evt |-> log[i], off |-> k]
    BY DEF EventsIntact, At
  <2> DEFINE d == (log[i].start + k) - rpos
  <2>1. log[i].start \in Nat /\ log[i].len \in Nat
    BY LogTypes
  <2>2. log[i].start + k >= rpos /\ d >= n /\ d - n = (log[i].start + k) - rpos'
    <3>1. ASSUME NEW p \in Nat, p >= rpos'
          PROVE  p >= rpos /\ p - rpos >= n /\ (p - rpos) - n = p - rpos'
      BY ONLY <1>1, <1>2, <3>1, SMTT(60)
    <3>2. log[i].start + k \in Nat
      BY <2>1
    <3> QED
      BY <3>1, <3>2
  <2>3. d \in Nat /\ d < ReadSize(head, tail)
    BY <2>2, Unreleased
  <2>4. buffer[At(log[i].start + k)] = [evt |-> log[i], off |-> k]
    BY <2>2 DEF IInv, EventsIntact
  <2>5. At(log[i].start + k) = Wrap(tail + d)
    BY DEF At
  <2>6. At(log[i].start + k)' = Wrap(tail' + (d - n))
    BY <2>2 DEF At
  <2> HIDE DEF d
  <2>7. Wrap(tail' + (d - n)) = Wrap(tail + d)
    BY <1>2, <2>2, <2>3
  <2> QED
    BY <2>4, <2>5, <2>6, <2>7
<1>9. ReaderInv'
  <2>1. next <= Len(log) + 1 /\ StartOf(next) = rpos + n - m_sn_len
        /\ n <= wpos - rpos /\ next \in 1 .. Len(log) + 1
    BY DEF IInv, TypeOK, ReaderInv
  <2>2. \A x \in 1 .. Len(log) + 1 : StartOf(x)' = StartOf(x)
    BY DEF StartOf
  <2>3. StartOf(next)' = rpos' + m_lastreadsize' - m_sn_len'
        /\ StartOf(next)' = rpos' + m_lastreadsize'
    BY <1>1, <1>2, <2>1, <2>2
  <2>4. \E j \in 1 .. Len(log) + 1 : StartOf(j)' = rpos' + m_lastreadsize'
    BY <2>1, <2>3
  <2>5. m_lastreadsize' <= wpos' - rpos' /\ m_sn_len' <= m_lastreadsize'
        /\ ~(m_sn_len' > 0)
    BY <1>1, <1>2, <2>1
  <2> QED
    BY <1>1, <2>1, <2>3, <2>4, <2>5 DEF ReaderInv
<1> QED
  BY <1>3, <1>4, <1>5, <1>6, <1>7, <1>8, <1>9 DEF IInv

\* Both ways of reading the ring anew leave the reader at the end of an event.
LEMMA RefillInv == ASSUME IInv, Refill PROVE IInv'
<1> USE DEF Refill, ringVars, kernelVars, statVars, callVars, ghostVars
<1>1. ReadSize(head, tail) \in Nat /\ wpos - rpos = ReadSize(head, tail)
  BY FreePlusUsed DEF IInv, TypeOK, SpaceInv
<1>2. TypeOK'
  BY <1>1 DEF IInv, TypeOK
<1>3. GateInv' /\ SpaceInv' /\ NoCorruption' /\ CountersAddUp'
  BY DEF IInv, GateInv, SpaceInv, ReadSize, NoCorruption, CountersAddUp
<1>4. LogInv' /\ CallInv' /\ HeldInv' /\ EventsIntact'
  BY LogFrame, CallFrame, HeldFrame, IntactFrame DEF IInv
<1>5. ReaderInv'
  <2>1. /\ next <= Len(log) + 1 /\ StartOf(next) = rpos + m_lastreadsize - m_sn_len
        /\ m_lastreadsize = 0 /\ m_sn_len = 0 /\ tail \in Nat
        /\ wpos \in Nat /\ rpos \in Nat /\ Len(log) \in Nat
    BY DEF IInv, TypeOK, ReaderInv
  <2>2. StartOf(next)' = StartOf(next) /\ StartOf(Len(log) + 1)' = wpos
    BY <2>1 DEF StartOf
  <2>3. /\ StartOf(next)' = rpos' + m_lastreadsize' - m_sn_len'
        /\ StartOf(Len(log) + 1)' = rpos' + m_lastreadsize'
        /\ m_sn_next_event' = tail' + (m_lastreadsize' - m_sn_len')
        /\ m_lastreadsize' <= wpos' - rpos'
    BY <1>1, <2>1, <2>2
  <2>4. \E j \in 1 .. Len(log) + 1 : StartOf(j)' = rpos' + m_lastreadsize'
    BY <2>1, <2>3
  <2> QED
    BY <1>1, <2>1, <2>3, <2>4 DEF ReaderInv
<1> QED
  BY <1>2, <1>3, <1>4, <1>5 DEF IInv

\* scap_set_snaplen's flush: what it throws away is counted as parsed.
LEMMA FlushInv == ASSUME IInv, Flush PROVE IInv'
<1> USE DEF Flush, ringVars, kernelVars, statVars, callVars
<1>1. ReadSize(head, tail) \in Nat /\ wpos - rpos = ReadSize(head, tail)
  BY FreePlusUsed DEF IInv, TypeOK, SpaceInv
<1>2. /\ tail \in Nat /\ wpos \in Nat /\ rpos \in Nat /\ Len(log) \in Nat
  BY DEF IInv, TypeOK
<1>3. TypeOK'
  BY <1>1, <1>2 DEF IInv, TypeOK
<1>4. GateInv' /\ SpaceInv' /\ NoCorruption' /\ CountersAddUp'
  BY DEF IInv, GateInv, SpaceInv, ReadSize, NoCorruption, CountersAddUp
<1>5. LogInv' /\ CallInv' /\ HeldInv' /\ EventsIntact'
  <2>1. LogInv' /\ HeldInv'
    BY LogFrame, HeldFrame DEF IInv
  <2>2. CallInv' /\ EventsIntact'
    BY DEF IInv, CallInv, EventsIntact, At
  <2> QED
    BY <2>1, <2>2
<1>6. ReaderInv'
  <2>1. StartOf(next)' = wpos /\ StartOf(Len(log) + 1)' = wpos
    <3>1. next' = Len(log) + 1 /\ UNCHANGED <<log, wpos, rpos>>
      OBVIOUS
    <3>2. ~(Len(log) + 1 <= Len(log))
      BY ONLY <1>2, SMTT(60)
    <3> QED
      BY ONLY <3>1, <3>2, SMTT(60) DEF StartOf
  <2>2. /\ StartOf(next)' = rpos' + m_lastreadsize' - m_sn_len'
        /\ StartOf(Len(log) + 1)' = rpos' + m_lastreadsize'
        /\ m_lastreadsize' <= wpos' - rpos'
    BY <1>1, <1>2, <2>1
  <2>3. \E j \in 1 .. Len(log) + 1 : StartOf(j)' = rpos' + m_lastreadsize'
    BY <1>2, <2>2
  <2> QED
    BY <1>1, <1>2, <2>2, <2>3 DEF ReaderInv
<1> QED
  BY <1>3, <1>4, <1>5, <1>6 DEF IInv

---------------------------------------------------------------------------
\* The theorems

\* Every step of the driver and of libscap preserves the invariant.
LEMMA NextInv == IInv /\ [Next]_vars => IInv'
<1> SUFFICES ASSUME IInv, [Next]_vars PROVE IInv'
  OBVIOUS
<1>1. CASE \E on \in BOOLEAN : SetCapture(on)
  BY <1>1, SetCaptureInv
<1>2. CASE \E pageFault \in BOOLEAN, len \in EvtSizes : RecordEvent(pageFault, len)
  BY <1>2, RecordEventInv
<1>3. CASE ReadPointers
  BY <1>3, ReadPointersInv
<1>4. CASE FillOk
  BY <1>4, FillOkInv
<1>5. CASE NoSpace
  BY <1>5, NoSpaceInv
<1>6. CASE FillFull
  BY <1>6, FillFullInv
<1>7. CASE \E cbres \in Outcomes : FillFailed(cbres)
  BY <1>7, FillFailedInv
<1>8. CASE CopyCushion
  BY <1>8, CopyCushionInv
<1>9. CASE Publish
  BY <1>9, PublishInv
<1>10. CASE RecordExit
  BY <1>10, RecordExitInv
<1>11. CASE NextEvent
  BY <1>11, NextEventInv
<1>12. CASE AdvanceTail
  BY <1>12, AdvanceTailInv
<1>13. CASE Refill
  BY <1>13, RefillInv
<1>14. CASE Flush
  BY <1>14, FlushInv
<1>15. CASE SetSnaplen
  BY <1>15, SetSnaplenInv
<1>16. CASE UNCHANGED vars
  <2> USE <1>16 DEF vars, ringVars, kernelVars, statVars, callVars, readerVars, ghostVars
  <2>1. TypeOK'
    BY DEF IInv, TypeOK
  <2>2. GateInv' /\ SpaceInv' /\ NoCorruption' /\ CountersAddUp'
    BY DEF IInv, GateInv, SpaceInv, ReadSize, NoCorruption, CountersAddUp
  <2>3. LogInv' /\ HeldInv'
    BY LogFrame, HeldFrame DEF IInv
  <2>4. CallInv' /\ EventsIntact'
    BY ZenonT(60) DEF IInv, CallInv, EventsIntact, At
  <2>5. ReaderInv'
    BY DEF IInv, ReaderInv, StartOf
  <2> QED
    BY <2>1, <2>2, <2>3, <2>4, <2>5 DEF IInv
<1> QED
  BY <1>1, <1>2, <1>3, <1>4, <1>5, <1>6, <1>7, <1>8, <1>9, <1>10, <1>11, <1>12, <1>13,
     <1>14, <1>15, <1>16 DEF Next, Producer, ScapNext

\* Every reachable state satisfies the inductive invariant.
THEOREM Invariance == Spec => []IInv
  BY InitInv, NextInv, PTL DEF Spec

\* The variables of the ring, of a recording call and of the reader keep their
\* types; in particular head and tail stay inside the ring.
THEOREM TypeCorrect == Spec => []TypeOK
<1>1. IInv => TypeOK
  BY DEF IInv
<1> QED
  BY <1>1, Invariance, PTL

\* No recording, of any size, overwrites a published event before
\* scap_advance_tail gave its bytes back.
THEOREM Integrity == Spec => []EventsIntact
<1>1. IInv => EventsIntact
  BY DEF IInv
<1> QED
  BY <1>1, Invariance, PTL

\* The event the caller of scap_next works on is intact until its next call.
THEOREM HeldIntegrity == Spec => []HeldIntact
<1>1. IInv => HeldIntact
  <2> SUFFICES ASSUME IInv, held # NoHeld, NEW k \in 0 .. held.evt.len - 1
               PROVE  Mapped(held.at + k) = [evt |-> held.evt, off |-> k]
    BY DEF HeldIntact
  <2>1. PICK h \in 1 .. Len(log) :
            /\ held.evt = log[h] /\ held.at \in Nat /\ held.at >= tail
            /\ log[h].start = rpos + (held.at - tail)
    BY DEF IInv, HeldInv
  <2>2. log[h].start \in Nat /\ log[h].len \in Nat /\ rpos \in Nat /\ tail \in Nat
    BY LogTypes DEF IInv, TypeOK
  <2>3. log[h].start + k >= rpos
    BY <2>1, <2>2
  <2>4. buffer[At(log[h].start + k)] = [evt |-> log[h], off |-> k]
    BY <2>1, <2>3 DEF IInv, EventsIntact
  <2>5. tail + ((log[h].start + k) - rpos) = held.at + k
    BY <2>1, <2>2
  <2> QED
    BY <2>1, <2>4, <2>5 DEF At, Mapped
<1> QED
  BY <1>1, Invariance, PTL

\* scap_next parses the events in the order of recording, each one complete.
THEOREM InOrder == Spec => []NextInOrder
  BY NextEventReady, Invariance, PTL

\* scap_next never reports "scap_next buffer corruption" while the device stays open.
THEOREM Uncorrupted == Spec => []NoCorruption
<1>1. IInv => NoCorruption
  BY DEF IInv
<1> QED
  BY <1>1, Invariance, PTL

\* The counters of the ring account for every event exactly once.
THEOREM Accounting == Spec => []CountersAddUp
<1>1. IInv => CountersAddUp
  BY DEF IInv
<1> QED
  BY <1>1, Invariance, PTL

\* The tail never passes an event that was neither parsed nor flushed.
THEOREM NothingSkipped == Spec => []ReleasedWasServed
<1>1. IInv => ReleasedWasServed
  <2> SUFFICES ASSUME IInv, NEW i \in 1 .. Len(log), log[i].start < rpos, ~(i < next)
               PROVE  FALSE
    BY DEF ReleasedWasServed
  <2>1. /\ next \in Nat \ {0} /\ rpos \in Nat /\ m_lastreadsize \in Nat /\ m_sn_len \in Nat
        /\ m_sn_len <= m_lastreadsize
        /\ StartOf(next) = rpos + m_lastreadsize - m_sn_len
    BY DEF IInv, TypeOK, ReaderInv
  <2>2. next \in 1 .. Len(log) /\ StartOf(next) = log[next].start
    BY <2>1 DEF StartOf
  <2>3. /\ log[i].start \in Nat
        /\ log[next].start \in Nat /\ log[next].len \in Nat /\ log[next].len >= 1
    BY <2>2, LogTypes
  <2>4. CASE next = i
    BY <2>1, <2>2, <2>3, <2>4
  <2>5. CASE next < i
    <3>1. log[next].start + log[next].len <= log[i].start
      BY <2>2, <2>5 DEF IInv, LogInv
    <3> QED
      BY <2>1, <2>2, <2>3, <3>1
  <2> QED
    BY <2>1, <2>4, <2>5
<1> QED
  BY <1>1, Invariance, PTL

---------------------------------------------------------------------------
\* Refinement

\* Each step of the ring is a step of the abstract queue or leaves it alone.
LEMMA FifoStep ==
    ASSUME IInv, [Next]_vars
    PROVE  [Fifo!Next]_<<log, next, held.evt>>
<1> USE DEF Fifo!Next
<1>1. CASE Publish
  <2>1. log \in Seq(Event) /\ evt \in Event /\ evt.id = Len(log)
    BY <1>1 DEF IInv, TypeOK, CallInv, LogInv, Publish
  <2>2. log' = Append(log, evt) /\ UNCHANGED <<next, held>>
    BY <1>1 DEF Publish, readerVars
  <2>3. /\ Len(log') = Len(log) + 1 /\ log'[Len(log) + 1] = evt
    BY <2>1, <2>2
  <2>4. Fifo!Record
    BY <2>1, <2>2, <2>3 DEF Fifo!Record
  <2> QED
    BY <2>4
<1>2. CASE NextEvent
  <2>1. /\ next <= Len(log) /\ held' = [evt |-> log[next], at |-> m_sn_next_event]
        /\ next' = next + 1 /\ log' = log
    BY <1>2, NextEventEffect DEF IInv, TypeOK
  <2>2. held'.evt = log[next]
    BY ONLY <2>1, SMTT(60)
  <2>3. Fifo!Take
    BY <2>1, <2>2 DEF Fifo!Take
  <2> QED
    BY <2>3
<1>3. CASE AdvanceTail
  <2>1. Fifo!Release
    BY <1>3 DEF AdvanceTail, Fifo!Release, NoHeld
  <2> QED
    BY <2>1
<1>4. CASE Flush
  <2>1. Fifo!Flush
    BY <1>4 DEF Flush, Fifo!Flush
  <2> QED
    BY <2>1
<1>5. CASE UNCHANGED <<log, next, held>>
  BY <1>5
<1>6. \/ Publish \/ NextEvent \/ AdvanceTail \/ Flush
      \/ UNCHANGED <<log, next, held>>
  BY DEF Next, Producer, ScapNext, vars, readerVars, ghostVars, SetCapture, RecordEvent,
         ReadPointers, FillOk, NoSpace, FillFull, FillFailed, CopyCushion, RecordExit,
         Refill, SetSnaplen
<1> QED
  BY <1>1, <1>2, <1>3, <1>4, <1>5, <1>6

\* The kernel side and the libscap side together implement the queue of
\* EventFifo: what was recorded comes out in order, once and undamaged, and
\* only a flush skips.
THEOREM Refinement == Spec => ImplementsFifo
<1>1. Init => Fifo!Init
  BY DEF Init, Fifo!Init, NoHeld
<1>2. IInv /\ [Next]_vars => [Fifo!Next]_<<log, next, held.evt>>
  BY FifoStep
<1> QED
  BY <1>1, <1>2, Invariance, PTL DEF Spec, ImplementsFifo, Fifo!Spec
=============================================================================
