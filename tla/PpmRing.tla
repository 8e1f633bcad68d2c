------------------------------ MODULE PpmRing ------------------------------
(***************************************************************************)
(* One per-CPU event ring: the kernel side of it (record_event_consumer in *)
(* driver/main.c, running on that CPU) and the libscap side (scap_next_live*)
(* and its helpers in userspace/libscap/scap.c, running on any CPU).       *)
(*                                                                         *)
(* A byte of the buffer is a cell naming the event it belongs to and its   *)
(* offset in it, so that what the reader finds can be compared with what   *)
(* was recorded.  An event's id is ring->nevents at the time it was filled *)
(* (the value the driver's own sentinel build puts in the header).         *)
(***************************************************************************)
EXTENDS Integers, Sequences

CONSTANTS RING_BUF_SIZE,  \* bytes of the ring that are mapped to user space
          CUSHION,        \* 2 * PAGE_SIZE, the overflow space behind the ring
          HDR_SIZE,       \* event header plus the 16-bit parameter lengths
          EvtSizes,       \* the event sizes that occur
          MaxEvts,        \* bound: events that reach the ring
          MaxSnaplen      \* bound: changes of the snaplen setting

ASSUME SizeAssumption ==
    /\ RING_BUF_SIZE \in Nat \ {0}
    /\ CUSHION \in Nat \ {0}
    /\ HDR_SIZE \in 1 .. CUSHION
    /\ EvtSizes \subseteq Nat
    /\ \A len \in EvtSizes : HDR_SIZE <= len
    /\ MaxEvts \in Nat
    /\ MaxSnaplen \in Nat

VARIABLES
    head, tail,           \* ppm_ring_buffer_info, mapped to user space
    buffer,               \* ring->buffer, cushion included
    preempt_count, capture_enabled, nevents,
    n_evts, n_drops_buffer, n_drops_pf, n_preemptions,
    snaplen,              \* consumer->snaplen
    pc, evt, lhead, ttail,\* the call of record_event_consumer in progress
    rpc,                  \* where libscap is: idle (in the caller), refill, flush
    m_lastreadsize, m_sn_len, m_sn_next_event,
    held,                 \* the event scap_next returned, still used by the caller
    failed,               \* scap_next returned "scap_next buffer corruption"
    log,                  \* ghost: the events published so far
    next,                 \* ghost: index in log of the next event to be parsed
    wpos, rpos,           \* ghost: bytes published and bytes released so far
    uncounted             \* ghost: events lost without a counter being raised

ringVars   == <<head, tail, buffer>>
kernelVars == <<preempt_count, capture_enabled, nevents, snaplen>>
statVars   == <<n_evts, n_drops_buffer, n_drops_pf, n_preemptions, uncounted>>
callVars   == <<pc, evt, lhead, ttail>>
readerVars == <<rpc, m_lastreadsize, m_sn_len, m_sn_next_event, held, failed>>
ghostVars  == <<log, next, wpos, rpos>>
vars == <<ringVars, kernelVars, statVars, callVars, readerVars, ghostVars>>

---------------------------------------------------------------------------
\* Data

Event == [id : Nat, len : Nat, snaplen : Nat, start : Nat]
Zero  == [evt |-> [id |-> 0, len |-> 0, snaplen |-> 0, start |-> 0], off |-> -1]
Cell  == [evt : Event, off : Nat \cup {-1}]
NoHeld == [evt |-> Zero.evt, at |-> -1]

Wrap(i) == IF i < RING_BUF_SIZE THEN i ELSE i - RING_BUF_SIZE

\* A name that begins with Bug is a deliberately wrong variant of the definition
\* that follows it; no specification uses it.  It serves to confirm that the
\* properties notice such a slip.
BugFreeSpace(h, t) ==
    IF t > h THEN t - h ELSE RING_BUF_SIZE + t - h

\* Free space the producer computes from its copies of head and tail.
FreeSpace(h, t) ==
    IF t > h THEN t - h - 1 ELSE RING_BUF_SIZE + t - h - 1

DeltaFromEnd(h) == RING_BUF_SIZE + CUSHION - h - 1

\* Bytes the filler may write, from the header on.
Avail(h, t) ==
    IF FreeSpace(h, t) < DeltaFromEnd(h) THEN FreeSpace(h, t) ELSE DeltaFromEnd(h)

BugReadSize(h, t) == IF t > h THEN RING_BUF_SIZE - t ELSE h - t

\* What get_buf_pointers makes of the two shared offsets.
ReadSize(h, t) == IF t > h THEN RING_BUF_SIZE - t + h ELSE h - t

\* The user mapping shows the ring twice in a row, so an event that crosses
\* the end is contiguous for the reader.
Mapped(i) == buffer[Wrap(i)]

\* The length the reader finds in a header; bytes from the middle of an event,
\* or never written, read as an arbitrary length.
LenRead(c) == IF c.off = 0 THEN {c.evt.len} ELSE 1 .. 2 * RING_BUF_SIZE

---------------------------------------------------------------------------
Init ==
    /\ head = 0 /\ tail = 0
    /\ buffer = [i \in 0 .. RING_BUF_SIZE + CUSHION - 1 |-> Zero]
    /\ preempt_count = 0 /\ capture_enabled = FALSE /\ nevents = 0
    /\ n_evts = 0 /\ n_drops_buffer = 0 /\ n_drops_pf = 0 /\ n_preemptions = 0
    /\ snaplen = 0
    /\ pc = "idle" /\ evt = Zero.evt /\ lhead = 0 /\ ttail = 0
    /\ rpc = "idle" /\ m_lastreadsize = 0 /\ m_sn_len = 0 /\ m_sn_next_event = 0
    /\ held = NoHeld /\ failed = FALSE
    /\ log = <<>> /\ next = 1 /\ wpos = 0 /\ rpos = 0 /\ uncounted = 0

---------------------------------------------------------------------------
\* Producer: record_event_consumer, on the CPU that owns the ring.

\* PPM_IOCTL_ENABLE_CAPTURE and PPM_IOCTL_DISABLE_CAPTURE.
SetCapture(on) ==
    /\ capture_enabled # on
    /\ capture_enabled' = on
    /\ UNCHANGED <<ringVars, preempt_count, nevents, snaplen, statVars,
                   callVars, readerVars, ghostVars>>

BugPreempted(pageFault) == n_preemptions
\* A nested page fault is ignored as a false alarm.
Preempted(pageFault) == IF pageFault THEN n_preemptions ELSE n_preemptions + 1

\* Entry up to and including the preemption gate.  An event that fires while
\* another one is being recorded on this CPU (from an interrupt, or from the
\* page fault of a filler's copy) does not get through.
RecordEvent(pageFault, len) ==
    /\ capture_enabled
    /\ n_evts < MaxEvts
    /\ n_evts' = n_evts + 1
    /\ IF preempt_count + 1 = 1
       THEN /\ preempt_count' = preempt_count + 1
            /\ pc' = "gated"
            /\ evt' = [id |-> nevents, len |-> len, snaplen |-> snaplen, start |-> wpos]
            /\ UNCHANGED <<n_preemptions, uncounted>>
       ELSE /\ n_preemptions' = Preempted(pageFault)
            /\ uncounted' = IF pageFault THEN uncounted + 1 ELSE uncounted
            /\ UNCHANGED <<preempt_count, pc, evt>>
    /\ UNCHANGED <<ringVars, capture_enabled, nevents, snaplen, n_drops_buffer,
                   n_drops_pf, lhead, ttail, readerVars, ghostVars>>

\* The offsets are read once; the reader may move the tail meanwhile.
ReadPointers ==
    /\ pc = "gated"
    /\ pc' = "filling"
    /\ lhead' = head /\ ttail' = tail
    /\ UNCHANGED <<ringVars, kernelVars, statVars, evt, readerVars, ghostVars>>

HeaderFits == FreeSpace(lhead, ttail) >= HDR_SIZE

\* Header and filler write the event at lhead.  Everything the filler was
\* given may have been written to, whether or not the event ends there.
Written(i, c) ==
    IF i \in lhead .. lhead + evt.len - 1 THEN [evt |-> c, off |-> i - lhead]
    ELSE IF i \in lhead .. lhead + Avail(lhead, ttail) - 1 THEN Zero
    ELSE buffer[i]

Scribbled(i) ==
    IF i \in lhead .. lhead + Avail(lhead, ttail) - 1 THEN Zero ELSE buffer[i]

FillOk ==
    /\ pc = "filling"
    /\ HeaderFits
    /\ evt.len <= Avail(lhead, ttail)
    /\ evt' = [evt EXCEPT !.snaplen = snaplen]
    /\ buffer' = [i \in DOMAIN buffer |-> Written(i, evt')]
    /\ pc' = "filled"
    /\ UNCHANGED <<head, tail, kernelVars, statVars, lhead, ttail, readerVars, ghostVars>>

\* Not even the header fits: nothing is written.
NoSpace ==
    /\ pc = "filling"
    /\ ~HeaderFits
    /\ n_drops_buffer' = n_drops_buffer + 1
    /\ pc' = "exit"
    /\ UNCHANGED <<ringVars, kernelVars, n_evts, n_drops_pf, n_preemptions, uncounted,
                   evt, lhead, ttail, readerVars, ghostVars>>

\* The filler ran out of room (PPM_FAILURE_BUFFER_FULL).
FillFull ==
    /\ pc = "filling"
    /\ HeaderFits
    /\ evt.len > Avail(lhead, ttail)
    /\ buffer' = [i \in DOMAIN buffer |-> Scribbled(i)]
    /\ n_drops_buffer' = n_drops_buffer + 1
    /\ pc' = "exit"
    /\ UNCHANGED <<head, tail, kernelVars, n_evts, n_drops_pf, n_preemptions, uncounted,
                   evt, lhead, ttail, readerVars, ghostVars>>

\* The filler failed for another reason: it added a wrong number of
\* parameters (cbres stays PPM_SUCCESS), it read invalid user memory, or it
\* returned PPM_FAILURE_BUG, for which no counter exists.
Outcomes == {"SUCCESS", "INVALID_USER_MEMORY", "BUG"}
FillFailed(cbres) ==
    /\ pc = "filling"
    /\ HeaderFits
    /\ buffer' = [i \in DOMAIN buffer |-> Scribbled(i)]
    /\ n_drops_buffer' = IF cbres = "SUCCESS" THEN n_drops_buffer + 1 ELSE n_drops_buffer
    /\ n_drops_pf' = IF cbres = "INVALID_USER_MEMORY" THEN n_drops_pf + 1 ELSE n_drops_pf
    /\ uncounted' = IF cbres = "BUG" THEN uncounted + 1 ELSE uncounted
    /\ pc' = "exit"
    /\ UNCHANGED <<head, tail, kernelVars, n_evts, n_preemptions,
                   evt, lhead, ttail, readerVars, ghostVars>>

BugCopied(i) == buffer[i]
\* What reached the cushion is copied to the start of the ring.
Copied(i) ==
    IF lhead + evt.len > RING_BUF_SIZE /\ i \in 0 .. lhead + evt.len - RING_BUF_SIZE - 1
    THEN buffer[RING_BUF_SIZE + i]
    ELSE buffer[i]

CopyCushion ==
    /\ pc = "filled"
    /\ buffer' = [i \in DOMAIN buffer |-> Copied(i)]
    /\ pc' = "copied"
    /\ UNCHANGED <<head, tail, kernelVars, statVars, evt, lhead, ttail, readerVars, ghostVars>>

\* After smp_wmb(): the new head makes the event visible.
Publish ==
    /\ pc = "copied"
    /\ head' = Wrap(lhead + evt.len)
    /\ nevents' = nevents + 1
    /\ log' = Append(log, evt)
    /\ wpos' = wpos + evt.len
    /\ pc' = "exit"
    /\ UNCHANGED <<tail, buffer, preempt_count, capture_enabled, snaplen, statVars,
                   evt, lhead, ttail, readerVars, next, rpos>>

RecordExit ==
    /\ pc = "exit"
    /\ preempt_count' = preempt_count - 1
    /\ pc' = "idle"
    /\ UNCHANGED <<ringVars, capture_enabled, nevents, snaplen, statVars,
                   evt, lhead, ttail, readerVars, ghostVars>>

---------------------------------------------------------------------------
\* Reader: scap_next_live and its helpers, on one device.

\* An event is still buffered: return it to the caller.
NextEvent ==
    /\ rpc = "idle" /\ ~failed
    /\ m_sn_len > 0
    /\ \E len \in LenRead(Mapped(m_sn_next_event)) :
         IF len > m_sn_len
         THEN /\ failed' = TRUE
              /\ UNCHANGED <<held, m_sn_len, m_sn_next_event, next>>
         ELSE /\ held' = [evt |-> Mapped(m_sn_next_event).evt, at |-> m_sn_next_event]
              /\ m_sn_len' = m_sn_len - len
              /\ m_sn_next_event' = m_sn_next_event + len
              /\ next' = next + 1
              /\ UNCHANGED failed
    /\ UNCHANGED <<ringVars, kernelVars, statVars, callVars, rpc, m_lastreadsize,
                   log, wpos, rpos>>

BugReleased == wpos - rpos
\* The bytes served by the previous refill.
Released == m_lastreadsize

\* Nothing is buffered: give back to the producer what the previous calls
\* served (the caller is done with it), then refill.
AdvanceTail ==
    /\ rpc = "idle" /\ ~failed
    /\ m_sn_len = 0
    /\ held' = NoHeld
    /\ tail' = Wrap(tail + Released)
    /\ rpos' = rpos + Released
    /\ m_lastreadsize' = 0
    /\ rpc' = "refill"
    /\ UNCHANGED <<head, buffer, kernelVars, statVars, callVars, m_sn_len, m_sn_next_event,
                   failed, log, next, wpos>>

\* refill_read_buffers: scap_readbuf, and SCAP_TIMEOUT to the caller.
Refill ==
    /\ rpc = "refill"
    /\ m_lastreadsize' = ReadSize(head, tail)
    /\ m_sn_len' = ReadSize(head, tail)
    /\ m_sn_next_event' = tail
    /\ rpc' = "idle"
    /\ UNCHANGED <<ringVars, kernelVars, statVars, callVars, held, failed, ghostVars>>

\* scap_set_snaplen (and the event-mask and port setters, which end the same
\* way): an ioctl changes the consumer's setting ...
SetSnaplen ==
    /\ rpc = "idle" /\ ~failed
    /\ snaplen < MaxSnaplen
    /\ snaplen' = snaplen + 1
    /\ rpc' = "flush"
    /\ UNCHANGED <<ringVars, preempt_count, capture_enabled, nevents, statVars, callVars,
                   m_lastreadsize, m_sn_len, m_sn_next_event, held, failed, ghostVars>>

\* ... then what the ring holds is read and thrown away.  The tail stays where
\* it is until the next call.
Flush ==
    /\ rpc = "flush"
    /\ m_lastreadsize' = ReadSize(head, tail)
    /\ m_sn_next_event' = tail
    /\ m_sn_len' = 0
    /\ next' = Len(log) + 1
    /\ rpc' = "idle"
    /\ UNCHANGED <<ringVars, kernelVars, statVars, callVars, held, failed, log, wpos, rpos>>

---------------------------------------------------------------------------
Producer ==
    \/ ReadPointers
    \/ FillOk
    \/ NoSpace
    \/ FillFull
    \/ \E cbres \in Outcomes : FillFailed(cbres)
    \/ CopyCushion
    \/ Publish
    \/ RecordExit

ScapNext == NextEvent \/ AdvanceTail \/ Refill \/ Flush

Next ==
    \/ \E on \in BOOLEAN : SetCapture(on)
    \/ \E pageFault \in BOOLEAN, len \in EvtSizes : RecordEvent(pageFault, len)
    \/ Producer
    \/ ScapNext
    \/ SetSnaplen

\* A call of record_event_consumer runs with preemption disabled and always
\* ends; the process that opened the devices keeps calling scap_next.
Fairness == WF_vars(Producer) /\ WF_vars(ScapNext)

Spec == Init /\ [][Next]_vars
FairSpec == Spec /\ Fairness
---------------------------------------------------------------------------
\* Properties

TypeOK ==
    /\ head \in 0 .. RING_BUF_SIZE - 1 /\ tail \in 0 .. RING_BUF_SIZE - 1
    /\ buffer \in [0 .. RING_BUF_SIZE + CUSHION - 1 -> Cell]
    /\ preempt_count \in Nat /\ capture_enabled \in BOOLEAN /\ nevents \in Nat
    /\ n_evts \in Nat /\ n_drops_buffer \in Nat /\ n_drops_pf \in Nat
    /\ n_preemptions \in Nat /\ uncounted \in Nat
    /\ snaplen \in Nat
    /\ pc \in {"idle", "gated", "filling", "filled", "copied", "exit"}
    /\ evt \in Event
    /\ lhead \in 0 .. RING_BUF_SIZE - 1 /\ ttail \in 0 .. RING_BUF_SIZE - 1
    /\ rpc \in {"idle", "refill", "flush"}
    /\ m_lastreadsize \in Nat /\ m_sn_len \in Nat /\ m_sn_next_event \in Nat
    /\ held \in [evt : Event, at : Nat \cup {-1}]
    /\ failed \in BOOLEAN
    /\ log \in Seq(Event) /\ next \in Nat \ {0} /\ wpos \in Nat /\ rpos \in Nat

\* The offset of a published, unreleased byte: counted from the tail.
At(p) == Wrap(tail + (p - rpos))

\* Every event that was published and whose bytes were not yet given back by
\* scap_advance_tail is in the ring, byte for byte as it was recorded,
\* whatever record_event_consumer is writing at the same time.
EventsIntact ==
    \A i \in 1 .. Len(log) : \A k \in 0 .. log[i].len - 1 :
        log[i].start + k >= rpos =>
            buffer[At(log[i].start + k)] = [evt |-> log[i], off |-> k]

\* The event that scap_next returned stays intact in the mapped buffer until
\* the caller calls scap_next again ("we assume that the caller is using the
\* buffer we give to her until she calls us again"), also across a flush.
HeldIntact ==
    held # NoHeld =>
        \A k \in 0 .. held.evt.len - 1 :
            Mapped(held.at + k) = [evt |-> held.evt, off |-> k]

\* What scap_next_live looks at next is the header of the next event in the
\* order of recording, complete: none is skipped, repeated or torn.
NextInOrder ==
    m_sn_len > 0 =>
        /\ next <= Len(log)
        /\ Mapped(m_sn_next_event) = [evt |-> log[next], off |-> 0]
        /\ log[next].len <= m_sn_len

\* The assertion behind "scap_next buffer corruption" is never reached.
NoCorruption == ~failed

\* Every event that reached the ring is accounted for once: recorded, counted
\* as a drop or a preemption, lost on a path that has no counter (nested page
\* faults and filler bugs), or still being recorded.
CountersAddUp ==
    n_evts = nevents + n_drops_buffer + n_drops_pf + n_preemptions + uncounted
             + (IF pc \in {"gated", "filling", "filled", "copied"} THEN 1 ELSE 0)

\* Once a call of scap_next found all data served and released it, everything
\* published before was parsed or flushed: the tail never passes an event that
\* was not.
ReleasedWasServed ==
    \A i \in 1 .. Len(log) : log[i].start < rpos => i < next

\* Every published event is eventually returned by scap_next or flushed: as long as
\* some are left, next advances, which it does in their order.
EventuallyServed == []<>(next > Len(log)) \/ []<><<next' > next>>_vars

\* The ring implements the abstract queue: recording order, no duplicates, no
\* damage, and no loss of a recorded event other than by a flush.
Fifo == INSTANCE EventFifo WITH NoEvent <- Zero.evt, sent <- log, out <- held.evt
ImplementsFifo == Fifo!Spec

\* scap_set_snaplen flushes "so we don't capture events with the old snaplen":
\* an event handed out after it has returned was filled with the new setting.  Does
\* not hold, see Observations in README.md.
NoOldSnaplen ==
    [][NextEvent /\ ~failed' => held'.evt.snaplen = snaplen]_vars
=============================================================================
