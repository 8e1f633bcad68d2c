----------------------------- MODULE ScapMerge -----------------------------
(***************************************************************************)
(* scap_next_live over all devices of a handle (userspace/libscap/scap.c). *)
(* Every CPU's driver publishes time-stamped events in its own ring; the   *)
(* reader takes what each ring holds, device after device, and hands the   *)
(* events out by time stamp until all are served, then takes again.        *)
(*                                                                         *)
(* A ring is what PpmRing is shown to implement, a queue of events, and    *)
(* its offsets and sizes count events.                                     *)
(***************************************************************************)
EXTENDS Naturals, Sequences

CONSTANTS ndevs,        \* handle->m_ndevs
          Payloads,     \* what an event says
          NoPayload,    \* stands where there is no event
          MaxEvts       \* bound: events per CPU

ASSUME DevsAssumption == ndevs \in Nat \ {0} /\ MaxEvts \in Nat

Devs == 0 .. ndevs - 1

VARIABLES
    clock,              \* getnstimeofday, read by all CPUs
    stamp,              \* per CPU: the event that has its time stamp and is being recorded
    log,                \* per CPU: the events published
    tail,               \* per CPU: the number of events released
    m_lastreadsize, m_sn_len, m_sn_next_event,  \* struct scap_device
    call, j,            \* the loop libscap is in (refill, flush, or none) and its device
    hand,               \* the event in the caller's hands
    seen,               \* ghost: events published when the last refill began
    top                 \* ghost: the latest time stamp handed out, with seen at that time

kernelVars == <<clock, stamp, log>>
devVars == <<tail, m_lastreadsize, m_sn_len, m_sn_next_event>>
mergeVars == <<kernelVars, devVars, call, j, hand, seen, top>>

NoStamp == [ts |-> 0, evt |-> NoPayload]
NoEvent == [id |-> 0, ts |-> 0, evt |-> NoPayload]
NoHand == [dev |-> 0, at |-> 0]
Zeros == [c \in Devs |-> 0]

MergeInit ==
    /\ clock = 1 /\ stamp = [c \in Devs |-> NoStamp] /\ log = [c \in Devs |-> <<>>]
    /\ tail = Zeros /\ m_lastreadsize = Zeros /\ m_sn_len = Zeros
    /\ m_sn_next_event = [c \in Devs |-> 1]
    /\ call = "none" /\ j = 0 /\ hand = NoHand
    /\ seen = Zeros /\ top = [ts |-> 0, seen |-> Zeros]

---------------------------------------------------------------------------
\* The driver

\* record_event_all_consumers reads the clock, which may or may not have moved
\* since another CPU read it, ...
Stamp(c, tick, e) ==
    /\ stamp[c] = NoStamp
    /\ Len(log[c]) < MaxEvts
    /\ clock' = clock + tick
    /\ stamp' = [stamp EXCEPT ![c] = [ts |-> clock', evt |-> e]]
    /\ UNCHANGED <<log, devVars, call, j, hand, seen, top>>

\* ... and record_event_consumer publishes the event later.
Publish(c) ==
    /\ stamp[c] # NoStamp
    /\ log' = [log EXCEPT ![c] = Append(@, [id |-> Len(@), ts |-> stamp[c].ts, evt |-> stamp[c].evt])]
    /\ stamp' = [stamp EXCEPT ![c] = NoStamp]
    /\ UNCHANGED <<clock, devVars, call, j, hand, seen, top>>

---------------------------------------------------------------------------
\* The reader

Ready == {d \in Devs : m_sn_len[d] # 0}
ts(d) == log[d][m_sn_next_event[d]].ts

BugLowest(d) == \A k \in Ready : d <= k
\* The device with the lowest time stamp, the first of them if they are several.
Lowest(d) == \A k \in Ready : ts(d) < ts(k) \/ (ts(d) = ts(k) /\ d <= k)

BugAdvanced(d) == IF m_sn_len[d] <= 1 THEN tail[d] + m_lastreadsize[d] ELSE tail[d]
\* scap_advance_tail, for a device whose data is used up.
Advanced(d) == IF m_sn_len[d] = 0 THEN tail[d] + m_lastreadsize[d] ELSE tail[d]

\* The first loop of scap_next_live: used-up devices are given back.
AdvanceTails ==
    /\ tail' = [d \in Devs |-> Advanced(d)]
    /\ m_lastreadsize' = [d \in Devs |-> tail[d] + m_lastreadsize[d] - tail'[d]]

Topped(d) == IF ts(d) >= top.ts THEN [ts |-> ts(d), seen |-> seen] ELSE top

\* An event is returned to the caller, who is done with the one before it.
NextEvent(d) ==
    /\ call = "none"
    /\ d \in Ready
    /\ Lowest(d)
    /\ AdvanceTails
    /\ hand' = [dev |-> d, at |-> m_sn_next_event[d]]
    /\ m_sn_len' = [m_sn_len EXCEPT ![d] = @ - 1]
    /\ m_sn_next_event' = [m_sn_next_event EXCEPT ![d] = @ + 1]
    /\ top' = Topped(d)
    /\ UNCHANGED <<kernelVars, call, j, seen>>

BugAllConsumed == \E d \in Devs : m_sn_len[d] = 0
AllConsumed == Ready = {}

\* All buffers have been consumed: refill_read_buffers.  How long it sleeps
\* first depends on the fill levels and has no other effect.
RefillBegins ==
    /\ call = "none"
    /\ AllConsumed
    /\ AdvanceTails
    /\ hand' = NoHand
    /\ call' = "refill" /\ j' = 0
    /\ seen' = [d \in Devs |-> Len(log[d])]
    /\ UNCHANGED <<kernelVars, m_sn_len, m_sn_next_event, top>>

\* scap_set_snaplen and scap_handle_eventmask: after the ioctl, the rings are
\* read and what they hold is thrown away.
FlushBegins ==
    /\ call = "none"
    /\ call' = "flush" /\ j' = 0
    /\ UNCHANGED <<kernelVars, devVars, hand, seen, top>>

BugLastDev(k) == k + 2 >= ndevs
\* The end of a loop over the devices.
LastDev(k) == k + 1 >= ndevs

ReadSize(d) == Len(log[d]) - tail[d]

\* scap_readbuf for the next device of the loop.
ReadBuf ==
    /\ call # "none"
    /\ m_lastreadsize' = [m_lastreadsize EXCEPT ![j] = ReadSize(j)]
    /\ m_sn_next_event' = [m_sn_next_event EXCEPT ![j] = tail[j] + 1]
    /\ m_sn_len' = [m_sn_len EXCEPT ![j] = IF call = "flush" THEN 0 ELSE ReadSize(j)]
    /\ IF LastDev(j) THEN j' = 0 /\ call' = "none" ELSE j' = j + 1 /\ call' = call
    /\ UNCHANGED <<kernelVars, tail, hand, seen, top>>

---------------------------------------------------------------------------
Driver == \E c \in Devs : Publish(c) \/ \E tick \in Nat, e \in Payloads : Stamp(c, tick, e)
Serve == \E d \in Devs : NextEvent(d)

MergeNext == Driver \/ Serve \/ RefillBegins \/ FlushBegins \/ ReadBuf

MergeSpec == MergeInit /\ [][MergeNext]_mergeVars

---------------------------------------------------------------------------
\* Properties

Payload == Payloads \cup {NoPayload}
Event == [id : Nat, ts : Nat, evt : Payload]

MergeTypeOK ==
    /\ clock \in Nat
    /\ stamp \in [Devs -> [ts : Nat, evt : Payload]]
    /\ log \in [Devs -> Seq(Event)]
    /\ tail \in [Devs -> Nat]
    /\ m_lastreadsize \in [Devs -> Nat] /\ m_sn_len \in [Devs -> Nat]
    /\ m_sn_next_event \in [Devs -> Nat \ {0}]
    /\ call \in {"none", "refill", "flush"} /\ j \in Devs
    /\ hand \in [dev : Devs, at : Nat]
    /\ seen \in [Devs -> Nat] /\ top \in [ts : Nat, seen : [Devs -> Nat]]

\* The event in the caller's hands is not given back to its driver before the
\* next call of scap_next, whichever devices are used up, refilled or flushed.
HandKept == hand # NoHand => tail[hand.dev] < hand.at

\* An event comes out after one with a later time stamp only if it was
\* published after the refill that took that one had begun.  Events are late by
\* one refill at most, and never within the events taken together.
LateOnlyIfRaced ==
    hand # NoHand =>
        LET t == log[hand.dev][hand.at].ts
        IN  t < top.ts => hand.at > top.seen[hand.dev]

NextOf(d) == tail[d] + m_lastreadsize[d] - m_sn_len[d] + 1
Out(d) == IF hand # NoHand /\ hand.dev = d THEN log[d][hand.at] ELSE NoEvent

\* For each CPU the merge is a queue again: its events come out in their order,
\* each at most once, none is left out except by a flush, whatever happens on
\* the other devices.
Fifo(d) == INSTANCE EventFifo WITH sent <- log[d], next <- NextOf(d), out <- Out(d)
ImplementsFifos ==
    /\ \A d \in Devs : Fifo(d)!Init
    /\ [][\A d \in Devs : [Fifo(d)!Next]_<<log[d], NextOf(d), Out(d)>>]_mergeVars

\* No device is starved by the others: as long as events are left on it, they keep
\* being served or flushed.  With the order ImplementsFifos gives, this is every event.
NoneStarved ==
    \A d \in Devs : \/ []<>(NextOf(d) > Len(log[d]))
                    \/ []<><<NextOf(d)' > NextOf(d)>>_mergeVars
=============================================================================
