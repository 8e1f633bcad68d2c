----------------------------- MODULE ScapProofs -----------------------------
(***************************************************************************)
(* The merge of ScapMerge, for any number of devices, events and payloads: *)
(* its types, HandKept, LateOnlyIfRaced and ImplementsFifos; that the      *)
(* system of ScapSuppress is such a merge; and, for any processes, that    *)
(* its filter follows them: KeptRight and DeadForgotten.                   *)
(***************************************************************************)
EXTENDS ScapSuppress, TLAPS

\* Each leaf is tried with Zenon, then with SMT, and then with both for longer.
USE ZenonT(2), SMTT(30), ZenonT(20), SMTT(60)

\* The data taken from a ring is in it, and m_sn_next_event stands where
\* m_sn_len says.
Positions ==
    \A d \in Devs :
        /\ tail[d] + m_lastreadsize[d] <= Len(log[d])
        /\ m_sn_len[d] <= m_lastreadsize[d]
        /\ m_sn_len[d] # 0 => m_sn_next_event[d] = NextOf(d)

\* A refill finds the devices it has not come to given back.
Refilling ==
    call = "refill" =>
        \A d \in Devs : d >= j => m_lastreadsize[d] = 0 /\ m_sn_len[d] = 0

\* A CPU publishes its events in the order of their time stamps.
Monotone ==
    /\ \A c \in Devs : stamp[c] # NoStamp => stamp[c].ts <= clock
    /\ \A c \in Devs : \A p \in 1 .. Len(log[c]) :
         /\ log[c][p].ts <= clock
         /\ stamp[c] # NoStamp => log[c][p].ts <= stamp[c].ts
         /\ \A q \in p .. Len(log[c]) : log[c][p].ts <= log[c][q].ts

\* What was published when a refill began has been taken when it is over.
Taken ==
    \A d \in Devs :
        /\ seen[d] <= Len(log[d]) /\ top.seen[d] <= Len(log[d])
        /\ call # "refill" \/ d < j => seen[d] <= tail[d] + m_lastreadsize[d]

\* Of the events still to be served, only late ones have a lower time stamp than
\* one that has been served.
Late ==
    \A d \in Devs : \A p \in NextOf(d) .. Len(log[d]) :
        log[d][p].ts < top.ts => p > top.seen[d]

HandPublished == hand # NoHand => hand.at \in 1 .. Len(log[hand.dev])

MergeInv ==
    /\ MergeTypeOK /\ Positions /\ Refilling /\ Monotone /\ Taken /\ Late
    /\ HandPublished /\ HandKept /\ LateOnlyIfRaced

---------------------------------------------------------------------------
\* The devices are numbered from 0, and there is one.
LEMMA DevsNat == Devs \subseteq Nat /\ 0 \in Devs /\ \A d \in Devs : d < ndevs
  BY DevsAssumption DEF Devs

\* What the types say of one device.
LEMMA DeviceTypes ==
    ASSUME MergeTypeOK
    PROVE  /\ clock \in Nat /\ top.ts \in Nat /\ hand.dev \in Devs /\ hand.at \in Nat
           /\ \A d \in Devs :
                /\ stamp[d].ts \in Nat /\ stamp[d].evt \in Payload
                /\ log[d] \in Seq(Event) /\ Len(log[d]) \in Nat
                /\ \A p \in 1 .. Len(log[d]) : log[d][p] \in Event /\ log[d][p].ts \in Nat
                /\ tail[d] \in Nat /\ m_lastreadsize[d] \in Nat /\ m_sn_len[d] \in Nat
                /\ m_sn_next_event[d] \in Nat \ {0}
                /\ seen[d] \in Nat /\ top.seen[d] \in Nat
  <1>1. clock \in Nat /\ top.ts \in Nat /\ hand.dev \in Devs /\ hand.at \in Nat
    BY DEF MergeTypeOK
  <1>2. ASSUME NEW d \in Devs
        PROVE  /\ stamp[d].ts \in Nat /\ stamp[d].evt \in Payload
               /\ tail[d] \in Nat /\ m_lastreadsize[d] \in Nat /\ m_sn_len[d] \in Nat
               /\ m_sn_next_event[d] \in Nat \ {0}
               /\ seen[d] \in Nat /\ top.seen[d] \in Nat
    BY DEF MergeTypeOK
  <1>3. ASSUME NEW d \in Devs
        PROVE  /\ log[d] \in Seq(Event) /\ Len(log[d]) \in Nat
               /\ \A p \in 1 .. Len(log[d]) : log[d][p] \in Event /\ log[d][p].ts \in Nat
    <2>1. log[d] \in Seq(Event)
      BY DEF MergeTypeOK
    <2>2. Len(log[d]) \in Nat /\ \A p \in 1 .. Len(log[d]) : log[d][p] \in Event
      BY <2>1
    <2>3. \A x \in Event : x.ts \in Nat
      BY DEF Event
    <2>4. QED
      BY <2>1, <2>2, <2>3
  <1>4. QED
    BY <1>1, <1>2, <1>3

\* The merge starts in its invariant.
LEMMA MergeInitInv == MergeInit => MergeInv
  <1> SUFFICES ASSUME MergeInit PROVE MergeInv
    OBVIOUS
  <1>1. \A d \in Devs : log[d] = <<>> /\ Len(log[d]) = 0
    BY DEF MergeInit
  <1>2. MergeTypeOK
    BY DevsNat DEF MergeInit, MergeTypeOK, Zeros, NoStamp, NoHand, Payload, Event
  <1>3. Positions /\ Refilling /\ Monotone /\ Taken /\ Late
    BY <1>1, DevsNat DEF MergeInit, Positions, Refilling, Monotone, Taken, Late, Zeros, NoStamp, NextOf
  <1>4. HandPublished /\ HandKept /\ LateOnlyIfRaced
    BY DEF MergeInit, HandPublished, HandKept, LateOnlyIfRaced
  <1>5. QED
    BY <1>2, <1>3, <1>4 DEF MergeInv

\* Reading the clock disturbs nothing: the stamp is the latest time there is.
LEMMA StampInv ==
    ASSUME MergeInv, NEW c \in Devs, NEW tick \in Nat, NEW e \in Payloads, Stamp(c, tick, e)
    PROVE  MergeInv'
  <1>0. MergeTypeOK /\ Monotone
    BY DEF MergeInv
  <1>1. clock' \in Nat /\ clock' >= clock
    BY <1>0, DeviceTypes DEF Stamp
  <1>2. stamp' = [stamp EXCEPT ![c] = [ts |-> clock', evt |-> e]]
    BY DEF Stamp
  <1>3. UNCHANGED <<log, devVars, call, j, hand, seen, top>>
    BY DEF Stamp
  <1>4. MergeTypeOK'
    BY <1>0, <1>1, <1>2, <1>3 DEF MergeTypeOK, Payload, devVars
  <1>5. Monotone'
    <2>1. \A k \in Devs : stamp'[k] = IF k = c THEN [ts |-> clock', evt |-> e] ELSE stamp[k]
      BY <1>0, <1>2 DEF MergeTypeOK
    <2>2. \A k \in Devs : k = c => stamp'[k].ts = clock'
      BY <2>1
    <2>3. \A k \in Devs : stamp'[k] # NoStamp => stamp'[k].ts <= clock'
      <3>1. \A k \in Devs : k # c => stamp'[k] = stamp[k] /\ stamp[k].ts \in Nat
        BY <1>0, <2>1, DeviceTypes
      <3>2. \A k \in Devs : k # c /\ stamp[k] # NoStamp => stamp[k].ts <= clock
        BY <1>0 DEF Monotone
      <3>3. clock \in Nat
        BY <1>0, DeviceTypes
      <3>4. ASSUME NEW k \in Devs, k # c, stamp'[k] # NoStamp
            PROVE  stamp'[k].ts <= clock'
        <4>1. stamp'[k].ts \in Nat /\ stamp'[k].ts <= clock
          BY <3>1, <3>2, <3>4
        <4>2. QED
          BY <1>1, <3>3, <4>1
      <3>5. clock' <= clock'
        BY <1>1
      <3>6. QED
        BY <2>2, <3>4, <3>5
    <2>4. ASSUME NEW k \in Devs, NEW p \in 1 .. Len(log[k])
          PROVE  /\ log[k][p].ts <= clock'
                 /\ stamp'[k] # NoStamp => log[k][p].ts <= stamp'[k].ts
                 /\ \A q \in p .. Len(log[k]) : log[k][p].ts <= log[k][q].ts
      <3>1. log[k][p].ts \in Nat /\ clock \in Nat
        BY <1>0, DeviceTypes
      <3>2. /\ log[k][p].ts <= clock
            /\ stamp[k] # NoStamp => log[k][p].ts <= stamp[k].ts
            /\ \A q \in p .. Len(log[k]) : log[k][p].ts <= log[k][q].ts
        BY <1>0 DEF Monotone
      <3>3. log[k][p].ts <= clock'
        BY <1>1, <3>1, <3>2
      <3>4. stamp'[k] # NoStamp => log[k][p].ts <= stamp'[k].ts
        BY <2>1, <2>2, <3>2, <3>3
      <3>5. QED
        BY <3>2, <3>3, <3>4
    <2>5. QED
      BY <1>3, <2>3, <2>4 DEF Monotone
  <1>6. Positions' /\ Refilling' /\ Taken' /\ Late'
    BY <1>3 DEF MergeInv, Positions, Refilling, Taken, Late, NextOf, devVars
  <1>7. HandPublished' /\ HandKept' /\ LateOnlyIfRaced'
    BY <1>3 DEF MergeInv, HandPublished, HandKept, LateOnlyIfRaced, devVars
  <1>8. QED
    BY <1>4, <1>5, <1>6, <1>7 DEF MergeInv

\* What Append does.
LEMMA Appended ==
    ASSUME NEW S, NEW s \in Seq(S), NEW x \in S
    PROVE  /\ Append(s, x) \in Seq(S) /\ Len(Append(s, x)) = Len(s) + 1
           /\ Append(s, x)[Len(s) + 1] = x
           /\ \A p \in 1 .. Len(s) : Append(s, x)[p] = s[p]
  OBVIOUS

\* What publishing an event does to the rings.
LEMMA Published ==
    ASSUME MergeTypeOK, NEW c \in Devs, Publish(c)
    PROVE  /\ log' \in [Devs -> Seq(Event)]
           /\ \A d \in Devs :
                /\ Len(log'[d]) = IF d = c THEN Len(log[d]) + 1 ELSE Len(log[d])
                /\ \A p \in 1 .. Len(log[d]) : log'[d][p] = log[d][p]
                /\ d # c => log'[d] = log[d]
           /\ log'[c][Len(log[c]) + 1].ts = stamp[c].ts
           /\ log'[c][Len(log[c]) + 1].evt = stamp[c].evt
           /\ log'[c][Len(log[c]) + 1].id = Len(log[c])
           /\ log'[c] = Append(log[c], log'[c][Len(log[c]) + 1])
  <1> DEFINE e == [id |-> Len(log[c]), ts |-> stamp[c].ts, evt |-> stamp[c].evt]
  <1>1. e \in Event /\ e.ts = stamp[c].ts /\ e.evt = stamp[c].evt /\ e.id = Len(log[c])
    BY DeviceTypes DEF Event
  <1>2. log' = [log EXCEPT ![c] = Append(log[c], e)]
    BY DEF Publish
  <1> HIDE DEF e
  <1>3. \A d \in Devs : log'[d] = IF d = c THEN Append(log[d], e) ELSE log[d]
    BY <1>2 DEF MergeTypeOK
  <1>4. ASSUME NEW d \in Devs
        PROVE  /\ log'[d] \in Seq(Event)
               /\ Len(log'[d]) = IF d = c THEN Len(log[d]) + 1 ELSE Len(log[d])
               /\ \A p \in 1 .. Len(log[d]) : log'[d][p] = log[d][p]
               /\ d # c => log'[d] = log[d]
    <2>1. log[d] \in Seq(Event) /\ e \in Event
      BY <1>1, DeviceTypes
    <2>2. /\ Append(log[d], e) \in Seq(Event) /\ Len(Append(log[d], e)) = Len(log[d]) + 1
          /\ \A p \in 1 .. Len(log[d]) : Append(log[d], e)[p] = log[d][p]
      BY <2>1, Appended
    <2>3. CASE d = c
      BY <1>3, <2>2, <2>3
    <2>4. CASE d # c
      BY <1>3, <2>1, <2>4
    <2>5. QED
      BY <2>3, <2>4
  <1>5. log'[c][Len(log[c]) + 1] = e
    <2>1. log[c] \in Seq(Event) /\ e \in Event
      BY <1>1, DeviceTypes
    <2>2. Append(log[c], e)[Len(log[c]) + 1] = e
      BY <2>1, Appended
    <2>3. QED
      BY <1>3, <2>2
  <1>6. log' \in [Devs -> Seq(Event)]
    BY <1>2, <1>4 DEF MergeTypeOK
  <1>7. QED
    BY <1>1, <1>3, <1>4, <1>5, <1>6

\* An event is added at the end of its ring: it is late only there, and nobody has
\* counted it yet.
LEMMA PublishInv ==
    ASSUME MergeInv, NEW c \in Devs, Publish(c)
    PROVE  MergeInv'
  <1>0. MergeTypeOK /\ Monotone /\ Positions /\ Taken
    BY DEF MergeInv
  <1>1. /\ stamp[c] # NoStamp
        /\ stamp' = [stamp EXCEPT ![c] = NoStamp]
        /\ UNCHANGED <<clock, devVars, call, j, hand, seen, top>>
    BY DEF Publish
  <1>2. \A d \in Devs :
          /\ Len(log'[d]) = IF d = c THEN Len(log[d]) + 1 ELSE Len(log[d])
          /\ \A p \in 1 .. Len(log[d]) : log'[d][p] = log[d][p]
    BY <1>0, Published
  <1>3. MergeTypeOK'
    <2>1. log' \in [Devs -> Seq(Event)]
      BY <1>0, Published
    <2>2. stamp' \in [Devs -> [ts : Nat, evt : Payload]]
      BY <1>0, <1>1 DEF MergeTypeOK, NoStamp, Payload
    <2>3. QED
      BY <1>0, <1>1, <2>1, <2>2 DEF MergeTypeOK, devVars
  <1>4. Positions' /\ Refilling' /\ Taken'
    <2>1. UNCHANGED <<tail, m_lastreadsize, m_sn_len, m_sn_next_event, call, j, seen, top>>
      BY <1>1 DEF devVars
    <2>2. \A d \in Devs : Len(log'[d]) \in Nat /\ Len(log[d]) \in Nat /\ Len(log'[d]) >= Len(log[d])
      BY ONLY <1>0, <1>2, DeviceTypes, SMTT(60)
    <2>3. Positions'
      <3>1. ASSUME NEW d \in Devs
            PROVE  tail[d] + m_lastreadsize[d] <= Len(log'[d])
        <4>1. tail[d] \in Nat /\ m_lastreadsize[d] \in Nat /\ tail[d] + m_lastreadsize[d] <= Len(log[d])
          BY <1>0, DeviceTypes DEF Positions
        <4>2. QED
          BY <2>2, <4>1
      <3>2. \A d \in Devs : NextOf(d)' = NextOf(d)
        BY <2>1 DEF NextOf
      <3>3. QED
        BY <1>0, <2>1, <3>1, <3>2 DEF Positions
    <2>4. Taken'
      BY <1>0, <2>1, <2>2, DeviceTypes DEF Taken
    <2>5. Refilling'
      BY <2>1 DEF MergeInv, Refilling
    <2>6. QED
      BY <2>3, <2>4, <2>5
  <1>5. Monotone'
    <2> DEFINE n == Len(log[c]) + 1
    <2>1. \A k \in Devs : stamp'[k] = IF k = c THEN NoStamp ELSE stamp[k]
      BY <1>0, <1>1 DEF MergeTypeOK
    <2>2. log'[c][n].ts = stamp[c].ts /\ stamp[c].ts \in Nat /\ stamp[c].ts <= clock
      BY <1>0, <1>1, Published, DeviceTypes DEF Monotone
    <2>3. ASSUME NEW k \in Devs, NEW p \in 1 .. Len(log'[k])
          PROVE  /\ log'[k][p].ts <= clock
                 /\ stamp'[k] # NoStamp => log'[k][p].ts <= stamp'[k].ts
                 /\ \A q \in p .. Len(log'[k]) : log'[k][p].ts <= log'[k][q].ts
      <3>0. Len(log[k]) \in Nat
        BY <1>0, DeviceTypes
      <3>1. CASE k # c
        BY <1>0, <1>2, <2>1, <3>0, <3>1 DEF Monotone
      <3>2. CASE k = c /\ p <= Len(log[c])
        <4>1. p \in 1 .. Len(log[c])
          BY <3>0, <3>2
        <4>2. log'[c][p] = log[c][p] /\ log[c][p].ts <= stamp[c].ts /\ log[c][p].ts <= clock
          BY <1>0, <1>1, <1>2, <4>1 DEF Monotone
        <4>3. ASSUME NEW q \in p .. Len(log'[c]) PROVE log'[c][p].ts <= log'[c][q].ts
          <5>1. CASE q <= Len(log[c])
            <6>1. q \in p .. Len(log[c]) /\ q \in 1 .. Len(log[c])
              BY <3>0, <3>2, <4>1, <5>1
            <6>2. QED
              BY <1>0, <1>2, <4>1, <4>2, <6>1 DEF Monotone
          <5>2. CASE q = n
            BY <2>2, <4>2, <5>2
          <5>3. QED
            BY <1>2, <3>0, <3>2, <4>1, <5>1, <5>2
        <4>4. QED
          BY <2>1, <3>2, <4>2, <4>3
      <3>3. CASE k = c /\ p = n
        <4>1. \A q \in p .. Len(log'[c]) : q = p
          BY <1>2, <3>0, <3>3
        <4>2. QED
          BY <2>1, <2>2, <3>3, <4>1
      <3>4. QED
        BY <1>2, <3>0, <3>1, <3>2, <3>3
    <2>4. \A k \in Devs : stamp'[k] # NoStamp => stamp'[k].ts <= clock'
      BY <1>0, <1>1, <2>1 DEF Monotone
    <2>5. QED
      BY <1>1, <2>3, <2>4 DEF Monotone
  <1>6. Late'
    <2> SUFFICES ASSUME NEW d \in Devs, NEW p \in NextOf(d)' .. Len(log'[d]),
                        log'[d][p].ts < top'.ts
                 PROVE  p > top'.seen[d]
      BY DEF Late
    <2>1. NextOf(d)' = NextOf(d) /\ top' = top
      BY <1>1 DEF NextOf, devVars
    <2>2. NextOf(d) \in Nat \ {0} /\ top.seen[d] \in Nat /\ Len(log[d]) \in Nat
      BY <1>0, DeviceTypes DEF NextOf, Positions
    <2>3. CASE p <= Len(log[d])
      <3>1. p \in NextOf(d) .. Len(log[d]) /\ p \in 1 .. Len(log[d])
        BY <2>1, <2>2, <2>3
      <3>2. QED
        BY <1>2, <2>1, <3>1 DEF Late, MergeInv
    <2>4. CASE p > Len(log[d])
      BY <1>0, <2>1, <2>2, <2>4 DEF Taken
    <2>5. QED
      BY <2>1, <2>2, <2>3, <2>4
  <1>7. HandPublished' /\ HandKept' /\ LateOnlyIfRaced'
    <2>1. CASE hand = NoHand
      BY <1>1, <2>1 DEF HandPublished, HandKept, LateOnlyIfRaced
    <2>2. CASE hand # NoHand
      <3>1. hand.dev \in Devs /\ hand.at \in 1 .. Len(log[hand.dev]) /\ Len(log[hand.dev]) \in Nat
        BY <1>0, <2>2, DeviceTypes DEF MergeInv, HandPublished
      <3>2. log'[hand.dev][hand.at] = log[hand.dev][hand.at] /\ hand.at \in 1 .. Len(log'[hand.dev])
        BY ONLY <1>2, <3>1, SMTT(60)
      <3>3. QED
        BY <1>1, <2>2, <3>2 DEF MergeInv, HandPublished, HandKept, LateOnlyIfRaced, devVars
    <2>3. QED
      BY <2>1, <2>2
  <1>8. QED
    BY <1>3, <1>4, <1>5, <1>6, <1>7 DEF MergeInv

\* What giving back the used-up devices does.
LEMMA GivenBack ==
    ASSUME MergeTypeOK, AdvanceTails
    PROVE  /\ tail' \in [Devs -> Nat] /\ m_lastreadsize' \in [Devs -> Nat]
           /\ \A d \in Devs :
                /\ tail'[d] + m_lastreadsize'[d] = tail[d] + m_lastreadsize[d]
                /\ m_sn_len[d] = 0 => m_lastreadsize'[d] = 0
                /\ m_sn_len[d] # 0 => tail'[d] = tail[d] /\ m_lastreadsize'[d] = m_lastreadsize[d]
  <1>1. \A d \in Devs : tail[d] \in Nat /\ m_lastreadsize[d] \in Nat
    BY DeviceTypes
  <1>2. \A d \in Devs :
          /\ tail'[d] = IF m_sn_len[d] = 0 THEN tail[d] + m_lastreadsize[d] ELSE tail[d]
          /\ m_lastreadsize'[d] = tail[d] + m_lastreadsize[d] - tail'[d]
    BY DEF AdvanceTails, Advanced
  <1>3. \A d \in Devs : tail'[d] \in Nat /\ m_lastreadsize'[d] \in Nat
    BY <1>1, <1>2
  <1>4. tail' \in [Devs -> Nat] /\ m_lastreadsize' \in [Devs -> Nat]
    BY <1>3 DEF AdvanceTails
  <1>5. QED
    BY <1>1, <1>2, <1>4

\* Where the next event of a device is.
LEMMA NextPosition ==
    ASSUME MergeTypeOK, Positions, NEW d \in Devs
    PROVE  /\ tail[d] \in Nat /\ m_lastreadsize[d] \in Nat /\ m_sn_len[d] \in Nat
           /\ Len(log[d]) \in Nat /\ tail[d] + m_lastreadsize[d] <= Len(log[d])
           /\ m_sn_len[d] <= m_lastreadsize[d]
           /\ NextOf(d) = tail[d] + m_lastreadsize[d] - m_sn_len[d] + 1
           /\ NextOf(d) \in Nat \ {0} /\ tail[d] < NextOf(d)
  <1>1. tail[d] \in Nat /\ m_lastreadsize[d] \in Nat /\ m_sn_len[d] \in Nat /\ Len(log[d]) \in Nat
    BY DeviceTypes
  <1>2. tail[d] + m_lastreadsize[d] <= Len(log[d]) /\ m_sn_len[d] <= m_lastreadsize[d]
    BY DEF Positions
  <1>3. QED
    BY ONLY <1>1, <1>2, ZenonT(10), SMTT(60) DEF NextOf

\* A device with data taken from it has a next event.
LEMMA ReadyPosition ==
    ASSUME MergeTypeOK, Positions, NEW d \in Devs, m_sn_len[d] # 0
    PROVE  NextOf(d) \in 1 .. Len(log[d]) /\ tail[d] < NextOf(d)
  <1>1. /\ tail[d] \in Nat /\ m_lastreadsize[d] \in Nat /\ m_sn_len[d] \in Nat
        /\ Len(log[d]) \in Nat /\ tail[d] + m_lastreadsize[d] <= Len(log[d])
        /\ NextOf(d) = tail[d] + m_lastreadsize[d] - m_sn_len[d] + 1
        /\ NextOf(d) \in Nat \ {0} /\ tail[d] < NextOf(d)
    BY NextPosition
  <1>2. NextOf(d) <= Len(log[d])
    BY <1>1
  <1>3. QED
    BY <1>1, <1>2

\* All that has been taken from a device and not been served is at least as late as
\* the event that is served next.
LEMMA LowestServed ==
    ASSUME MergeInv, NEW d \in Ready, Lowest(d), NEW k \in Devs,
           NEW p \in NextOf(k) .. tail[k] + m_lastreadsize[k]
    PROVE  ts(d) <= log[k][p].ts
  <1>0. MergeTypeOK /\ Positions /\ Monotone
    BY DEF MergeInv
  <1>1. d \in Devs /\ m_sn_len[d] # 0
    BY DEF Ready
  <1>2. k \in Ready /\ NextOf(k) \in 1 .. Len(log[k]) /\ p \in NextOf(k) .. Len(log[k])
    <2>1. m_sn_len[k] # 0 /\ NextOf(k) <= tail[k] + m_lastreadsize[k] /\ p \in NextOf(k) .. Len(log[k])
      BY <1>0, NextPosition
    <2>2. NextOf(k) \in 1 .. Len(log[k])
      BY <1>0, <2>1, NextPosition
    <2>3. QED
      BY <2>1, <2>2 DEF Ready
  <1>3. ts(k) = log[k][NextOf(k)].ts
    BY <1>0, <1>2 DEF ts, Ready, Positions
  <1>4. ts(k) <= log[k][p].ts
    BY <1>0, <1>2, <1>3 DEF Monotone
  <1>5. NextOf(d) \in 1 .. Len(log[d]) /\ ts(d) = log[d][NextOf(d)].ts
    <2>1. NextOf(d) \in 1 .. Len(log[d])
      BY <1>0, <1>1, ReadyPosition
    <2>2. QED
      BY <1>0, <1>1, <2>1 DEF ts, Positions
  <1>6. ts(d) \in Nat /\ ts(k) \in Nat
    BY <1>0, <1>1, <1>2, <1>3, <1>5, DeviceTypes
  <1>7. ts(d) <= ts(k)
    BY <1>2, <1>6 DEF Lowest
  <1>8. p \in 1 .. Len(log[k])
    BY <1>2
  <1>9. log[k][p].ts \in Nat
    BY <1>0, <1>8, DeviceTypes
  <1>10. QED
    BY <1>4, <1>6, <1>7, <1>9

\* Serving an event: it is taken from the front of its device.
LEMMA Served ==
    ASSUME MergeInv, NEW d \in Devs, NextEvent(d)
    PROVE  /\ d \in Ready /\ NextOf(d) \in 1 .. Len(log[d]) /\ tail[d] < NextOf(d)
           /\ hand' = [dev |-> d, at |-> NextOf(d)] /\ hand' # NoHand
           /\ ts(d) = log[d][NextOf(d)].ts /\ ts(d) \in Nat
           /\ NextOf(d)' = NextOf(d) + 1
           /\ \A k \in Devs : k # d => NextOf(k)' = NextOf(k)
  <1>0. MergeTypeOK /\ Positions
    BY DEF MergeInv
  <1>1. d \in Ready /\ m_sn_len[d] # 0 /\ AdvanceTails
        /\ hand' = [dev |-> d, at |-> m_sn_next_event[d]]
        /\ m_sn_len' = [m_sn_len EXCEPT ![d] = @ - 1]
    BY DEF NextEvent, Ready
  <1>2. m_sn_next_event[d] = NextOf(d)
    BY <1>0, <1>1 DEF Positions
  <1>3. NextOf(d) \in 1 .. Len(log[d]) /\ tail[d] < NextOf(d)
    BY <1>0, <1>1, ReadyPosition
  <1>4. ts(d) = log[d][NextOf(d)].ts /\ ts(d) \in Nat
    BY <1>0, <1>2, <1>3, DeviceTypes DEF ts
  <1>5. \A k \in Devs : m_sn_len'[k] = IF k = d THEN m_sn_len[k] - 1 ELSE m_sn_len[k]
    BY <1>0, <1>1 DEF MergeTypeOK
  <1>6. \A k \in Devs : tail'[k] + m_lastreadsize'[k] = tail[k] + m_lastreadsize[k]
    BY <1>0, <1>1, GivenBack
  <1>7. NextOf(d)' = NextOf(d) + 1 /\ \A k \in Devs : k # d => NextOf(k)' = NextOf(k)
    <2>1. ASSUME NEW k \in Devs PROVE NextOf(k)' = IF k = d THEN NextOf(k) + 1 ELSE NextOf(k)
      <3>1. /\ tail[k] \in Nat /\ m_lastreadsize[k] \in Nat /\ m_sn_len[k] \in Nat
            /\ NextOf(k) = tail[k] + m_lastreadsize[k] - m_sn_len[k] + 1
        BY <1>0, NextPosition
      <3>2. NextOf(k)' = tail'[k] + m_lastreadsize'[k] - m_sn_len'[k] + 1
        BY DEF NextOf
      <3>3. tail'[k] \in Nat /\ m_lastreadsize'[k] \in Nat
        BY <1>0, <1>1, GivenBack
      <3>4. QED
        BY <1>5, <1>6, <3>1, <3>2, <3>3
    <2>2. QED
      BY <2>1
  <1>8. hand' # NoHand
    BY <1>1, <1>2, <1>3 DEF NoHand
  <1>9. QED
    BY <1>1, <1>2, <1>3, <1>4, <1>7, <1>8

\* An event is served: it is the lowest of what has been taken, and so is late only
\* if it was published after the refill of a later one had begun.
LEMMA NextEventInv ==
    ASSUME MergeInv, NEW d \in Devs, NextEvent(d)
    PROVE  MergeInv'
  <1>0. MergeTypeOK /\ Positions /\ Monotone /\ Taken /\ Late /\ Refilling
    BY DEF MergeInv
  <1>1. /\ call = "none" /\ d \in Ready /\ Lowest(d) /\ AdvanceTails
        /\ m_sn_len' = [m_sn_len EXCEPT ![d] = @ - 1]
        /\ m_sn_next_event' = [m_sn_next_event EXCEPT ![d] = @ + 1]
        /\ top' = Topped(d)
        /\ UNCHANGED <<clock, stamp, log, call, j, seen>>
    BY DEF NextEvent, kernelVars
  <1>2. /\ NextOf(d) \in 1 .. Len(log[d]) /\ tail[d] < NextOf(d)
        /\ hand' = [dev |-> d, at |-> NextOf(d)] /\ hand' # NoHand
        /\ ts(d) = log[d][NextOf(d)].ts /\ ts(d) \in Nat
    BY Served
  <1>3. NextOf(d)' = NextOf(d) + 1 /\ \A k \in Devs : k # d => NextOf(k)' = NextOf(k)
    BY Served
  <1>4. m_sn_len[d] # 0
    BY <1>1 DEF Ready
  <1>5. MergeTypeOK'
    <2>1. tail' \in [Devs -> Nat] /\ m_lastreadsize' \in [Devs -> Nat]
      BY <1>0, <1>1, GivenBack
    <2>2. m_sn_len' \in [Devs -> Nat] /\ m_sn_next_event' \in [Devs -> Nat \ {0}]
      <3>1. m_sn_len[d] - 1 \in Nat /\ m_sn_next_event[d] + 1 \in Nat \ {0}
        BY <1>0, <1>4, DeviceTypes
      <3>2. QED
        BY <1>0, <1>1, <3>1 DEF MergeTypeOK
    <2>3. hand' \in [dev : Devs, at : Nat]
      BY <1>2
    <2>4. top' \in [ts : Nat, seen : [Devs -> Nat]]
      BY <1>0, <1>1, <1>2 DEF MergeTypeOK, Topped
    <2>5. QED
      BY <1>0, <1>1, <2>1, <2>2, <2>3, <2>4 DEF MergeTypeOK
  <1>6. Positions'
    <2> SUFFICES ASSUME NEW k \in Devs
                 PROVE  /\ tail'[k] + m_lastreadsize'[k] <= Len(log'[k])
                        /\ m_sn_len'[k] <= m_lastreadsize'[k]
                        /\ m_sn_len'[k] # 0 => m_sn_next_event'[k] = NextOf(k)'
      BY DEF Positions
    <2>1. /\ tail'[k] + m_lastreadsize'[k] = tail[k] + m_lastreadsize[k]
          /\ m_sn_len[k] = 0 => m_lastreadsize'[k] = 0
          /\ m_sn_len[k] # 0 => m_lastreadsize'[k] = m_lastreadsize[k]
      BY <1>0, <1>1, GivenBack
    <2>2. /\ m_sn_len'[k] = IF k = d THEN m_sn_len[k] - 1 ELSE m_sn_len[k]
          /\ m_sn_next_event'[k] = IF k = d THEN m_sn_next_event[k] + 1 ELSE m_sn_next_event[k]
      BY <1>0, <1>1 DEF MergeTypeOK
    <2>3. m_sn_len'[k] <= m_lastreadsize'[k]
      BY <1>0, <1>4, <2>1, <2>2, DeviceTypes DEF Positions
    <2>4. m_sn_len'[k] # 0 => m_sn_next_event'[k] = NextOf(k)'
      BY <1>0, <1>3, <1>4, <2>2, DeviceTypes DEF Positions
    <2>5. QED
      BY <1>0, <1>1, <2>1, <2>3, <2>4 DEF Positions
  <1>7. Refilling' /\ Monotone'
    BY <1>0, <1>1 DEF Refilling, Monotone
  <1>8. \A k \in Devs : top'.seen[k] <= Len(log[k])
    BY <1>0, <1>1 DEF Taken, Topped
  <1>9. Taken'
    BY <1>0, <1>1, <1>8, GivenBack DEF Taken
  <1>10. Late'
    <2> SUFFICES ASSUME NEW k \in Devs, NEW p \in NextOf(k)' .. Len(log[k]),
                        log[k][p].ts < top'.ts
                 PROVE  p > top'.seen[k]
      BY <1>1 DEF Late
    <2>1. NextOf(k) \in Nat \ {0} /\ Len(log[k]) \in Nat
      BY <1>0, DeviceTypes DEF NextOf, Positions
    <2>2. p \in NextOf(k) .. Len(log[k]) /\ p \in 1 .. Len(log[k])
      BY <1>3, <2>1
    <2>3. log[k][p].ts \in Nat
      BY <1>0, <2>2, DeviceTypes
    <2>4. CASE ts(d) >= top.ts
      <3>1. top'.ts = ts(d) /\ top'.seen = seen
        BY <1>1, <2>4 DEF Topped
      <3>2. ~(p \in NextOf(k) .. tail[k] + m_lastreadsize[k])
        <4>1. SUFFICES ASSUME p \in NextOf(k) .. tail[k] + m_lastreadsize[k] PROVE FALSE
          OBVIOUS
        <4>2. ts(d) <= log[k][p].ts
          BY <1>1, <4>1, LowestServed
        <4>3. QED
          BY <1>2, <2>3, <3>1, <4>2
      <3>3. p > tail[k] + m_lastreadsize[k]
        BY <1>0, <2>1, <2>2, <3>2, DeviceTypes
      <3>4. seen[k] <= tail[k] + m_lastreadsize[k]
        BY <1>0, <1>1 DEF Taken
      <3>5. QED
        BY <1>0, <2>2, <3>1, <3>3, <3>4, DeviceTypes
    <2>5. CASE ~(ts(d) >= top.ts)
      BY <1>0, <1>1, <2>2, <2>5 DEF Late, Topped
    <2>6. QED
      BY <2>4, <2>5
  <1>11. HandPublished'
    BY <1>1, <1>2 DEF HandPublished
  <1>12. HandKept'
    <2>1. tail'[d] = tail[d]
      BY <1>0, <1>1, <1>4, GivenBack
    <2>2. QED
      BY <1>2, <2>1 DEF HandKept
  <1>13. LateOnlyIfRaced'
    <2>1. hand'.dev = d /\ hand'.at = NextOf(d) /\ log' = log
      BY <1>1, <1>2
    <2>2. SUFFICES ASSUME ts(d) < top'.ts PROVE NextOf(d) > top'.seen[d]
      BY <1>2, <2>1 DEF LateOnlyIfRaced
    <2>3. ~(ts(d) >= top.ts) /\ top' = top
      BY <1>0, <1>1, <1>2, <2>2, DeviceTypes DEF Topped
    <2>4. NextOf(d) \in NextOf(d) .. Len(log[d])
      BY <1>2
    <2>5. QED
      BY <1>0, <1>2, <2>2, <2>3, <2>4 DEF Late
  <1>14. QED
    BY <1>5, <1>6, <1>7, <1>9, <1>10, <1>11, <1>12, <1>13 DEF MergeInv

\* A refill begins when everything taken has been served, and all is given back.
LEMMA RefillBeginsInv ==
    ASSUME MergeInv, RefillBegins
    PROVE  MergeInv'
  <1>0. MergeTypeOK /\ Positions /\ Monotone /\ Taken /\ Late
    BY DEF MergeInv
  <1>1. /\ AdvanceTails /\ hand' = NoHand /\ call' = "refill" /\ j' = 0
        /\ seen' = [d \in Devs |-> Len(log[d])]
        /\ UNCHANGED <<clock, stamp, log, m_sn_len, m_sn_next_event, top>>
    BY DEF RefillBegins, kernelVars
  <1>2. \A d \in Devs : m_sn_len[d] = 0
    BY DEF RefillBegins, AllConsumed, Ready
  <1>3. /\ tail' \in [Devs -> Nat] /\ m_lastreadsize' \in [Devs -> Nat]
        /\ \A d \in Devs : /\ tail'[d] + m_lastreadsize'[d] = tail[d] + m_lastreadsize[d]
                           /\ m_lastreadsize'[d] = 0
    BY <1>0, <1>1, <1>2, GivenBack
  <1>4. MergeTypeOK'
    <2>1. seen' \in [Devs -> Nat]
      BY <1>0, <1>1, DeviceTypes
    <2>2. hand' \in [dev : Devs, at : Nat] /\ j' \in Devs
      BY <1>1, DevsNat DEF NoHand
    <2>3. QED
      BY <1>0, <1>1, <1>3, <2>1, <2>2 DEF MergeTypeOK
  <1>5. Positions'
    BY <1>0, <1>1, <1>2, <1>3 DEF Positions
  <1>6. Refilling' /\ Monotone'
    BY <1>0, <1>1, <1>2, <1>3 DEF Refilling, Monotone
  <1>7. Taken'
    BY <1>0, <1>1, DevsNat, DeviceTypes DEF Taken
  <1>8. Late'
    <2>1. ASSUME NEW d \in Devs PROVE NextOf(d)' = NextOf(d)
      <3>1. NextOf(d)' = tail'[d] + m_lastreadsize'[d] - m_sn_len'[d] + 1
        BY DEF NextOf
      <3>2. /\ tail[d] \in Nat /\ m_lastreadsize[d] \in Nat /\ m_sn_len[d] \in Nat
            /\ NextOf(d) = tail[d] + m_lastreadsize[d] - m_sn_len[d] + 1
        BY <1>0, NextPosition
      <3>3. tail'[d] \in Nat /\ m_lastreadsize'[d] \in Nat
        BY <1>3
      <3>4. QED
        BY <1>1, <1>3, <3>1, <3>2, <3>3
    <2>2. QED
      BY <1>0, <1>1, <2>1 DEF Late
  <1>9. HandPublished' /\ HandKept' /\ LateOnlyIfRaced'
    BY <1>1 DEF HandPublished, HandKept, LateOnlyIfRaced
  <1>10. QED
    BY <1>4, <1>5, <1>6, <1>7, <1>8, <1>9 DEF MergeInv

\* A flush begins.
LEMMA FlushBeginsInv ==
    ASSUME MergeInv, FlushBegins
    PROVE  MergeInv'
  <1>0. MergeTypeOK /\ Taken
    BY DEF MergeInv
  <1>1. /\ call = "none" /\ call' = "flush" /\ j' = 0
        /\ UNCHANGED <<clock, stamp, log, tail, m_lastreadsize, m_sn_len, m_sn_next_event, hand, seen, top>>
    BY DEF FlushBegins, kernelVars, devVars
  <1>2. MergeTypeOK'
    BY <1>0, <1>1, DevsNat DEF MergeTypeOK
  <1>3. Positions' /\ Refilling' /\ Monotone' /\ Late'
    BY <1>1 DEF MergeInv, Positions, Refilling, Monotone, Late, NextOf
  <1>4. Taken'
    BY <1>0, <1>1 DEF Taken
  <1>5. HandPublished' /\ HandKept' /\ LateOnlyIfRaced'
    BY <1>1 DEF MergeInv, HandPublished, HandKept, LateOnlyIfRaced
  <1>6. QED
    BY <1>2, <1>3, <1>4, <1>5 DEF MergeInv

\* What reading a ring does: a refill leaves the next event of every device where
\* it was, a flush moves that of one device behind its ring's last.
LEMMA BufRead ==
    ASSUME MergeInv, ReadBuf, NEW d \in Devs
    PROVE  /\ tail' = tail /\ m_lastreadsize'[d] \in Nat
           /\ d = j =>
                /\ tail[d] + m_lastreadsize'[d] = Len(log[d]) /\ m_sn_next_event'[d] = tail[d] + 1
                /\ call = "refill" => m_sn_len'[d] = m_lastreadsize'[d] /\ NextOf(d)' = NextOf(d)
                /\ call # "refill" => m_sn_len'[d] = 0 /\ NextOf(d)' = Len(log[d]) + 1
           /\ d # j =>
                /\ m_lastreadsize'[d] = m_lastreadsize[d] /\ m_sn_len'[d] = m_sn_len[d]
                /\ m_sn_next_event'[d] = m_sn_next_event[d] /\ NextOf(d)' = NextOf(d)
  <1>0. MergeTypeOK /\ Positions /\ Refilling /\ j \in Devs
    BY DEF MergeInv, MergeTypeOK
  <1>1. /\ call # "none" /\ tail' = tail
        /\ m_lastreadsize' = [m_lastreadsize EXCEPT ![j] = Len(log[j]) - tail[j]]
        /\ m_sn_next_event' = [m_sn_next_event EXCEPT ![j] = tail[j] + 1]
        /\ m_sn_len' = [m_sn_len EXCEPT ![j] = IF call = "flush" THEN 0 ELSE Len(log[j]) - tail[j]]
    BY DEF ReadBuf, ReadSize
  <1>2. NextOf(d)' = tail[d] + m_lastreadsize'[d] - m_sn_len'[d] + 1
    <2>1. NextOf(d)' = tail'[d] + m_lastreadsize'[d] - m_sn_len'[d] + 1
      BY DEF NextOf
    <2>2. QED
      BY <1>1, <2>1
  <1>3. /\ tail[d] \in Nat /\ Len(log[d]) \in Nat /\ m_lastreadsize[d] \in Nat /\ m_sn_len[d] \in Nat
        /\ tail[d] + m_lastreadsize[d] <= Len(log[d])
        /\ NextOf(d) = tail[d] + m_lastreadsize[d] - m_sn_len[d] + 1
    BY <1>0, NextPosition
  <1>4. CASE d # j
    <2>1. /\ m_lastreadsize'[d] = m_lastreadsize[d] /\ m_sn_len'[d] = m_sn_len[d]
          /\ m_sn_next_event'[d] = m_sn_next_event[d]
      BY <1>0, <1>1, <1>4 DEF MergeTypeOK
    <2>2. NextOf(d)' = NextOf(d)
      BY <1>2, <1>3, <2>1
    <2>3. QED
      BY <1>1, <1>3, <1>4, <2>1, <2>2
  <1>5. CASE d = j
    <2>1. /\ m_lastreadsize'[d] = Len(log[d]) - tail[d]
          /\ m_sn_next_event'[d] = tail[d] + 1
          /\ m_sn_len'[d] = IF call = "flush" THEN 0 ELSE Len(log[d]) - tail[d]
      BY <1>0, <1>1, <1>5 DEF MergeTypeOK
    <2>2. m_lastreadsize'[d] \in Nat /\ tail[d] + m_lastreadsize'[d] = Len(log[d])
      BY <1>3, <2>1
    <2>3. CASE call = "refill"
      <3>1. m_lastreadsize[d] = 0 /\ m_sn_len[d] = 0
        BY <1>0, <1>5, <2>3, DevsNat DEF Refilling
      <3>2. NextOf(d)' = NextOf(d) /\ m_sn_len'[d] = m_lastreadsize'[d]
        BY <1>2, <1>3, <2>1, <2>2, <2>3, <3>1
      <3>3. QED
        BY <1>1, <1>5, <2>1, <2>2, <2>3, <3>2
    <2>4. CASE call # "refill"
      <3>1. call = "flush"
        BY <1>0, <1>1, <2>4 DEF MergeTypeOK
      <3>2. NextOf(d)' = Len(log[d]) + 1 /\ m_sn_len'[d] = 0
        BY <1>2, <1>3, <2>1, <2>2, <3>1
      <3>3. QED
        BY <1>1, <1>5, <2>1, <2>2, <2>4, <3>2
    <2>5. QED
      BY <2>3, <2>4
  <1>6. QED
    BY <1>4, <1>5

\* A ring is read: what is behind the next event of its device does not grow.
LEMMA ReadBufInv ==
    ASSUME MergeInv, ReadBuf
    PROVE  MergeInv'
  <1>0. MergeTypeOK /\ Positions /\ Refilling /\ Monotone /\ Taken /\ Late /\ j \in Devs
    BY DEF MergeInv, MergeTypeOK
  <1>1. /\ IF LastDev(j) THEN j' = 0 /\ call' = "none" ELSE j' = j + 1 /\ call' = call
        /\ UNCHANGED <<clock, stamp, log, tail, hand, seen, top>>
    BY DEF ReadBuf, kernelVars
  <1>2. j \in Nat /\ j < ndevs /\ ndevs \in Nat
    BY <1>0, DevsNat, DevsAssumption
  <1>3. MergeTypeOK'
    <2>1. ASSUME NEW d \in Devs
          PROVE  m_lastreadsize'[d] \in Nat /\ m_sn_len'[d] \in Nat /\ m_sn_next_event'[d] \in Nat \ {0}
      <3>1. /\ tail[d] + 1 \in Nat \ {0} /\ m_sn_len[d] \in Nat
            /\ m_sn_next_event[d] \in Nat \ {0}
        BY <1>0, DeviceTypes
      <3>2. CASE d = j
        BY <3>1, <3>2, BufRead
      <3>3. CASE d # j
        BY <3>1, <3>3, BufRead
      <3>4. QED
        BY <3>2, <3>3
    <2>2. m_lastreadsize' \in [Devs -> Nat] /\ m_sn_len' \in [Devs -> Nat]
          /\ m_sn_next_event' \in [Devs -> Nat \ {0}]
      BY <1>0, <2>1 DEF ReadBuf, MergeTypeOK
    <2>3. j' \in Devs
      BY <1>1, <1>2, DevsNat DEF LastDev, Devs
    <2>4. call' \in {"none", "refill", "flush"}
      BY <1>0, <1>1 DEF MergeTypeOK
    <2>5. QED
      BY <1>0, <1>1, <2>2, <2>3, <2>4 DEF MergeTypeOK
  <1>4. Positions'
    <2> SUFFICES ASSUME NEW d \in Devs
                 PROVE  /\ tail[d] + m_lastreadsize'[d] <= Len(log[d])
                        /\ m_sn_len'[d] <= m_lastreadsize'[d]
                        /\ m_sn_len'[d] # 0 => m_sn_next_event'[d] = NextOf(d)'
      BY <1>1 DEF Positions
    <2>1. /\ tail[d] \in Nat /\ Len(log[d]) \in Nat /\ m_lastreadsize'[d] \in Nat
          /\ NextOf(d) = tail[d] + m_lastreadsize[d] - m_sn_len[d] + 1
      BY <1>0, NextPosition, BufRead
    <2>2. CASE d # j
      BY <1>0, <2>2, BufRead DEF Positions
    <2>3. CASE d = j /\ call # "refill"
      BY <2>1, <2>3, BufRead
    <2>4. CASE d = j /\ call = "refill"
      <3>1. m_lastreadsize[d] = 0 /\ m_sn_len[d] = 0
        BY <1>0, <1>2, <2>4 DEF Refilling
      <3>2. QED
        BY <2>1, <2>4, <3>1, BufRead
    <2>5. QED
      BY <2>2, <2>3, <2>4
  <1>5. Refilling'
    <2> SUFFICES ASSUME call' = "refill", NEW d \in Devs, d >= j'
                 PROVE  m_lastreadsize'[d] = 0 /\ m_sn_len'[d] = 0
      BY DEF Refilling
    <2>1. call = "refill" /\ j' = j + 1
      BY <1>1
    <2>2. d \in Nat /\ d >= j /\ d # j
      BY <1>2, <2>1, DevsNat
    <2>3. QED
      BY <1>0, <2>1, <2>2, BufRead DEF Refilling
  <1>6. Monotone'
    BY <1>0, <1>1 DEF Monotone
  <1>7. Taken'
    <2> SUFFICES ASSUME NEW d \in Devs, call' # "refill" \/ d < j'
                 PROVE  seen[d] <= tail[d] + m_lastreadsize'[d]
      BY <1>0, <1>1 DEF Taken
    <2>1. CASE d = j
      BY <1>0, <2>1, BufRead DEF Taken
    <2>2. CASE d # j
      <3>1. call # "refill" \/ d < j
        <4>1. CASE LastDev(j)
          BY <1>2, <2>2, <4>1, DevsNat DEF LastDev
        <4>2. CASE ~LastDev(j)
          BY <1>1, <1>2, <2>2, <4>2, DevsNat
        <4>3. QED
          BY <4>1, <4>2
      <3>2. QED
        BY <1>0, <2>2, <3>1, BufRead DEF Taken
    <2>3. QED
      BY <2>1, <2>2
  <1>8. Late'
    <2> SUFFICES ASSUME NEW d \in Devs, NEW p \in NextOf(d)' .. Len(log[d]),
                        log[d][p].ts < top.ts
                 PROVE  p > top.seen[d]
      BY <1>1 DEF Late
    <2>1. Len(log[d]) \in Nat
      BY <1>0, DeviceTypes
    <2>2. CASE NextOf(d)' = NextOf(d)
      BY <1>0, <2>2 DEF Late
    <2>3. CASE NextOf(d)' = Len(log[d]) + 1
      BY <2>1, <2>3
    <2>4. QED
      BY <2>2, <2>3, BufRead
  <1>9. HandPublished' /\ HandKept' /\ LateOnlyIfRaced'
    BY <1>1 DEF MergeInv, HandPublished, HandKept, LateOnlyIfRaced
  <1>10. QED
    BY <1>3, <1>4, <1>5, <1>6, <1>7, <1>8, <1>9 DEF MergeInv

---------------------------------------------------------------------------
\* The invariant holds of every merge.
THEOREM MergeInvariant == MergeSpec => []MergeInv
  <1>1. MergeInit => MergeInv
    BY MergeInitInv
  <1>2. MergeInv /\ [MergeNext]_mergeVars => MergeInv'
    <2> SUFFICES ASSUME MergeInv, [MergeNext]_mergeVars PROVE MergeInv'
      OBVIOUS
    <2>1. CASE Driver
      BY <2>1, PublishInv, StampInv DEF Driver
    <2>2. CASE Serve
      BY <2>2, NextEventInv DEF Serve
    <2>3. CASE RefillBegins
      BY <2>3, RefillBeginsInv
    <2>4. CASE FlushBegins
      BY <2>4, FlushBeginsInv
    <2>5. CASE ReadBuf
      BY <2>5, ReadBufInv
    <2>6. CASE UNCHANGED mergeVars
      <3>1. UNCHANGED <<clock, stamp, log, tail, m_lastreadsize, m_sn_len, m_sn_next_event,
                        call, j, hand, seen, top>>
        BY <2>6 DEF mergeVars, kernelVars, devVars
      <3>2. MergeTypeOK' /\ Positions' /\ Refilling' /\ Monotone'
        BY <3>1, ZenonT(60) DEF MergeInv, MergeTypeOK, Positions, Refilling, Monotone, NextOf
      <3>3. Taken' /\ Late'
        BY <3>1 DEF MergeInv, Taken, Late, NextOf
      <3>4. HandPublished' /\ HandKept' /\ LateOnlyIfRaced'
        BY <3>1 DEF MergeInv, HandPublished, HandKept, LateOnlyIfRaced
      <3>5. QED
        BY <3>2, <3>3, <3>4 DEF MergeInv
    <2>7. QED
      BY <2>1, <2>2, <2>3, <2>4, <2>5, <2>6 DEF MergeNext
  <1>3. QED
    BY <1>1, <1>2, PTL DEF MergeSpec

---------------------------------------------------------------------------
\* The events handed out by a step, device by device.

\* A step of the driver records an event of one CPU.
LEMMA DriverFifo ==
    ASSUME MergeInv, Driver, NEW d \in Devs
    PROVE  [Fifo(d)!Next]_<<log[d], NextOf(d), Out(d)>>
  <1>0. MergeTypeOK /\ HandPublished
    BY DEF MergeInv
  <1>1. PICK c \in Devs : Publish(c) \/ \E tick \in Nat, e \in Payloads : Stamp(c, tick, e)
    BY DEF Driver
  <1>2. hand' = hand /\ UNCHANGED <<tail, m_lastreadsize, m_sn_len>>
    BY <1>1 DEF Publish, Stamp, devVars
  <1>3. NextOf(d)' = NextOf(d)
    BY <1>2 DEF NextOf
  <1>4. CASE log'[d] = log[d]
    <2>1. Out(d)' = Out(d)
      BY <1>2, <1>4 DEF Out
    <2>2. QED
      BY <1>3, <1>4, <2>1
  <1>5. CASE Publish(c) /\ d = c
    <2>1. Out(d)' = Out(d)
      <3>1. hand # NoHand /\ hand.dev = d => log'[d][hand.at] = log[d][hand.at]
        BY <1>0, <1>5, Published DEF HandPublished
      <3>2. QED
        BY <1>2, <3>1 DEF Out
    <2>2. /\ Len(log'[d]) = Len(log[d]) + 1
          /\ log'[d] = Append(log[d], log'[d][Len(log[d]) + 1])
          /\ log'[d][Len(log[d]) + 1].id = Len(log[d])
      BY <1>0, <1>5, Published
    <2>3. Fifo(d)!Record
      BY <1>3, <2>1, <2>2 DEF Fifo!Record
    <2>4. QED
      BY <2>3 DEF Fifo!Next
  <1>6. CASE Publish(c) /\ d # c
    BY <1>0, <1>4, <1>6, Published
  <1>7. CASE \E tick \in Nat, e \in Payloads : Stamp(c, tick, e)
    BY <1>4, <1>7 DEF Stamp
  <1>8. QED
    BY <1>1, <1>5, <1>6, <1>7

\* Serving an event takes it from one queue; the caller gives back the one before.
LEMMA ServeFifo ==
    ASSUME MergeInv, Serve, NEW d \in Devs
    PROVE  [Fifo(d)!Next]_<<log[d], NextOf(d), Out(d)>>
  <1>1. PICK s \in Devs : NextEvent(s)
    BY DEF Serve
  <1>2. log' = log
    BY <1>1 DEF NextEvent, kernelVars
  <1>3. hand' = [dev |-> s, at |-> NextOf(s)] /\ hand' # NoHand /\ NextOf(s) \in 1 .. Len(log[s])
    BY <1>1, Served
  <1>4. CASE d = s
    <2>1. Out(d)' = log[d][NextOf(d)]
      BY <1>2, <1>3, <1>4 DEF Out
    <2>2. NextOf(d)' = NextOf(d) + 1
      BY <1>1, <1>4, Served
    <2>3. Fifo(d)!Take
      BY <1>2, <1>3, <1>4, <2>1, <2>2 DEF Fifo!Take
    <2>4. QED
      BY <2>3 DEF Fifo!Next
  <1>5. CASE d # s
    <2>1. Out(d)' = NoEvent
      BY <1>3, <1>5 DEF Out
    <2>2. NextOf(d)' = NextOf(d)
      BY <1>1, <1>5, Served
    <2>3. Fifo(d)!Release
      BY <1>2, <2>1, <2>2 DEF Fifo!Release
    <2>4. QED
      BY <2>3 DEF Fifo!Next
  <1>6. QED
    BY <1>4, <1>5

\* The beginning of a refill leaves the next event of a device where it is.
LEMMA RefillKeepsNext ==
    ASSUME MergeInv, RefillBegins, NEW d \in Devs
    PROVE  NextOf(d)' = NextOf(d)
  <1>0. MergeTypeOK /\ Positions
    BY DEF MergeInv
  <1>1. AdvanceTails /\ UNCHANGED m_sn_len
    BY DEF RefillBegins
  <1>2. NextOf(d)' = tail'[d] + m_lastreadsize'[d] - m_sn_len'[d] + 1
    BY DEF NextOf
  <1>3. /\ tail[d] \in Nat /\ m_lastreadsize[d] \in Nat /\ m_sn_len[d] \in Nat
        /\ NextOf(d) = tail[d] + m_lastreadsize[d] - m_sn_len[d] + 1
    BY <1>0, NextPosition
  <1>4. /\ tail'[d] \in Nat /\ m_lastreadsize'[d] \in Nat
        /\ tail'[d] + m_lastreadsize'[d] = tail[d] + m_lastreadsize[d]
    BY <1>0, <1>1, GivenBack
  <1>5. QED
    BY <1>1, <1>2, <1>3, <1>4

\* The beginning of a refill gives back the caller's event.
LEMMA RefillFifo ==
    ASSUME MergeInv, RefillBegins, NEW d \in Devs
    PROVE  [Fifo(d)!Next]_<<log[d], NextOf(d), Out(d)>>
  <1>1. AdvanceTails /\ hand' = NoHand /\ UNCHANGED <<log, m_sn_len>>
    BY DEF RefillBegins, kernelVars
  <1>2. NextOf(d)' = NextOf(d)
    BY RefillKeepsNext
  <1>3. Out(d)' = NoEvent
    BY <1>1 DEF Out
  <1>4. Fifo(d)!Release
    BY <1>1, <1>2, <1>3 DEF Fifo!Release
  <1>5. QED
    BY <1>4 DEF Fifo!Next

\* A ring read for a refill changes no queue, one read for a flush empties its own.
LEMMA ReadFifo ==
    ASSUME MergeInv, ReadBuf, NEW d \in Devs
    PROVE  [Fifo(d)!Next]_<<log[d], NextOf(d), Out(d)>>
  <1>1. UNCHANGED <<log, hand>>
    BY DEF ReadBuf, kernelVars
  <1>2. Out(d)' = Out(d)
    BY <1>1 DEF Out
  <1>3. CASE NextOf(d)' = NextOf(d)
    BY <1>1, <1>2, <1>3
  <1>4. CASE NextOf(d)' = Len(log[d]) + 1
    <2>1. Fifo(d)!Flush
      BY <1>1, <1>2, <1>4 DEF Fifo!Flush
    <2>2. QED
      BY <2>1 DEF Fifo!Next
  <1>5. QED
    BY <1>3, <1>4, BufRead

\* ImplementsFifos: a merge of any number of devices hands out each CPU's events as
\* its own queue would, in order, each at most once, and skipped by a flush only.
THEOREM MergeImplementsFifos == MergeSpec => ImplementsFifos
  <1>1. MergeInit => \A d \in Devs : Fifo(d)!Init
    <2> SUFFICES ASSUME MergeInit, NEW d \in Devs PROVE Fifo(d)!Init
      OBVIOUS
    <2>1. log[d] = <<>> /\ NextOf(d) = 1 /\ Out(d) = NoEvent
      BY DEF MergeInit, NextOf, Out, Zeros
    <2>2. QED
      BY <2>1 DEF Fifo!Init
  <1>2. MergeInv /\ [MergeNext]_mergeVars
          => [\A d \in Devs : [Fifo(d)!Next]_<<log[d], NextOf(d), Out(d)>>]_mergeVars
    <2> SUFFICES ASSUME MergeInv, MergeNext, NEW d \in Devs
                 PROVE  [Fifo(d)!Next]_<<log[d], NextOf(d), Out(d)>>
      OBVIOUS
    <2>1. CASE FlushBegins
      <3>1. UNCHANGED <<log, tail, m_lastreadsize, m_sn_len, hand>>
        BY <2>1 DEF FlushBegins, kernelVars, devVars
      <3>2. NextOf(d)' = NextOf(d) /\ Out(d)' = Out(d)
        BY <3>1 DEF NextOf, Out
      <3>3. QED
        BY <3>1, <3>2
    <2>2. QED
      BY <2>1, DriverFifo, ServeFifo, RefillFifo, ReadFifo DEF MergeNext
  <1>3. QED
    BY <1>1, <1>2, MergeInvariant, PTL DEF MergeSpec, ImplementsFifos

---------------------------------------------------------------------------
\* The system of ScapSuppress is a merge

TaskInv == use \in Uses /\ task \in [Tids -> Task]

\* An event about a process is one the merge knows.
LEMMA EmitStamps ==
    ASSUME use \in Uses, NEW c \in Devs, NEW t \in Tids, NEW type \in Types, NEW r \in Task,
           Emit(c, t, type, r)
    PROVE  Driver
  <1>1. r.parent \in Tids /\ r.listed \in BOOLEAN
    BY DEF Task
  <1>2. Hid(r) \in BOOLEAN
    BY DEF Hid
  <1> DEFINE e == [type |-> type, tid |-> t, ptid |-> r.parent, listed |-> r.listed, hidden |-> Hid(r)]
  <1>3. e \in Payloads
    BY <1>1, <1>2, SuppressAssumption DEF KernelEvents
  <1>4. PICK tick \in use.ticks : Stamp(c, tick, e)
    BY DEF Emit
  <1>5. tick \in Nat
    BY SuppressAssumption DEF Use
  <1>6. QED
    BY <1>3, <1>4, <1>5 DEF Driver

\* A process whose belonging is decided is still a process.
LEMMA BelongingTask ==
    ASSUME NEW r \in Task
    PROVE  /\ Belonging(r) \in Task
           /\ Belonging(r).state = r.state /\ Belonging(r).cloning = r.cloning
           /\ Belonging(r).listed = r.listed /\ Belonging(r).parent = r.parent
           /\ Belonging(r).hidden = IF r.hidden = "child" \/ Hid(task[r.parent]) THEN "child"
                                    ELSE IF r.listed THEN "comm" ELSE "no"
  <1> DEFINE h == IF r.hidden = "child" \/ Hid(task[r.parent]) THEN "child"
                  ELSE IF r.listed THEN "comm" ELSE "no"
  <1>1. h \in {"no", "comm", "child"}
    OBVIOUS
  <1>2. Belonging(r) = [r EXCEPT !.hidden = h]
    BY DEF Belonging
  <1> HIDE DEF h
  <1>3. \A x \in {"no", "comm", "child"} :
          LET q == [r EXCEPT !.hidden = x]
          IN  /\ q \in Task /\ q.state = r.state /\ q.cloning = r.cloning
              /\ q.listed = r.listed /\ q.parent = r.parent /\ q.hidden = x
    BY DEF Task
  <1>4. Belonging(r).hidden = h
    BY <1>1, <1>2, <1>3
  <1>5. QED
    BY <1>1, <1>2, <1>3, <1>4 DEF h

\* A process that returns from clone is still a process.
LEMMA StartedTask ==
    ASSUME TaskInv, NEW t \in Tids
    PROVE  /\ Started(t) \in Task
           /\ Started(t).state = "alive" /\ Started(t).parent = task[t].parent
           /\ Started(t).listed = task[t].listed
           /\ Started(t).hidden = IF task[t].hidden = "child" \/ Hid(task[task[t].parent]) THEN "child"
                                  ELSE IF task[t].listed THEN "comm" ELSE "no"
  <1> DEFINE r == [task[t] EXCEPT !.cloning = FALSE, !.state = "alive"]
  <1>1. task[t] \in Task
    BY DEF TaskInv
  <1>2. /\ r \in Task /\ r.state = "alive" /\ r.parent = task[t].parent
        /\ r.listed = task[t].listed /\ r.hidden = task[t].hidden
    BY <1>1 DEF Task
  <1>3. Started(t) = Belonging(r)
    BY DEF Started
  <1> HIDE DEF r
  <1>4. QED
    BY <1>2, <1>3, BelongingTask

\* Every step of the system is one of the merge, or none, and keeps the types of
\* the processes.
LEMMA StepMerges ==
    ASSUME TaskInv, [Next]_vars
    PROVE  TaskInv' /\ [MergeNext]_mergeVars
  <1>1. ASSUME NEW p \in Tids, NEW t \in Tids, Create(p, t)
        PROVE  TaskInv' /\ UNCHANGED mergeVars
    BY <1>1, SuppressAssumption, ZenonT(60) DEF TaskInv, Create, Task, NoTask
  <1>2. ASSUME NEW c \in Devs, NEW t \in Tids, CloneReturns(c, t)
        PROVE  TaskInv' /\ Driver
    BY <1>2, StartedTask, EmitStamps DEF CloneReturns, TaskInv, Emit, Types
  <1>3. ASSUME NEW c \in Devs, NEW t \in Tids, NEW listed \in BOOLEAN, Execve(c, t, listed)
        PROVE  TaskInv' /\ Driver
    <2> DEFINE r == Belonging([task[t] EXCEPT !.listed = listed])
    <2>1. r \in Task
      <3>1. [task[t] EXCEPT !.listed = listed] \in Task
        BY DEF TaskInv, Task
      <3>2. QED
        BY <3>1, BelongingTask
    <2>2. task' = [task EXCEPT ![t] = r] /\ Emit(c, t, "execve", r)
      BY <1>3 DEF Execve
    <2> HIDE DEF r
    <2>3. QED
      BY <2>1, <2>2, EmitStamps DEF TaskInv, Emit, Types
  <1>4. ASSUME NEW c \in Devs, NEW t \in Tids, Exit(c, t)
        PROVE  TaskInv' /\ Driver
    <2>1. task[t] \in Task /\ Emit(c, t, "exit", task[t])
      BY <1>4 DEF Exit, TaskInv
    <2>2. task' \in [Tids -> Task]
      BY <1>4, SuppressAssumption DEF Exit, TaskInv, Task
    <2>3. QED
      BY <2>1, <2>2, EmitStamps DEF TaskInv, Emit, Types
  <1>5. ASSUME NEW c \in Devs, NEW t \in Tids, OtherEvent(c, t)
        PROVE  TaskInv' /\ Driver
    BY <1>5, EmitStamps DEF OtherEvent, TaskInv, Emit, Types
  <1>6. ASSUME NEW c \in Devs, Publish(c) /\ UNCHANGED suppressVars
        PROVE  TaskInv' /\ Driver
    BY <1>6 DEF Driver, suppressVars, TaskInv
  <1>7. ASSUME Reader
        PROVE  TaskInv' /\ MergeNext
    BY <1>7 DEF Reader, scap_next, Serve, MergeNext, suppressVars, TaskInv
  <1>8. ASSUME FlushBegins, UNCHANGED <<use, task>>
        PROVE  TaskInv' /\ MergeNext
    BY <1>8 DEF MergeNext, TaskInv
  <1>9. ASSUME UNCHANGED vars
        PROVE  TaskInv' /\ UNCHANGED mergeVars
    BY <1>9 DEF vars, suppressVars, TaskInv
  <1>10. QED
    BY <1>1, <1>2, <1>3, <1>4, <1>5, <1>6, <1>7, <1>8, <1>9 DEF Next, Kernel, MergeNext

\* The processes of the start.
LEMMA InitTasks ==
    ASSUME Init
    PROVE  TaskInv
  <1>1. PICK listed \in BOOLEAN, t \in Tids \ {Root} :
          task = [u \in Tids |->
                    IF u = Root THEN [NoTask EXCEPT !.state = "alive"]
                    ELSE IF u = t THEN [NoTask EXCEPT !.state = "alive", !.listed = listed,
                                                      !.hidden = IF listed THEN "comm" ELSE "no"]
                    ELSE NoTask]
    BY DEF Init
  <1>2. /\ NoTask \in Task
        /\ [NoTask EXCEPT !.state = "alive"] \in Task
        /\ [NoTask EXCEPT !.state = "alive", !.listed = listed,
                          !.hidden = IF listed THEN "comm" ELSE "no"] \in Task
    BY SuppressAssumption DEF NoTask, Task
  <1>3. task \in [Tids -> Task]
    BY <1>1, <1>2
  <1>4. QED
    BY <1>3 DEF Init, TaskInv

\* scap_next on a live capture, whatever the processes do, is a merge.
THEOREM SystemMerges == Spec => MergeSpec
  <1>1. Init => TaskInv /\ MergeInit
    BY InitTasks DEF Init
  <1>2. TaskInv /\ [Next]_vars => TaskInv' /\ [MergeNext]_mergeVars
    BY StepMerges
  <1>3. QED
    BY <1>1, <1>2, PTL DEF Spec, MergeSpec

\* HandKept: the event in the caller's hands is not given back to its driver.
THEOREM SystemKeepsHand == Spec => []HandKept
  <1>1. MergeInv => HandKept
    BY DEF MergeInv
  <1>2. QED
    BY <1>1, SystemMerges, MergeInvariant, PTL

\* LateOnlyIfRaced: of two events taken together the earlier comes out first.
THEOREM SystemLateOnlyIfRaced == Spec => []LateOnlyIfRaced
  <1>1. MergeInv => LateOnlyIfRaced
    BY DEF MergeInv
  <1>2. QED
    BY <1>1, SystemMerges, MergeInvariant, PTL

\* ImplementsFifos: each CPU's events come out as its own queue would hand them out.
THEOREM SystemImplementsFifos == Spec => ImplementsFifos
  BY SystemMerges, MergeImplementsFifos, PTL

---------------------------------------------------------------------------
\* The suppression of processes

\* An event as a CPU stamps it.
Said == [ts : Nat, evt : KernelEvents]

\* All events so far, published or being recorded.
History ==
    {x \in Said : \E c \in Devs :
        \/ stamp[c] # NoStamp /\ x = stamp[c]
        \/ \E i \in 1 .. Len(log[c]) : x.ts = log[c][i].ts /\ x.evt = log[c][i].evt}

\* By the events H before time s, thread t is a suppressed one: its last event says so,
\* or it is one of those of the start, I, and there is no event of it.
In(H, I, t, s) ==
    \/ \E x \in H :
         /\ x.evt.tid = t /\ x.ts < s /\ x.evt.hidden /\ x.evt.type # "exit"
         /\ \A y \in H : y.evt.tid = t /\ y.ts < s => y.ts <= x.ts
    \/ t \in I /\ \A x \in H : ~(x.evt.tid = t /\ x.ts < s)

\* The events are about processes, and no two have the same time stamp.
Stamped ==
    /\ top.ts <= clock
    /\ \A c \in Devs :
         /\ stamp[c] # NoStamp => stamp[c].evt \in KernelEvents
         /\ \A i \in 1 .. Len(log[c]) : log[c][i].evt \in KernelEvents
    /\ \A c, d \in Devs :
         /\ \A i \in 1 .. Len(log[c]), k \in 1 .. Len(log[d]) :
              log[c][i].ts = log[d][k].ts => c = d /\ i = k
         /\ \A i \in 1 .. Len(log[c]) : stamp[d] # NoStamp => log[c][i].ts # stamp[d].ts
         /\ stamp[c] # NoStamp /\ stamp[d] # NoStamp /\ stamp[c].ts = stamp[d].ts => c = d

\* What is served is what is not later than the last event served.
Ordered ==
    orderly =>
        /\ call # "flush"
        /\ \A c \in Devs :
             /\ stamp[c] # NoStamp => top.ts < stamp[c].ts
             /\ \A i \in 1 .. Len(log[c]) : i < NextOf(c) <=> log[c][i].ts <= top.ts

\* Parents are alive; a process belongs to the suppressed ones by its comm if that is
\* listed, and, as long as none has left them, as a child only if its parent belongs.
Family ==
    /\ task[Root].state = "alive" /\ task[Root].hidden = "no" /\ ~task[Root].listed
    /\ task[Root].parent = Root
    /\ \A t \in Tids : task[t].cloning => t \in Alive
    /\ \A t \in Alive :
         /\ task[task[t].parent].state = "alive"
         /\ steady /\ task[t].hidden = "child" => Hid(task[task[t].parent])
         /\ task[t].hidden = "comm" => task[t].listed
         /\ task[t].state = "alive" /\ task[t].listed => Hid(task[t])

Belongs(t) == task[t].state = "alive" /\ Hid(task[t])

\* The events say which processes belong to the suppressed ones now, ...
Present(I) == \A t \in Tids : In(History, I, t, clock + 1) <=> Belongs(t)

\* ... and every event says whether its process belonged to them by the events before it.
Told(I) ==
    \A x \in History :
        /\ x.evt.type \in {"clone", "execve"} =>
             /\ x.evt.listed \/ In(History, I, x.evt.ptid, x.ts) => x.evt.hidden
             /\ steady /\ x.evt.hidden => x.evt.listed \/ In(History, I, x.evt.ptid, x.ts)
        /\ x.evt.type \notin {"clone", "execve"} =>
             (x.evt.hidden <=> In(History, I, x.evt.tid, x.ts))

\* The filter has the processes that belong by the events served.
Filtered(I) ==
    orderly =>
        /\ \A t \in m_suppressed_tids : In(History, I, t, top.ts + 1)
        /\ steady => \A t \in Tids : In(History, I, t, top.ts + 1) => t \in m_suppressed_tids

QuietEvents == {e \in KernelEvents : e.type = "other" /\ ~e.hidden}

\* Where there are no processes but Root nothing is suppressed.
Quiet ==
    /\ m_suppressed_tids = {}
    /\ \A t \in Tids : ~task[t].cloning /\ task[t].hidden = "no"
    /\ \A c \in Devs :
         /\ stamp[c] # NoStamp => stamp[c].evt \in QuietEvents
         /\ \A i \in 1 .. Len(log[c]) : log[c][i].evt \in QuietEvents

\* What is known of the suppression where there are processes.
Followed == \E I \in SUBSET Tids : Present(I) /\ Told(I) /\ Filtered(I)

FilterTyped ==
    /\ m_suppressed_tids \subseteq Tids
    /\ kept \in BOOLEAN /\ orderly \in BOOLEAN /\ steady \in BOOLEAN

SuppressInv ==
    /\ TaskInv /\ FilterTyped /\ KeptRight
    /\ IF use.processes THEN Stamped /\ Ordered /\ Family /\ Followed ELSE Quiet

---------------------------------------------------------------------------
\* An event changes what is known of its own thread only.
LEMMA OneMore ==
    ASSUME NEW H \in SUBSET Said, NEW I, NEW h \in H, \A g \in H : g.ts = h.ts => g = h, NEW t
    PROVE  /\ t # h.evt.tid => (In(H, I, t, h.ts + 1) <=> In(H, I, t, h.ts))
           /\ t = h.evt.tid => (In(H, I, t, h.ts + 1) <=> h.evt.hidden /\ h.evt.type # "exit")
  <1>1. \A x \in H : x.ts \in Nat /\ x.evt.hidden \in BOOLEAN
    BY DEF Said, KernelEvents
  <1>2. \A x \in H : x.ts < h.ts + 1 <=> x.ts < h.ts \/ x = h
    BY <1>1
  <1>3. CASE t # h.evt.tid
    <2>1. \A x \in H : (x.evt.tid = t /\ x.ts < h.ts + 1) <=> (x.evt.tid = t /\ x.ts < h.ts)
      BY <1>2, <1>3
    <2>2. QED
      BY <1>3, <2>1 DEF In
  <1>4. CASE t = h.evt.tid
    <2>1. \A y \in H : y.evt.tid = t /\ y.ts < h.ts + 1 => y.ts <= h.ts
      BY <1>1
    <2>2. h.evt.tid = t /\ h.ts < h.ts + 1
      BY <1>1, <1>4
    <2>3. ASSUME NEW x \in H, x.evt.tid = t, x.ts < h.ts + 1,
                 \A y \in H : y.evt.tid = t /\ y.ts < h.ts + 1 => y.ts <= x.ts
          PROVE  x = h
      BY <1>1, <2>2, <2>3
    <2>4. QED
      BY <1>4, <2>1, <2>2, <2>3 DEF In
  <1>5. QED
    BY <1>3, <1>4

\* Between two times without an event nothing changes.
LEMMA Between ==
    ASSUME NEW H, NEW I, NEW t, NEW a, NEW b, \A x \in H : x.ts < a <=> x.ts < b
    PROVE  In(H, I, t, a) <=> In(H, I, t, b)
  BY DEF In

\* A later event changes nothing before it.
LEMMA Later ==
    ASSUME NEW H, NEW I, NEW t, NEW s, NEW x, ~(x.ts < s)
    PROVE  In(H \cup {x}, I, t, s) <=> In(H, I, t, s)
  <1>1. \A y \in H \cup {x} : y.ts < s => y \in H
    OBVIOUS
  <1>2. QED
    BY <1>1 DEF In

\* Every event has been stamped, and a time stamp is that of one event.
LEMMA HistoryKnown ==
    ASSUME MergeInv, Stamped
    PROVE  /\ History \in SUBSET Said
           /\ \A x \in History : x.ts \in Nat /\ x.ts <= clock
           /\ \A x, y \in History : x.ts = y.ts => x = y
  <1>0. MergeTypeOK /\ Monotone
    BY DEF MergeInv
  <1>1. History \in SUBSET Said
    BY DEF History
  <1>2. \A x \in History : x.ts \in Nat
    BY DEF History, Said
  <1>3. \A x \in History : x.ts <= clock
    BY <1>0 DEF History, Monotone
  <1>4. ASSUME NEW x \in History, NEW y \in History, x.ts = y.ts
        PROVE  x.evt = y.evt
    <2>1. PICK c \in Devs : \/ stamp[c] # NoStamp /\ x = stamp[c]
                            \/ \E i \in 1 .. Len(log[c]) : x.ts = log[c][i].ts /\ x.evt = log[c][i].evt
      BY DEF History
    <2>2. PICK d \in Devs : \/ stamp[d] # NoStamp /\ y = stamp[d]
                            \/ \E i \in 1 .. Len(log[d]) : y.ts = log[d][i].ts /\ y.evt = log[d][i].evt
      BY DEF History
    <2>3. CASE stamp[c] # NoStamp /\ x = stamp[c]
      <3>1. CASE stamp[d] # NoStamp /\ y = stamp[d]
        BY <1>4, <2>3, <3>1 DEF Stamped
      <3>2. ASSUME NEW i \in 1 .. Len(log[d]), y.ts = log[d][i].ts PROVE FALSE
        BY <1>4, <2>3, <3>2 DEF Stamped
      <3>3. QED
        BY <2>2, <3>1, <3>2
    <2>4. ASSUME NEW i \in 1 .. Len(log[c]), x.ts = log[c][i].ts, x.evt = log[c][i].evt
          PROVE  x.evt = y.evt
      <3>1. ASSUME stamp[d] # NoStamp, y = stamp[d] PROVE FALSE
        <4>1. log[c][i].ts = stamp[d].ts
          BY <1>4, <2>4, <3>1
        <4>2. QED
          BY <3>1, <4>1 DEF Stamped
      <3>2. ASSUME NEW k \in 1 .. Len(log[d]), y.ts = log[d][k].ts, y.evt = log[d][k].evt
            PROVE  x.evt = y.evt
        <4>1. log[c][i].ts = log[d][k].ts
          BY <1>4, <2>4, <3>2
        <4>2. c = d /\ i = k
          BY <4>1 DEF Stamped
        <4>3. QED
          BY <2>4, <3>2, <4>2
      <3>3. QED
        BY <2>2, <3>1, <3>2
    <2>5. QED
      BY <2>1, <2>3, <2>4
  <1>5. \A x, y \in Said : x.ts = y.ts /\ x.evt = y.evt => x = y
    BY DEF Said
  <1>6. QED
    BY <1>1, <1>2, <1>3, <1>4, <1>5

\* The history is what the CPUs stamped and what the rings have.
LEMMA HistoryHas ==
    ASSUME MergeInv, Stamped, NEW c \in Devs
    PROVE  /\ stamp[c] # NoStamp => stamp[c] \in History
           /\ \A i \in 1 .. Len(log[c]) :
                /\ [ts |-> log[c][i].ts, evt |-> log[c][i].evt] \in History
                /\ log[c][i].ts \in Nat
  <1>0. MergeTypeOK
    BY DEF MergeInv
  <1>1. stamp[c] # NoStamp => stamp[c] \in Said
    BY <1>0 DEF MergeTypeOK, Stamped, Said
  <1>2. ASSUME NEW i \in 1 .. Len(log[c])
        PROVE  /\ [ts |-> log[c][i].ts, evt |-> log[c][i].evt] \in Said
               /\ log[c][i].ts \in Nat
    BY <1>0, DeviceTypes DEF Stamped, Said
  <1>3. QED
    BY <1>1, <1>2 DEF History

\* A stamp adds its event to the history, later than all others.
LEMMA HistoryStamp ==
    ASSUME MergeInv, Stamped, NEW c \in Devs, NEW tick \in Nat \ {0}, NEW e \in KernelEvents,
           Stamp(c, tick, e)
    PROVE  /\ [ts |-> clock', evt |-> e] \in Said
           /\ History' = History \cup {[ts |-> clock', evt |-> e]}
           /\ clock' \in Nat /\ clock < clock'
           /\ Stamped'
  <1> DEFINE n == [ts |-> clock', evt |-> e]
  <1>0. MergeTypeOK /\ Monotone
    BY DEF MergeInv
  <1>1. clock \in Nat /\ clock' \in Nat /\ clock < clock'
    BY <1>0, DeviceTypes DEF Stamp
  <1>2. n \in Said /\ n.ts = clock' /\ n.evt = e
    BY <1>1 DEF Said
  <1>3. stamp[c] = NoStamp /\ log' = log /\ top' = top
    BY DEF Stamp
  <1>4. \A d \in Devs : stamp'[d] = IF d = c THEN n ELSE stamp[d]
    BY <1>0 DEF Stamp, MergeTypeOK
  <1>5. n # NoStamp
    BY <1>1, <1>2 DEF NoStamp
  <1> HIDE DEF n
  <1>6. History' = History \cup {n}
    <2>1. ASSUME NEW x \in History' PROVE x \in History \cup {n}
      BY <1>3, <1>4, <2>1 DEF History
    <2>2. ASSUME NEW x \in History PROVE x \in History'
      BY <1>3, <1>4, <2>2 DEF History
    <2>3. n \in History'
      BY <1>2, <1>4, <1>5 DEF History
    <2>4. QED
      BY <2>1, <2>2, <2>3
  <1>7. Stamped'
    <2>1. top'.ts <= clock'
      BY <1>0, <1>1, <1>3, DeviceTypes DEF Stamped
    <2>2. \A d \in Devs :
            /\ stamp'[d] # NoStamp => stamp'[d].evt \in KernelEvents
            /\ \A i \in 1 .. Len(log'[d]) : log'[d][i].evt \in KernelEvents
      BY <1>2, <1>3, <1>4 DEF Stamped
    <2>3. \A d, k \in Devs : \A i \in 1 .. Len(log'[d]), p \in 1 .. Len(log'[k]) :
            log'[d][i].ts = log'[k][p].ts => d = k /\ i = p
      BY <1>3 DEF Stamped
    <2>4. \A d \in Devs :
            /\ stamp[d] # NoStamp => stamp[d].ts # clock'
            /\ \A i \in 1 .. Len(log[d]) : log[d][i].ts # clock'
      BY <1>0, <1>1, DeviceTypes DEF Monotone
    <2>5. \A d, k \in Devs : \A i \in 1 .. Len(log'[d]) :
            stamp'[k] # NoStamp => log'[d][i].ts # stamp'[k].ts
      BY <1>2, <1>3, <1>4, <2>4 DEF Stamped
    <2>6. \A d, k \in Devs :
            stamp'[d] # NoStamp /\ stamp'[k] # NoStamp /\ stamp'[d].ts = stamp'[k].ts => d = k
      BY <1>2, <1>4, <2>4 DEF Stamped
    <2>7. QED
      BY <2>1, <2>2, <2>3, <2>5, <2>6 DEF Stamped
  <1>8. QED
    BY <1>1, <1>2, <1>6, <1>7 DEF n

\* Publishing an event leaves the history as it is.
LEMMA HistoryPublish ==
    ASSUME MergeInv, Stamped, NEW c \in Devs, Publish(c)
    PROVE  History' = History /\ Stamped'
  <1>0. MergeTypeOK
    BY DEF MergeInv
  <1> DEFINE n == Len(log[c]) + 1
  <1>1. /\ stamp[c] # NoStamp /\ clock' = clock /\ top' = top
        /\ \A d \in Devs : stamp'[d] = IF d = c THEN NoStamp ELSE stamp[d]
    BY <1>0 DEF Publish, MergeTypeOK
  <1>2. /\ \A d \in Devs : Len(log[d]) \in Nat
        /\ \A d \in Devs : \A i \in 1 .. Len(log[d]) : log'[d][i] = log[d][i]
        /\ \A d \in Devs : Len(log'[d]) = IF d = c THEN Len(log[d]) + 1 ELSE Len(log[d])
        /\ log'[c][n].ts = stamp[c].ts /\ log'[c][n].evt = stamp[c].evt
    BY <1>0, Published, DeviceTypes
  <1>3. /\ n \in 1 .. Len(log'[c])
        /\ \A d \in Devs : 1 .. Len(log[d]) \subseteq 1 .. Len(log'[d])
        /\ \A d \in Devs : \A i \in 1 .. Len(log'[d]) : i \in 1 .. Len(log[d]) \/ (d = c /\ i = n)
    BY <1>2
  <1> HIDE DEF n
  <1>4. stamp[c] \in History /\ \A x \in Said : x.ts = stamp[c].ts /\ x.evt = stamp[c].evt => x = stamp[c]
    <2>1. stamp[c] \in History
      BY <1>1, HistoryHas
    <2>2. stamp[c] \in Said
      BY <2>1 DEF History
    <2>3. QED
      BY <2>1, <2>2 DEF Said
  <1>5. History' = History
    <2>1. ASSUME NEW x \in History' PROVE x \in History
      <3>1. x \in Said
        BY DEF History
      <3>2. PICK d \in Devs : \/ stamp'[d] # NoStamp /\ x = stamp'[d]
                              \/ \E i \in 1 .. Len(log'[d]) : x.ts = log'[d][i].ts /\ x.evt = log'[d][i].evt
        BY DEF History
      <3>3. CASE stamp'[d] # NoStamp /\ x = stamp'[d]
        BY <1>1, <3>1, <3>3 DEF History
      <3>4. ASSUME NEW i \in 1 .. Len(log'[d]), x.ts = log'[d][i].ts, x.evt = log'[d][i].evt
            PROVE  x \in History
        <4>1. CASE i \in 1 .. Len(log[d])
          <5>1. x.ts = log[d][i].ts /\ x.evt = log[d][i].evt
            BY <1>2, <3>4, <4>1
          <5>2. QED
            BY <3>1, <4>1, <5>1 DEF History
        <4>2. CASE d = c /\ i = n
          BY <1>2, <1>4, <3>1, <3>4, <4>2
        <4>3. QED
          BY <1>3, <4>1, <4>2
      <3>5. QED
        BY <3>2, <3>3, <3>4
    <2>2. ASSUME NEW x \in History PROVE x \in History'
      <3>1. x \in Said
        BY DEF History
      <3>2. PICK d \in Devs : \/ stamp[d] # NoStamp /\ x = stamp[d]
                              \/ \E i \in 1 .. Len(log[d]) : x.ts = log[d][i].ts /\ x.evt = log[d][i].evt
        BY DEF History
      <3>3. CASE d = c /\ x = stamp[d]
        BY <1>2, <1>3, <3>1, <3>3 DEF History
      <3>4. CASE d # c /\ stamp[d] # NoStamp /\ x = stamp[d]
        BY <1>1, <3>1, <3>4 DEF History
      <3>5. CASE \E i \in 1 .. Len(log[d]) : x.ts = log[d][i].ts /\ x.evt = log[d][i].evt
        <4>1. PICK i \in 1 .. Len(log[d]) : x.ts = log[d][i].ts /\ x.evt = log[d][i].evt
          BY <3>5
        <4>2. i \in 1 .. Len(log'[d]) /\ x.ts = log'[d][i].ts /\ x.evt = log'[d][i].evt
          BY <1>2, <1>3, <4>1
        <4>3. QED
          BY <3>1, <4>2 DEF History
      <3>6. QED
        BY <3>2, <3>3, <3>4, <3>5
    <2>3. QED
      BY <2>1, <2>2
  <1>6. Stamped'
    <2>1. top'.ts <= clock'
      BY <1>1 DEF Stamped
    <2>2. \A d \in Devs :
            /\ stamp'[d] # NoStamp => stamp'[d].evt \in KernelEvents
            /\ \A i \in 1 .. Len(log'[d]) : log'[d][i].evt \in KernelEvents
      <3>1. \A d \in Devs : stamp'[d] # NoStamp => stamp'[d].evt \in KernelEvents
        BY <1>1 DEF Stamped
      <3>2. \A d \in Devs : \A i \in 1 .. Len(log[d]) : log'[d][i].evt \in KernelEvents
        BY <1>2 DEF Stamped
      <3>3. log'[c][n].evt \in KernelEvents
        BY <1>1, <1>2 DEF Stamped
      <3>4. QED
        BY <1>3, <3>1, <3>2, <3>3
    <2>3. \A d, k \in Devs : \A i \in 1 .. Len(log'[d]), p \in 1 .. Len(log'[k]) :
            log'[d][i].ts = log'[k][p].ts => d = k /\ i = p
      <3> SUFFICES ASSUME NEW d \in Devs, NEW k \in Devs, NEW i \in 1 .. Len(log'[d]),
                          NEW p \in 1 .. Len(log'[k]), log'[d][i].ts = log'[k][p].ts
                   PROVE  d = k /\ i = p
        OBVIOUS
      <3>1. CASE i \in 1 .. Len(log[d]) /\ p \in 1 .. Len(log[k])
        <4>1. log[d][i].ts = log[k][p].ts
          BY <1>2, <3>1
        <4>2. QED
          BY <3>1, <4>1 DEF Stamped
      <3>2. CASE i \in 1 .. Len(log[d]) /\ k = c /\ p = n
        BY <1>1, <1>2, <3>2 DEF Stamped
      <3>3. CASE p \in 1 .. Len(log[k]) /\ d = c /\ i = n
        BY <1>1, <1>2, <3>3 DEF Stamped
      <3>4. QED
        BY <1>3, <3>1, <3>2, <3>3
    <2>4. \A d, k \in Devs : \A i \in 1 .. Len(log'[d]) :
            stamp'[k] # NoStamp => log'[d][i].ts # stamp'[k].ts
      <3> SUFFICES ASSUME NEW d \in Devs, NEW k \in Devs, NEW i \in 1 .. Len(log'[d]), stamp'[k] # NoStamp
                   PROVE  log'[d][i].ts # stamp'[k].ts
        OBVIOUS
      <3>1. k # c /\ stamp'[k] = stamp[k] /\ stamp[k] # NoStamp
        BY <1>1
      <3>2. CASE i \in 1 .. Len(log[d])
        BY <1>2, <3>1, <3>2 DEF Stamped
      <3>3. CASE d = c /\ i = n
        BY <1>1, <1>2, <3>1, <3>3 DEF Stamped
      <3>4. QED
        BY <1>3, <3>2, <3>3
    <2>5. \A d, k \in Devs :
            stamp'[d] # NoStamp /\ stamp'[k] # NoStamp /\ stamp'[d].ts = stamp'[k].ts => d = k
      BY <1>1 DEF Stamped
    <2>6. QED
      BY <2>1, <2>2, <2>3, <2>4, <2>5 DEF Stamped
  <1>7. QED
    BY <1>5, <1>6

\* The clock moves between two events of processes.
Ticking == \A u \in Uses : u.processes => 0 \notin u.ticks

\* An event that says what became of its process, whether or not its parent belongs
\* to the suppressed ones, fits the history.
LEMMA EmitTells ==
    ASSUME Ticking, MergeInv, TaskInv, use.processes, m_suppressed_tids \subseteq Tids,
           Stamped, Ordered,
           NEW I \in SUBSET Tids, Present(I), Told(I), Filtered(I),
           NEW c \in Devs, NEW t \in Tids, NEW type \in Types, NEW r \in Task,
           Emit(c, t, type, r), steady' => steady,
           \A u \in Tids : u # t => (Belongs(u)' <=> Belongs(u)),
           Belongs(t)' <=> type # "exit" /\ Hid(r),
           type \in {"clone", "execve"} =>
               /\ r.listed \/ Belongs(r.parent) => Hid(r)
               /\ steady /\ Hid(r) => r.listed \/ Belongs(r.parent),
           type \notin {"clone", "execve"} => (Hid(r) <=> Belongs(t))
    PROVE  Stamped' /\ Ordered' /\ Followed'
  <1> DEFINE e == [type |-> type, tid |-> t, ptid |-> r.parent, listed |-> r.listed, hidden |-> Hid(r)]
             n == [ts |-> clock', evt |-> e]
  <1>1. /\ e \in KernelEvents /\ e.type = type /\ e.tid = t /\ e.ptid = r.parent
        /\ e.listed = r.listed /\ (e.hidden <=> Hid(r)) /\ r.parent \in Tids
    BY DEF Task, KernelEvents, Hid
  <1>2. PICK tick \in use.ticks : Stamp(c, tick, e)
    BY DEF Emit
  <1>3. tick \in Nat \ {0}
    BY SuppressAssumption DEF Use, Ticking, TaskInv
  <1> HIDE DEF e
  <1>4. /\ n \in Said /\ History' = History \cup {n} /\ clock' \in Nat /\ clock < clock' /\ Stamped'
    BY <1>1, <1>2, <1>3, HistoryStamp
  <1>5. /\ log' = log /\ call' = call /\ top' = top /\ orderly' = orderly
        /\ m_suppressed_tids' = m_suppressed_tids
        /\ \A d \in Devs : NextOf(d)' = NextOf(d)
    BY <1>2 DEF Emit, Stamp, devVars, NextOf
  <1>6. MergeTypeOK /\ clock \in Nat /\ top.ts \in Nat /\ top.ts <= clock
    BY DeviceTypes DEF MergeInv, Stamped
  <1>7. n.ts = clock' /\ n.evt = e
    OBVIOUS
  <1> HIDE DEF n
  <1>8. History \in SUBSET Said /\ \A x \in History : x.ts \in Nat /\ x.ts <= clock
    BY HistoryKnown
  <1>9. \A u : \A s \in Nat : s <= clock' => (In(History', I, u, s) <=> In(History, I, u, s))
    <2> SUFFICES ASSUME NEW u, NEW s \in Nat, s <= clock'
                 PROVE  In(History', I, u, s) <=> In(History, I, u, s)
      OBVIOUS
    <2>1. ~(n.ts < s)
      BY <1>4, <1>7
    <2>2. QED
      BY <1>4, <2>1, Later
  <1>10. \A u : In(History', I, u, clock') <=> In(History, I, u, clock + 1)
    <2> SUFFICES ASSUME NEW u PROVE In(History', I, u, clock') <=> In(History, I, u, clock + 1)
      OBVIOUS
    <2>1. In(History', I, u, clock') <=> In(History, I, u, clock')
      BY <1>4, <1>9
    <2>2. \A x \in History : x.ts < clock' <=> x.ts < clock + 1
      BY <1>4, <1>6, <1>8
    <2>3. QED
      BY <2>1, <2>2, Between
  <1>11. \A u : /\ u # t => (In(History', I, u, clock' + 1) <=> In(History, I, u, clock + 1))
                /\ u = t => (In(History', I, u, clock' + 1) <=> Hid(r) /\ type # "exit")
    <2> SUFFICES ASSUME NEW u
                 PROVE  /\ u # t => (In(History', I, u, clock' + 1) <=> In(History, I, u, clock + 1))
                        /\ u = t => (In(History', I, u, clock' + 1) <=> Hid(r) /\ type # "exit")
      OBVIOUS
    <2>1. History' \in SUBSET Said /\ n \in History'
      BY <1>4, <1>8
    <2>2. \A g \in History' : g.ts = n.ts => g = n
      BY <1>4, <1>6, <1>7, <1>8
    <2>3. /\ u # n.evt.tid => (In(History', I, u, n.ts + 1) <=> In(History', I, u, n.ts))
          /\ u = n.evt.tid => (In(History', I, u, n.ts + 1) <=> n.evt.hidden /\ n.evt.type # "exit")
      BY <2>1, <2>2, OneMore
    <2>4. QED
      BY <1>1, <1>7, <1>10, <2>3
  <1>12. Present(I)'
    <2>1. \A u \in Tids : In(History', I, u, clock' + 1) <=> Belongs(u)'
      BY <1>11 DEF Present
    <2>2. QED
      BY <2>1 DEF Present
  <1>13. Told(I)'
    <2> SUFFICES ASSUME NEW x \in History'
                 PROVE  /\ x.evt.type \in {"clone", "execve"} =>
                             /\ x.evt.listed \/ In(History', I, x.evt.ptid, x.ts) => x.evt.hidden
                             /\ steady' /\ x.evt.hidden => x.evt.listed \/ In(History', I, x.evt.ptid, x.ts)
                        /\ x.evt.type \notin {"clone", "execve"} =>
                             (x.evt.hidden <=> In(History', I, x.evt.tid, x.ts))
      BY DEF Told
    <2>1. CASE x \in History
      <3>1. x.ts \in Nat /\ x.ts <= clock'
        BY <1>4, <1>6, <1>8, <2>1
      <3>2. \A u : In(History', I, u, x.ts) <=> In(History, I, u, x.ts)
        BY <1>9, <3>1
      <3>3. QED
        BY <2>1, <3>2 DEF Told
    <2>2. CASE x = n
      <3>1. \A u \in Tids : In(History', I, u, x.ts) <=> Belongs(u)
        BY <1>7, <1>10, <2>2 DEF Present
      <3>2. QED
        BY <1>1, <1>7, <2>2, <3>1
    <2>3. QED
      BY <1>4, <2>1, <2>2
  <1>14. Filtered(I)'
    <2>1. top.ts + 1 \in Nat /\ top.ts + 1 <= clock'
      BY <1>4, <1>6
    <2>2. \A u : In(History', I, u, top.ts + 1) <=> In(History, I, u, top.ts + 1)
      BY <1>9, <2>1
    <2>3. QED
      BY <1>5, <2>2 DEF Filtered
  <1>15. Ordered'
    <2>1. \A d \in Devs : stamp'[d] = IF d = c THEN n ELSE stamp[d]
      BY <1>2, <1>6 DEF Stamp, MergeTypeOK, n
    <2>2. \A d \in Devs : orderly /\ stamp'[d] # NoStamp => top.ts < stamp'[d].ts
      <3>1. top.ts < n.ts
        BY <1>4, <1>6, <1>7
      <3>2. QED
        BY <2>1, <3>1 DEF Ordered
    <2>3. QED
      BY <1>5, <2>2 DEF Ordered
  <1>16. Followed'
    BY <1>12, <1>13, <1>14 DEF Followed
  <1>17. QED
    BY <1>4, <1>15, <1>16

\* What the types say of one process.
LEMMA TaskTypes ==
    ASSUME TaskInv, NEW t \in Tids
    PROVE  /\ task[t] \in Task /\ task[t].parent \in Tids /\ task[t].cloning \in BOOLEAN
           /\ task[t].listed \in BOOLEAN /\ task[t].hidden \in {"no", "comm", "child"}
           /\ task[t].state \in {"none", "born", "alive", "dead"}
  <1>1. task[t] \in Task
    BY DEF TaskInv
  <1>2. QED
    BY <1>1 DEF Task

\* A clone returns: the process belongs to the suppressed ones if its parent does.
LEMMA CloneTells ==
    ASSUME Ticking, MergeInv, TaskInv, use.processes, m_suppressed_tids \subseteq Tids,
           Stamped, Ordered, Family, Followed,
           NEW c \in Devs, NEW t \in Tids, CloneReturns(c, t)
    PROVE  Stamped' /\ Ordered' /\ Family' /\ Followed'
  <1> DEFINE r == Started(t)
  <1>1. /\ r \in Task /\ r.state = "alive" /\ r.parent = task[t].parent /\ r.listed = task[t].listed
        /\ r.hidden = IF task[t].hidden = "child" \/ Hid(task[task[t].parent]) THEN "child"
                      ELSE IF task[t].listed THEN "comm" ELSE "no"
    BY StartedTask
  <1>2. task[t].cloning /\ Emit(c, t, "clone", r) /\ steady' = steady
    BY DEF CloneReturns
  <1>3. \A u \in Tids : task'[u] = IF u = t THEN r ELSE task[u]
    BY DEF CloneReturns, TaskInv
  <1>4. t \in Alive /\ task[t].parent \in Tids /\ task[task[t].parent].state = "alive"
    BY <1>2, TaskTypes DEF Family
  <1> HIDE DEF r
  <1>5. /\ Hid(r) <=> r.hidden # "no"
        /\ Hid(task[t]) => Hid(r)
        /\ r.listed => Hid(r)
        /\ r.hidden = "comm" => r.listed
        /\ Hid(task[task[t].parent]) => Hid(r)
        /\ steady /\ r.hidden = "child" => Hid(task[task[t].parent])
        /\ r.hidden \in {"no", "comm", "child"}
    BY <1>1, <1>4, TaskTypes DEF Family, Hid
  <1>6. Family'
    <2>1. /\ task'[Root].state = "alive" /\ task'[Root].hidden = "no" /\ ~task'[Root].listed
          /\ task'[Root].parent = Root
      BY <1>1, <1>3, SuppressAssumption DEF Family, Hid
    <2>2. Alive' = Alive
      BY <1>1, <1>3, <1>4 DEF Alive
    <2>3. \A u \in Tids : task'[u].cloning => u \in Alive
      BY <1>3, <1>4 DEF Family
    <2>4. ASSUME NEW u \in Alive
          PROVE  /\ task'[task'[u].parent].state = "alive"
                 /\ steady /\ task'[u].hidden = "child" => Hid(task'[task'[u].parent])
                 /\ task'[u].hidden = "comm" => task'[u].listed
                 /\ task'[u].state = "alive" /\ task'[u].listed => Hid(task'[u])
      <3>1. u \in Tids /\ task'[u].parent = task[u].parent /\ task[u].parent \in Tids
        BY <1>1, <1>3, TaskTypes DEF Alive
      <3>2. task'[task[u].parent].state = "alive" /\ (Hid(task[task[u].parent]) => Hid(task'[task[u].parent]))
        BY <1>1, <1>3, <1>5, <3>1 DEF Family
      <3>3. CASE u = t
        BY <1>3, <1>5, <3>1, <3>2, <3>3
      <3>4. CASE u # t
        BY <1>3, <3>1, <3>2, <3>4 DEF Family
      <3>5. QED
        BY <3>3, <3>4
    <2>5. QED
      BY <1>2, <2>1, <2>2, <2>3, <2>4 DEF Family
  <1>7. PICK I \in SUBSET Tids : Present(I) /\ Told(I) /\ Filtered(I)
    BY DEF Followed
  <1>8. \A u \in Tids : u # t => (Belongs(u)' <=> Belongs(u))
    BY <1>3 DEF Belongs
  <1>9. Belongs(t)' <=> Hid(r)
    BY <1>1, <1>3 DEF Belongs
  <1>10. /\ r.listed \/ Belongs(r.parent) => Hid(r)
         /\ steady /\ Hid(r) => r.listed \/ Belongs(r.parent)
    BY <1>1, <1>4, <1>5 DEF Belongs
  <1>11. Stamped' /\ Ordered' /\ Followed'
    BY <1>1, <1>2, <1>7, <1>8, <1>9, <1>10, EmitTells DEF Types
  <1>12. QED
    BY <1>6, <1>11

\* An execve: likewise; children keep a steady parent.
LEMMA ExecveTells ==
    ASSUME Ticking, MergeInv, TaskInv, use.processes, m_suppressed_tids \subseteq Tids,
           Stamped, Ordered, Family, Followed,
           NEW c \in Devs, NEW t \in Tids, NEW listed \in BOOLEAN, Execve(c, t, listed)
    PROVE  Stamped' /\ Ordered' /\ Family' /\ Followed'
  <1> DEFINE q == [task[t] EXCEPT !.listed = listed]
             r == Belonging(q)
  <1>1. q \in Task /\ q.state = task[t].state /\ q.parent = task[t].parent /\ q.listed = listed
        /\ q.hidden = task[t].hidden /\ q.cloning = task[t].cloning
    <2>1. task[t] \in Task
      BY TaskTypes
    <2>2. QED
      BY <2>1 DEF Task
  <1>2. /\ task[t].state = "alive" /\ ~task[t].cloning /\ t # Root
        /\ Emit(c, t, "execve", r) /\ steady' = (steady /\ (Unsteady(t) => Hid(r)))
    BY DEF Execve
  <1>3. \A u \in Tids : task'[u] = IF u = t THEN r ELSE task[u]
    BY DEF Execve, TaskInv
  <1> HIDE DEF q
  <1>4. /\ r \in Task /\ r.state = "alive" /\ ~r.cloning /\ r.parent = task[t].parent /\ r.listed = listed
        /\ r.hidden = IF task[t].hidden = "child" \/ Hid(task[task[t].parent]) THEN "child"
                      ELSE IF listed THEN "comm" ELSE "no"
    BY <1>1, <1>2, BelongingTask
  <1> HIDE DEF r
  <1>5. t \in Alive /\ task[t].parent \in Tids /\ task[task[t].parent].state = "alive"
    BY <1>2, TaskTypes DEF Family, Alive
  <1>6. /\ Hid(r) <=> r.hidden # "no"
        /\ listed => Hid(r)
        /\ r.hidden = "comm" => listed
        /\ Hid(task[task[t].parent]) => Hid(r)
        /\ steady /\ r.hidden = "child" => Hid(task[task[t].parent])
        /\ r.hidden \in {"no", "comm", "child"}
    BY <1>4, <1>5 DEF Family, Hid
  <1>7. Family'
    <2>1. /\ task'[Root].state = "alive" /\ task'[Root].hidden = "no" /\ ~task'[Root].listed
          /\ task'[Root].parent = Root
      BY <1>2, <1>3, SuppressAssumption DEF Family
    <2>2. Alive' = Alive
      BY <1>3, <1>4, <1>5 DEF Alive
    <2>3. \A u \in Tids : task'[u].cloning => u \in Alive
      BY <1>3, <1>4 DEF Family
    <2>4. ASSUME NEW u \in Alive
          PROVE  /\ task'[task'[u].parent].state = "alive"
                 /\ steady' /\ task'[u].hidden = "child" => Hid(task'[task'[u].parent])
                 /\ task'[u].hidden = "comm" => task'[u].listed
                 /\ task'[u].state = "alive" /\ task'[u].listed => Hid(task'[u])
      <3>1. u \in Tids /\ task'[u].parent = task[u].parent /\ task[u].parent \in Tids
        BY <1>3, <1>4, TaskTypes DEF Alive
      <3>2. task'[task[u].parent].state = "alive"
        BY <1>3, <1>4, <3>1 DEF Family
      <3>3. steady' /\ Hid(task[task[u].parent]) => Hid(task'[task[u].parent])
        <4>1. steady' => (Unsteady(t) => Hid(r))
          BY <1>2
        <4>2. CASE task[u].parent = t
          BY <1>3, <4>1, <4>2 DEF Unsteady
        <4>3. CASE task[u].parent # t
          BY <1>3, <3>1, <4>3
        <4>4. QED
          BY <4>2, <4>3
      <3>4. CASE u = t
        <4>1. task'[u] = r /\ (steady' => steady)
          BY <1>2, <1>3, <3>1, <3>4
        <4>2. steady' /\ r.hidden = "child" => Hid(task'[task[u].parent])
          BY <1>6, <3>3, <3>4, <4>1
        <4>3. QED
          BY <1>4, <1>6, <3>1, <3>2, <4>1, <4>2
      <3>5. CASE u # t
        <4>1. task'[u] = task[u] /\ (steady' => steady)
          BY <1>2, <1>3, <3>1, <3>5
        <4>2. QED
          BY <3>1, <3>2, <3>3, <4>1 DEF Family
      <3>6. QED
        BY <3>4, <3>5
    <2>5. QED
      BY <2>1, <2>2, <2>3, <2>4 DEF Family
  <1>8. PICK I \in SUBSET Tids : Present(I) /\ Told(I) /\ Filtered(I)
    BY DEF Followed
  <1>9. \A u \in Tids : u # t => (Belongs(u)' <=> Belongs(u))
    BY <1>3 DEF Belongs
  <1>10. Belongs(t)' <=> Hid(r)
    BY <1>3, <1>4 DEF Belongs
  <1>11. /\ r.listed \/ Belongs(r.parent) => Hid(r)
         /\ steady /\ Hid(r) => r.listed \/ Belongs(r.parent)
    BY <1>4, <1>5, <1>6 DEF Belongs
  <1>12. Stamped' /\ Ordered' /\ Followed'
    BY <1>2, <1>4, <1>8, <1>9, <1>10, <1>11, EmitTells DEF Types
  <1>13. QED
    BY <1>7, <1>12

\* An exit: the children go to Root, which only a steady family survives.
LEMMA ExitTells ==
    ASSUME Ticking, MergeInv, TaskInv, use.processes, m_suppressed_tids \subseteq Tids,
           Stamped, Ordered, Family, Followed,
           NEW c \in Devs, NEW t \in Tids, Exit(c, t)
    PROVE  Stamped' /\ Ordered' /\ Family' /\ Followed'
  <1>1. /\ task[t].state = "alive" /\ ~task[t].cloning /\ t # Root
        /\ Emit(c, t, "exit", task[t]) /\ steady' = (steady /\ ~Unsteady(t))
    BY DEF Exit
  <1>2. \A u \in Tids :
          task'[u] = IF u = t THEN [task[u] EXCEPT !.state = "dead"]
                     ELSE IF task[u].parent = t THEN [task[u] EXCEPT !.parent = Root] ELSE task[u]
    BY DEF Exit
  <1>3. ASSUME NEW u \in Tids
        PROVE  /\ task'[u].state = IF u = t THEN "dead" ELSE task[u].state
               /\ task'[u].hidden = task[u].hidden /\ task'[u].listed = task[u].listed
               /\ task'[u].cloning = task[u].cloning
               /\ task'[u].parent = IF u # t /\ task[u].parent = t THEN Root ELSE task[u].parent
    <2>1. task[u] \in Task
      BY TaskTypes
    <2>2. CASE u = t
      <3>1. task'[u] = [task[u] EXCEPT !.state = "dead"]
        BY <1>2, <2>2
      <3>2. QED
        BY ONLY <2>1, <2>2, <3>1, ZenonT(10), SMTT(60) DEF Task
    <2>3. CASE u # t /\ task[u].parent = t
      <3>1. task'[u] = [task[u] EXCEPT !.parent = Root]
        BY <1>2, <2>3
      <3>2. QED
        BY ONLY <2>1, <2>3, <3>1, ZenonT(10), SMTT(60) DEF Task
    <2>4. CASE u # t /\ task[u].parent # t
      BY <1>2, <2>4
    <2>5. QED
      BY <2>2, <2>3, <2>4
  <1>4. Family'
    <2>1. /\ task'[Root].state = "alive" /\ task'[Root].hidden = "no" /\ ~task'[Root].listed
          /\ task'[Root].parent = Root
      BY <1>1, <1>3, SuppressAssumption DEF Family
    <2>2. Alive' = Alive \ {t}
      BY <1>3 DEF Alive
    <2>3. \A u \in Tids : task'[u].cloning => u \in Alive \ {t}
      BY <1>1, <1>3 DEF Family
    <2>4. ASSUME NEW u \in Alive \ {t}
          PROVE  /\ task'[task'[u].parent].state = "alive"
                 /\ steady' /\ task'[u].hidden = "child" => Hid(task'[task'[u].parent])
                 /\ task'[u].hidden = "comm" => task'[u].listed
                 /\ task'[u].state = "alive" /\ task'[u].listed => Hid(task'[u])
      <3>1. u \in Tids /\ task[u].parent \in Tids /\ u \in Alive /\ u # t
        BY TaskTypes DEF Alive
      <3>2. /\ task'[u].hidden = "comm" => task'[u].listed
            /\ task'[u].state = "alive" /\ task'[u].listed => Hid(task'[u])
        BY <1>3, <3>1 DEF Family, Hid
      <3>3. (steady' => steady) /\ (steady' => ~Unsteady(t))
        BY <1>1
      <3>4. CASE task[u].parent = t
        <4>1. task'[u].parent = Root
          BY <1>3, <3>1, <3>4
        <4>2. steady' => ~Hid(task[t])
          BY <3>1, <3>3, <3>4 DEF Unsteady
        <4>3. steady' => task'[u].hidden # "child"
          BY <1>3, <3>1, <3>3, <3>4, <4>2 DEF Family
        <4>4. QED
          BY <2>1, <3>2, <4>1, <4>3
      <3>5. CASE task[u].parent # t
        <4>1. task'[u].parent = task[u].parent
          BY <1>3, <3>1, <3>5
        <4>2. task'[task[u].parent].state = "alive"
          BY <1>3, <3>1, <3>5 DEF Family
        <4>3. steady' /\ task'[u].hidden = "child" => Hid(task'[task[u].parent])
          BY <1>3, <3>1, <3>3 DEF Family, Hid
        <4>4. QED
          BY <3>2, <4>1, <4>2, <4>3
      <3>6. QED
        BY <3>4, <3>5
    <2>5. QED
      BY <2>1, <2>2, <2>3, <2>4 DEF Family
  <1>5. PICK I \in SUBSET Tids : Present(I) /\ Told(I) /\ Filtered(I)
    BY DEF Followed
  <1>6. \A u \in Tids : u # t => (Belongs(u)' <=> Belongs(u))
    BY <1>3 DEF Belongs, Hid
  <1>7. ~Belongs(t)' /\ (Hid(task[t]) <=> Belongs(t))
    BY <1>1, <1>3 DEF Belongs
  <1>8. task[t] \in Task /\ (steady' => steady)
    BY <1>1, TaskTypes
  <1>9. Stamped' /\ Ordered' /\ Followed'
    BY <1>1, <1>5, <1>6, <1>7, <1>8, EmitTells DEF Types
  <1>10. QED
    BY <1>4, <1>9

\* Any other event.
LEMMA OtherTells ==
    ASSUME Ticking, MergeInv, TaskInv, use.processes, m_suppressed_tids \subseteq Tids,
           Stamped, Ordered, Family, Followed,
           NEW c \in Devs, NEW t \in Tids, OtherEvent(c, t)
    PROVE  Stamped' /\ Ordered' /\ Family' /\ Followed'
  <1>1. task[t].state = "alive" /\ Emit(c, t, "other", task[t]) /\ task' = task /\ steady' = steady
    BY DEF OtherEvent
  <1>2. Family'
    BY <1>1 DEF Family, Alive
  <1>3. PICK I \in SUBSET Tids : Present(I) /\ Told(I) /\ Filtered(I)
    BY DEF Followed
  <1>4. \A u \in Tids : Belongs(u)' <=> Belongs(u)
    BY <1>1 DEF Belongs
  <1>5. (Hid(task[t]) <=> Belongs(t)) /\ task[t] \in Task
    BY <1>1, TaskTypes DEF Belongs
  <1>6. Stamped' /\ Ordered' /\ Followed'
    BY <1>1, <1>3, <1>4, <1>5, EmitTells DEF Types
  <1>7. QED
    BY <1>2, <1>6

\* A process is created: nobody has it for a parent yet.
LEMMA CreateFamily ==
    ASSUME TaskInv, Family, NEW p \in Tids, NEW t \in Tids, Create(p, t)
    PROVE  Family' /\ \A u \in Tids : Belongs(u)' <=> Belongs(u)
  <1> DEFINE n == [NoTask EXCEPT !.state = "born", !.cloning = TRUE, !.listed = task[p].listed, !.parent = p]
  <1>1. task[p].state = "alive" /\ task[t].state = "none" /\ steady' = steady /\ p # t
    BY DEF Create
  <1>2. n.state = "born" /\ n.parent = p /\ n.hidden = "no" /\ n.listed = task[p].listed
    BY DEF NoTask
  <1>3. task[p] \in Task /\ task \in [Tids -> Task]
    BY DEF TaskInv
  <1>4. task' = [task EXCEPT ![p].cloning = TRUE, ![t] = n]
    BY DEF Create
  <1> HIDE DEF n
  <1>5. \A u \in Tids : task'[u] = IF u = t THEN n ELSE IF u = p THEN [task[p] EXCEPT !.cloning = TRUE]
                                   ELSE task[u]
    BY <1>1, <1>3, <1>4
  <1>6. /\ task'[t] = n
        /\ \A u \in Tids : u # t =>
             /\ task'[u].state = task[u].state /\ task'[u].hidden = task[u].hidden
             /\ task'[u].listed = task[u].listed /\ task'[u].parent = task[u].parent
        /\ \A u \in Tids : u # t /\ u # p => task'[u].cloning = task[u].cloning
    BY <1>3, <1>5 DEF Task
  <1>7. Alive' = Alive \cup {t} /\ p \in Alive /\ t \notin Alive
    BY <1>1, <1>2, <1>6 DEF Alive
  <1>8. /\ task'[Root].state = "alive" /\ task'[Root].hidden = "no" /\ ~task'[Root].listed
        /\ task'[Root].parent = Root
    BY <1>1, <1>6, SuppressAssumption DEF Family
  <1>9. \A u \in Tids : task'[u].cloning => u \in Alive \cup {t}
    BY <1>6, <1>7 DEF Family
  <1>10. ASSUME NEW u \in Alive \cup {t}
         PROVE  /\ task'[task'[u].parent].state = "alive"
                /\ steady /\ task'[u].hidden = "child" => Hid(task'[task'[u].parent])
                /\ task'[u].hidden = "comm" => task'[u].listed
                /\ task'[u].state = "alive" /\ task'[u].listed => Hid(task'[u])
    <2>1. CASE u = t
      BY <1>1, <1>2, <1>6, <2>1
    <2>2. CASE u # t
      <3>1. u \in Alive /\ u \in Tids /\ task[u].parent \in Tids
        BY <2>2, TaskTypes DEF Alive
      <3>2. task[task[u].parent].state = "alive"
        BY <3>1 DEF Family
      <3>3. task[u].parent # t
        BY <1>1, <3>2
      <3>4. QED
        BY <1>6, <2>2, <3>1, <3>2, <3>3 DEF Family, Hid
    <2>3. QED
      BY <2>1, <2>2
  <1>11. Family'
    BY <1>1, <1>7, <1>8, <1>9, <1>10 DEF Family
  <1>12. \A u \in Tids : Belongs(u)' <=> Belongs(u)
    BY <1>1, <1>2, <1>6 DEF Belongs, Hid
  <1>13. QED
    BY <1>11, <1>12

\* Steps that leave the rings and the clock alone leave the history alone.
LEMMA HistorySame ==
    ASSUME UNCHANGED <<clock, stamp, log>>
    PROVE  History' = History
  BY DEF History

\* In order, the event served is the first one after those that were served before.
LEMMA ServedFirst ==
    ASSUME MergeInv, Stamped, Ordered, NEW d \in Devs, NextEvent(d), orderly, ~Overtakes(d)
    PROVE  /\ top.ts < ts(d) /\ top'.ts = ts(d)
           /\ \A x \in History : x.ts < top.ts + 1 <=> x.ts < ts(d)
           /\ call' # "flush"
           /\ \A c \in Devs :
                /\ stamp'[c] # NoStamp => top'.ts < stamp'[c].ts
                /\ \A i \in 1 .. Len(log'[c]) : i < NextOf(c)' <=> log'[c][i].ts <= top'.ts
  <1>0. MergeTypeOK /\ Monotone /\ Positions
    BY DEF MergeInv
  <1>1. /\ NextOf(d) \in 1 .. Len(log[d]) /\ ts(d) = log[d][NextOf(d)].ts /\ ts(d) \in Nat
        /\ NextOf(d)' = NextOf(d) + 1 /\ \A k \in Devs : k # d => NextOf(k)' = NextOf(k)
    BY Served
  <1>2. UNCHANGED <<clock, stamp, log, call>> /\ call = "none" /\ top' = Topped(d)
    BY DEF NextEvent, kernelVars
  <1>3. top.ts \in Nat /\ \A c \in Devs : NextOf(c) \in Nat /\ Len(log[c]) \in Nat
    BY <1>0, DeviceTypes, NextPosition
  <1>4. top.ts < ts(d)
    BY <1>1, <1>3 DEF Ordered
  <1>5. top'.ts = ts(d)
    BY <1>1, <1>2, <1>3, <1>4 DEF Topped
  <1>6. \A c \in Devs : /\ stamp[c] # NoStamp => stamp[c].ts \in Nat
                        /\ \A i \in 1 .. Len(log[c]) : log[c][i].ts \in Nat
    BY <1>0, DeviceTypes
  <1>7. \A c \in Devs : stamp[c] # NoStamp => ts(d) < stamp[c].ts
    <2>1. \A c \in Devs : stamp[c] # NoStamp => ~(stamp[c].ts < ts(d)) /\ stamp[c].ts # ts(d)
      BY <1>1 DEF Overtakes, Stamped
    <2>2. QED
      BY <1>1, <1>6, <2>1
  <1>8. \A c \in Devs : \A i \in 1 .. Len(log[c]) : i < NextOf(c) => log[c][i].ts <= top.ts
    BY DEF Ordered
  <1>9. \A c \in Devs : \A i \in 1 .. Len(log[c]) :
          ~(i < NextOf(c)) /\ ~(c = d /\ i = NextOf(d)) => ts(d) < log[c][i].ts
    <2> SUFFICES ASSUME NEW c \in Devs, NEW i \in 1 .. Len(log[c]), ~(i < NextOf(c)), ~(c = d /\ i = NextOf(d))
                 PROVE  ts(d) < log[c][i].ts
      OBVIOUS
    <2>1. i \in NextOf(c) .. Len(log[c])
      BY <1>3
    <2>2. ~(log[c][i].ts < ts(d))
      BY <2>1 DEF Overtakes
    <2>3. log[c][i].ts # ts(d)
      BY <1>1 DEF Stamped
    <2>4. QED
      BY <1>1, <1>6, <2>2, <2>3
  <1>10. ASSUME NEW x \in History
         PROVE  x.ts \in Nat /\ (x.ts <= top.ts \/ ts(d) <= x.ts)
    <2>1. x.ts \in Nat
      BY HistoryKnown
    <2>2. PICK c \in Devs : \/ stamp[c] # NoStamp /\ x = stamp[c]
                            \/ \E i \in 1 .. Len(log[c]) : x.ts = log[c][i].ts
      BY DEF History
    <2>3. CASE stamp[c] # NoStamp /\ x = stamp[c]
      BY <1>1, <1>7, <2>1, <2>3
    <2>4. ASSUME NEW i \in 1 .. Len(log[c]), x.ts = log[c][i].ts
          PROVE  x.ts <= top.ts \/ ts(d) <= x.ts
      <3>1. CASE i < NextOf(c)
        BY <1>8, <2>4, <3>1
      <3>2. CASE c = d /\ i = NextOf(d)
        BY <1>1, <2>4, <3>2
      <3>3. CASE ~(i < NextOf(c)) /\ ~(c = d /\ i = NextOf(d))
        <4>1. ts(d) < x.ts
          BY <1>9, <2>4, <3>3
        <4>2. QED
          BY <1>1, <2>1, <4>1
      <3>4. QED
        BY <3>1, <3>2, <3>3
    <2>5. QED
      BY <2>1, <2>2, <2>3, <2>4
  <1>11. \A x \in History : x.ts < top.ts + 1 <=> x.ts < ts(d)
    BY <1>1, <1>3, <1>4, <1>10
  <1>12. \A c \in Devs : stamp'[c] # NoStamp => top'.ts < stamp'[c].ts
    BY <1>2, <1>5, <1>7
  <1>13. ASSUME NEW c \in Devs, NEW i \in 1 .. Len(log[c])
         PROVE  i < NextOf(c)' <=> log[c][i].ts <= ts(d)
    <2>1. i \in Nat /\ NextOf(c) \in Nat /\ log[c][i].ts \in Nat
      BY <1>3, <1>6
    <2>2. CASE i < NextOf(c)
      <3>1. log[c][i].ts <= top.ts
        BY <1>8, <2>2
      <3>2. i < NextOf(c)'
        BY <1>1, <2>1, <2>2
      <3>3. QED
        BY <1>1, <1>3, <1>4, <2>1, <3>1, <3>2
    <2>3. CASE c = d /\ i = NextOf(d)
      BY <1>1, <2>1, <2>3
    <2>4. CASE ~(i < NextOf(c)) /\ ~(c = d /\ i = NextOf(d))
      <3>1. ts(d) < log[c][i].ts
        BY <1>9, <2>4
      <3>2. ~(i < NextOf(c)')
        BY <1>1, <2>1, <2>4
      <3>3. QED
        BY <1>1, <2>1, <3>1, <3>2
    <2>5. QED
      BY <2>2, <2>3, <2>4
  <1>14. QED
    BY <1>2, <1>4, <1>5, <1>11, <1>12, <1>13

\* The filter on one event: it keeps back, and has in its set, what belongs to the
\* suppressed ones by the events up to this one.
LEMMA FilterStep ==
    ASSUME MergeInv, Stamped, m_suppressed_tids \subseteq Tids, steady \in BOOLEAN,
           NEW I, Told(I), NEW x \in History,
           \A t \in m_suppressed_tids : In(History, I, t, x.ts),
           steady => \A t \in Tids : In(History, I, t, x.ts) => t \in m_suppressed_tids
    PROVE  LET tids == scap_check_suppressed(x.evt, m_suppressed_tids)
           IN  /\ \A t \in tids : In(History, I, t, x.ts + 1)
               /\ steady => \A t \in Tids : In(History, I, t, x.ts + 1) => t \in tids
               /\ Kept(x.evt, m_suppressed_tids) => x.evt.hidden
               /\ steady /\ x.evt.hidden => Kept(x.evt, m_suppressed_tids)
  <1> DEFINE e == x.evt
             tids == scap_check_suppressed(e, m_suppressed_tids)
  <1>1. /\ e \in KernelEvents /\ e.tid \in Tids /\ e.ptid \in Tids /\ e.hidden \in BOOLEAN
        /\ History \in SUBSET Said /\ \A g \in History : g.ts = x.ts => g = x
    <2>1. x \in Said
      BY HistoryKnown
    <2>2. QED
      BY <2>1, HistoryKnown DEF Said, KernelEvents
  <1>2. \A t : t # e.tid => (In(History, I, t, x.ts + 1) <=> In(History, I, t, x.ts))
    BY <1>1, OneMore
  <1>3. In(History, I, e.tid, x.ts + 1) <=> e.hidden /\ e.type # "exit"
    BY <1>1, OneMore
  <1>4. CASE e.type \in {"clone", "execve"}
    <2>1. tids = scap_update_suppressed(e, m_suppressed_tids) /\ e.type # "exit"
          /\ (Kept(e, m_suppressed_tids) <=> SuppressedBy(e, m_suppressed_tids))
      BY <1>4 DEF scap_check_suppressed, Kept, SuppressedBy
    <2>2. SuppressedBy(e, m_suppressed_tids) => e.hidden
      BY <1>4 DEF Told, SuppressedBy
    <2>3. steady /\ e.hidden => SuppressedBy(e, m_suppressed_tids)
      BY <1>1, <1>4 DEF Told, SuppressedBy
    <2>4. /\ e.tid \in tids <=> SuppressedBy(e, m_suppressed_tids)
          /\ \A t : t # e.tid => (t \in tids <=> t \in m_suppressed_tids)
      BY <2>1 DEF scap_update_suppressed
    <2> HIDE DEF tids, e
    <2>5. QED
      BY <1>2, <1>3, <2>1, <2>2, <2>3, <2>4 DEF e, tids
  <1>5. CASE e.type \notin {"clone", "execve"}
    <2>1. (Kept(e, m_suppressed_tids) <=> e.tid \in m_suppressed_tids)
      BY <1>5 DEF Kept
    <2>2. e.hidden <=> In(History, I, e.tid, x.ts)
      BY <1>5 DEF Told
    <2>3. /\ e.tid \in tids <=> e.type # "exit" /\ e.tid \in m_suppressed_tids
          /\ \A t : t # e.tid => (t \in tids <=> t \in m_suppressed_tids)
      BY <1>5 DEF scap_check_suppressed
    <2> HIDE DEF tids, e
    <2>4. QED
      BY <1>1, <1>2, <1>3, <2>1, <2>2, <2>3 DEF e, tids
  <1>6. QED
    BY <1>4, <1>5

\* An event is served and filtered.
LEMMA ServeTells ==
    ASSUME MergeInv, m_suppressed_tids \subseteq Tids, orderly \in BOOLEAN, steady \in BOOLEAN,
           Stamped, Ordered, Followed, scap_next
    PROVE  Stamped' /\ Ordered' /\ Followed' /\ KeptRight'
  <1>1. PICK d \in Devs :
          /\ NextEvent(d)
          /\ m_suppressed_tids' = scap_check_suppressed(log[d][m_sn_next_event[d]].evt, m_suppressed_tids)
          /\ kept' = Kept(log[d][m_sn_next_event[d]].evt, m_suppressed_tids)
          /\ orderly' = (orderly /\ ~Overtakes(d))
          /\ UNCHANGED <<use, task, steady>>
    BY DEF scap_next
  <1>2. /\ NextOf(d) \in 1 .. Len(log[d]) /\ ts(d) = log[d][NextOf(d)].ts /\ ts(d) \in Nat
        /\ hand' = [dev |-> d, at |-> NextOf(d)]
    BY <1>1, Served
  <1>3. m_sn_next_event[d] = NextOf(d)
    BY <1>1, Served DEF MergeInv, Positions, Ready
  <1> DEFINE x == [ts |-> log[d][NextOf(d)].ts, evt |-> log[d][NextOf(d)].evt]
  <1>4. x \in History /\ x.ts = ts(d) /\ x.evt = log[d][NextOf(d)].evt
    BY <1>2, HistoryHas
  <1> HIDE DEF x
  <1>5. UNCHANGED <<clock, stamp, log>> /\ top' = Topped(d)
    BY <1>1 DEF NextEvent, kernelVars
  <1>6. History' = History
    BY <1>5, HistorySame
  <1>7. top.ts \in Nat /\ clock \in Nat /\ x.ts <= clock
    BY <1>4, DeviceTypes, HistoryKnown DEF MergeInv
  <1>8. Stamped'
    <2>1. top'.ts <= clock'
      BY <1>2, <1>4, <1>5, <1>7 DEF Topped, Stamped
    <2>2. QED
      BY <1>5, <2>1 DEF Stamped
  <1>9. PICK I \in SUBSET Tids : Present(I) /\ Told(I) /\ Filtered(I)
    BY DEF Followed
  <1>10. Present(I)' /\ Told(I)'
    BY <1>1, <1>5, <1>6, <1>9 DEF Present, Told, Belongs
  <1>11. CASE ~orderly'
    <2>1. Ordered' /\ Filtered(I)' /\ KeptRight'
      BY <1>11 DEF Ordered, Filtered, KeptRight
    <2>2. QED
      BY <1>8, <1>10, <2>1 DEF Followed
  <1>12. CASE orderly'
    <2>1. orderly /\ ~Overtakes(d)
      BY <1>1, <1>12
    <2>2. /\ top'.ts = x.ts /\ \A y \in History : y.ts < top.ts + 1 <=> y.ts < x.ts
          /\ Ordered'
      BY <1>1, <1>4, <2>1, ServedFirst DEF Ordered
    <2>3. \A t : In(History, I, t, top.ts + 1) <=> In(History, I, t, x.ts)
      BY <2>2, Between
    <2>4. /\ \A t \in m_suppressed_tids : In(History, I, t, x.ts)
          /\ steady => \A t \in Tids : In(History, I, t, x.ts) => t \in m_suppressed_tids
      BY <1>9, <2>1, <2>3 DEF Filtered
    <2>5. /\ m_suppressed_tids' = scap_check_suppressed(x.evt, m_suppressed_tids)
          /\ kept' = Kept(x.evt, m_suppressed_tids) /\ steady' = steady
      BY <1>1, <1>3, <1>4
    <2>6. /\ \A t \in m_suppressed_tids' : In(History, I, t, x.ts + 1)
          /\ steady => \A t \in Tids : In(History, I, t, x.ts + 1) => t \in m_suppressed_tids'
          /\ kept' => x.evt.hidden
          /\ steady /\ x.evt.hidden => kept'
      BY <1>4, <1>9, <2>4, <2>5, FilterStep
    <2>7. Filtered(I)'
      BY <1>6, <2>2, <2>5, <2>6 DEF Filtered
    <2>8. KeptRight'
      <3>1. Last' = x.evt
        BY <1>2, <1>4, <1>5 DEF Last
      <3>2. QED
        BY <2>5, <2>6, <3>1 DEF KeptRight
    <2>9. QED
      BY <1>8, <1>10, <2>2, <2>7, <2>8 DEF Followed
  <1>13. QED
    BY <1>11, <1>12

\* An event is published.
LEMMA PublishTells ==
    ASSUME MergeInv, Stamped, Ordered, Family, Followed, NEW c \in Devs, Publish(c), UNCHANGED suppressVars
    PROVE  Stamped' /\ Ordered' /\ Family' /\ Followed'
  <1>0. MergeTypeOK
    BY DEF MergeInv
  <1>1. History' = History /\ Stamped'
    BY HistoryPublish
  <1>2. UNCHANGED <<clock, devVars, call, top, task, m_suppressed_tids, orderly, steady>>
    BY DEF Publish, suppressVars
  <1>3. Family'
    BY <1>2 DEF Family, Alive
  <1>4. PICK I \in SUBSET Tids : Present(I) /\ Told(I) /\ Filtered(I)
    BY DEF Followed
  <1>5. Present(I)' /\ Told(I)' /\ Filtered(I)'
    BY <1>1, <1>2, <1>4 DEF Present, Told, Filtered, Belongs
  <1>6. Ordered'
    <2> SUFFICES ASSUME orderly
                 PROVE  /\ call # "flush"
                        /\ \A d \in Devs :
                             /\ stamp'[d] # NoStamp => top.ts < stamp'[d].ts
                             /\ \A i \in 1 .. Len(log'[d]) : i < NextOf(d) <=> log'[d][i].ts <= top.ts
      BY <1>2 DEF Ordered, NextOf, devVars
    <2>1. stamp[c] # NoStamp /\ \A d \in Devs : stamp'[d] = IF d = c THEN NoStamp ELSE stamp[d]
      BY <1>0 DEF Publish, MergeTypeOK
    <2>2. \A d \in Devs : stamp'[d] # NoStamp => top.ts < stamp'[d].ts
      BY <2>1 DEF Ordered
    <2>3. ASSUME NEW d \in Devs, NEW i \in 1 .. Len(log'[d])
          PROVE  i < NextOf(d) <=> log'[d][i].ts <= top.ts
      <3>1. /\ Len(log[d]) \in Nat /\ Len(log'[d]) = IF d = c THEN Len(log[d]) + 1 ELSE Len(log[d])
            /\ \A p \in 1 .. Len(log[d]) : log'[d][p] = log[d][p]
            /\ log'[c][Len(log[c]) + 1].ts = stamp[c].ts
        <4>1. Len(log[d]) \in Nat
          BY <1>0, DeviceTypes
        <4>2. QED
          BY ONLY <1>0, <4>1, Published, Publish(c), c \in Devs, d \in Devs, ZenonT(20), SMTT(60)
      <3>2. CASE i \in 1 .. Len(log[d])
        BY <3>1, <3>2 DEF Ordered
      <3>3. CASE d = c /\ i = Len(log[c]) + 1
        <4>1. NextOf(d) <= Len(log[d]) + 1 /\ NextOf(d) \in Nat
          <5>1. Positions
            BY DEF MergeInv
          <5>2. /\ tail[d] \in Nat /\ m_lastreadsize[d] \in Nat /\ m_sn_len[d] \in Nat
                /\ Len(log[d]) \in Nat /\ tail[d] + m_lastreadsize[d] <= Len(log[d])
                /\ m_sn_len[d] <= m_lastreadsize[d]
                /\ NextOf(d) = tail[d] + m_lastreadsize[d] - m_sn_len[d] + 1
            BY <1>0, <5>1, NextPosition
          <5>3. QED
            BY ONLY <5>2, SMTT(60)
        <4>2. stamp[c].ts \in Nat /\ top.ts \in Nat /\ top.ts < stamp[c].ts
          BY <1>0, <2>1, DeviceTypes DEF Ordered
        <4>3. QED
          BY <3>1, <3>3, <4>1, <4>2
      <3>4. QED
        BY <3>1, <3>2, <3>3
    <2>4. QED
      BY <2>2, <2>3 DEF Ordered
  <1>7. QED
    BY <1>1, <1>3, <1>4, <1>5, <1>6 DEF Followed

\* Steps that neither stamp, publish nor serve an event.
LEMMA RestTells ==
    ASSUME Stamped, Ordered, Followed,
           UNCHANGED <<clock, stamp, log, top, m_suppressed_tids, steady>>,
           orderly' => orderly /\ call' # "flush" /\ \A c \in Devs : NextOf(c)' = NextOf(c),
           \A t \in Tids : Belongs(t)' <=> Belongs(t)
    PROVE  Stamped' /\ Ordered' /\ Followed'
  <1>1. History' = History
    BY HistorySame
  <1>2. Stamped'
    BY DEF Stamped
  <1>3. Ordered'
    BY DEF Ordered
  <1>4. PICK I \in SUBSET Tids : Present(I) /\ Told(I) /\ Filtered(I)
    BY DEF Followed
  <1>5. Present(I)'
    BY <1>1, <1>4 DEF Present
  <1>6. Told(I)'
    BY <1>1, <1>4 DEF Told
  <1>7. Filtered(I)'
    BY <1>1, <1>4 DEF Filtered
  <1>8. QED
    BY <1>2, <1>3, <1>5, <1>6, <1>7 DEF Followed

\* What was right about the event in the caller's hands stays right.
LEMMA KeptStays ==
    ASSUME MergeInv, KeptRight, hand' = NoHand \/ hand' = hand,
           \A d \in Devs : \A i \in 1 .. Len(log[d]) : log'[d][i] = log[d][i],
           kept' = kept, orderly' => orderly, steady' => steady
    PROVE  KeptRight'
  <1>1. CASE hand' = NoHand
    BY <1>1 DEF KeptRight
  <1>2. CASE hand' = hand /\ hand # NoHand
    <2>1. hand.at \in 1 .. Len(log[hand.dev]) /\ hand.dev \in Devs
      BY <1>2, DeviceTypes DEF MergeInv, HandPublished
    <2>2. Last' = Last
      BY <1>2, <2>1 DEF Last
    <2>3. QED
      BY <1>2, <2>2 DEF KeptRight
  <1>3. QED
    BY <1>1, <1>2

\* What the processes' steps leave alone.
LEMMA KernelSame ==
    ASSUME Kernel, FilterTyped
    PROVE  /\ UNCHANGED <<use, m_suppressed_tids, kept, orderly, hand, devVars, call, top>>
           /\ steady' \in BOOLEAN /\ (steady' => steady)
  <1> DEFINE Same == /\ UNCHANGED <<use, m_suppressed_tids, kept, orderly, hand, devVars, call, top>>
                     /\ steady' \in BOOLEAN /\ (steady' => steady)
  <1>1. ASSUME NEW c, NEW t, NEW type, NEW r, Emit(c, t, type, r)
        PROVE  UNCHANGED <<use, m_suppressed_tids, kept, orderly, hand, devVars, call, top>>
    BY <1>1 DEF Emit, Stamp
  <1>2. ASSUME NEW p \in Tids, NEW t \in Tids, Create(p, t) PROVE Same
    BY <1>2 DEF Create, mergeVars, FilterTyped
  <1>3. ASSUME NEW c \in Devs, NEW t \in Tids, CloneReturns(c, t) PROVE Same
    BY <1>1, <1>3 DEF CloneReturns, FilterTyped
  <1>4. ASSUME NEW c \in Devs, NEW t \in Tids, NEW listed \in BOOLEAN, Execve(c, t, listed) PROVE Same
    BY <1>1, <1>4 DEF Execve, FilterTyped
  <1>5. ASSUME NEW c \in Devs, NEW t \in Tids, Exit(c, t) PROVE Same
    BY <1>1, <1>5 DEF Exit, FilterTyped
  <1>6. ASSUME NEW c \in Devs, NEW t \in Tids, OtherEvent(c, t) PROVE Same
    BY <1>1, <1>6 DEF OtherEvent, FilterTyped
  <1>7. ASSUME NEW c \in Devs, Publish(c) /\ UNCHANGED suppressVars PROVE Same
    BY <1>7 DEF Publish, suppressVars, FilterTyped
  <1> HIDE DEF Same
  <1>8. Same
    BY <1>2, <1>3, <1>4, <1>5, <1>6, <1>7 DEF Kernel
  <1>9. QED
    BY <1>8 DEF Same

\* The filter's set has threads only.
LEMMA FilterTypedStep ==
    ASSUME MergeInv, FilterTyped, [Next]_vars,
           \A d \in Devs : \A i \in 1 .. Len(log[d]) : log[d][i].evt \in KernelEvents
    PROVE  FilterTyped'
  <1>1. ASSUME NEW d \in Devs, NextEvent(d) PROVE log[d][m_sn_next_event[d]].evt.tid \in Tids
    <2>1. m_sn_next_event[d] \in 1 .. Len(log[d])
      BY <1>1, Served DEF MergeInv, Positions, Ready
    <2>2. log[d][m_sn_next_event[d]].evt \in KernelEvents
      BY <2>1
    <2>3. QED
      BY <2>2 DEF KernelEvents
  <1>2. CASE scap_next
    <2>1. PICK d \in Devs :
            /\ NextEvent(d)
            /\ m_suppressed_tids' = scap_check_suppressed(log[d][m_sn_next_event[d]].evt, m_suppressed_tids)
            /\ kept' = Kept(log[d][m_sn_next_event[d]].evt, m_suppressed_tids)
            /\ orderly' = (orderly /\ ~Overtakes(d))
            /\ steady' = steady
      BY <1>2 DEF scap_next
    <2> DEFINE e == log[d][m_sn_next_event[d]].evt
    <2>2. e.tid \in Tids
      BY <1>1, <2>1
    <2> HIDE DEF e
    <2>3. m_suppressed_tids' \subseteq Tids
      BY <2>1, <2>2 DEF FilterTyped, scap_check_suppressed, scap_update_suppressed, e
    <2>4. kept' \in BOOLEAN
      <3>1. CASE e.type \in {"clone", "execve"}
        BY <2>1, <3>1 DEF Kept, SuppressedBy, e
      <3>2. CASE e.type \notin {"clone", "execve"}
        BY <2>1, <3>2 DEF Kept, e
      <3>3. QED
        BY <3>1, <3>2
    <2>5. orderly' \in BOOLEAN /\ steady' \in BOOLEAN
      BY <2>1 DEF FilterTyped
    <2>6. QED
      BY <2>3, <2>4, <2>5 DEF FilterTyped
  <1>3. CASE Kernel
    BY <1>3, KernelSame DEF FilterTyped
  <1>4. ASSUME m_suppressed_tids' = m_suppressed_tids, kept' = kept, steady' = steady,
               orderly' = orderly \/ orderly' = FALSE
        PROVE  FilterTyped'
    BY <1>4 DEF FilterTyped
  <1>5. QED
    BY <1>2, <1>3, <1>4 DEF Next, Reader, vars, suppressVars

\* Without processes there is nothing to suppress, and nothing is.
LEMMA QuietStep ==
    ASSUME MergeInv, TaskInv, FilterTyped, KeptRight, ~use.processes, Quiet, [Next]_vars
    PROVE  Quiet' /\ KeptRight'
  <1>0. MergeTypeOK
    BY DEF MergeInv
  <1>1. ASSUME NEW c \in Devs, NEW t \in Tids, OtherEvent(c, t)
        PROVE  Quiet' /\ KeptRight'
    <2>1. task' = task /\ steady' = steady /\ Emit(c, t, "other", task[t])
      BY <1>1 DEF OtherEvent
    <2> DEFINE e == [type |-> "other", tid |-> t, ptid |-> task[t].parent, listed |-> task[t].listed,
                     hidden |-> Hid(task[t])]
    <2>2. e \in QuietEvents
      <3>1. task[t].parent \in Tids /\ task[t].listed \in BOOLEAN
        BY TaskTypes
      <3>2. e \in KernelEvents
        BY <3>1 DEF KernelEvents, Hid, Types
      <3>3. ~Hid(task[t])
        BY DEF Quiet, Hid
      <3>4. QED
        BY <3>2, <3>3 DEF QuietEvents
    <2>3. PICK tick : Stamp(c, tick, e)
      BY <2>1 DEF Emit
    <2> HIDE DEF e
    <2>4. \A d \in Devs : stamp'[d] = IF d = c THEN [ts |-> clock', evt |-> e] ELSE stamp[d]
      BY <1>0, <2>3 DEF Stamp, MergeTypeOK
    <2>5. log' = log /\ hand' = hand /\ m_suppressed_tids' = m_suppressed_tids /\ kept' = kept
          /\ orderly' = orderly
      BY <2>1, <2>3 DEF Stamp, Emit
    <2>6. \A d \in Devs : stamp'[d] # NoStamp => stamp'[d].evt \in QuietEvents
      BY <2>2, <2>4 DEF Quiet
    <2>7. Quiet'
      BY <2>1, <2>5, <2>6 DEF Quiet
    <2>8. KeptRight'
      BY <2>1, <2>5, KeptStays
    <2>9. QED
      BY <2>7, <2>8
  <1>2. ASSUME NEW c \in Devs, Publish(c), UNCHANGED suppressVars
        PROVE  Quiet' /\ KeptRight'
    <2>1. stamp[c] # NoStamp /\ \A d \in Devs : stamp'[d] = IF d = c THEN NoStamp ELSE stamp[d]
      BY <1>0, <1>2 DEF Publish, MergeTypeOK
    <2>2. /\ \A d \in Devs : Len(log[d]) \in Nat
          /\ \A d \in Devs : \A i \in 1 .. Len(log[d]) : log'[d][i] = log[d][i]
          /\ \A d \in Devs : Len(log'[d]) = IF d = c THEN Len(log[d]) + 1 ELSE Len(log[d])
          /\ log'[c][Len(log[c]) + 1].evt = stamp[c].evt
      BY <1>0, <1>2, Published, DeviceTypes
    <2>3. \A d \in Devs : \A i \in 1 .. Len(log'[d]) : log'[d][i].evt \in QuietEvents
      <3> SUFFICES ASSUME NEW d \in Devs, NEW i \in 1 .. Len(log'[d]) PROVE log'[d][i].evt \in QuietEvents
        OBVIOUS
      <3>1. i \in 1 .. Len(log[d]) \/ (d = c /\ i = Len(log[c]) + 1)
        BY <2>2
      <3>2. QED
        BY <2>1, <2>2, <3>1 DEF Quiet
    <2>4. UNCHANGED <<task, m_suppressed_tids, kept, orderly, steady, hand>>
      BY <1>2 DEF suppressVars, Publish
    <2>5. Quiet'
      BY <2>1, <2>3, <2>4 DEF Quiet
    <2>6. KeptRight'
      BY <2>2, <2>4, KeptStays
    <2>7. QED
      BY <2>5, <2>6
  <1>3. CASE scap_next
    <2>1. PICK d \in Devs :
            /\ NextEvent(d)
            /\ m_suppressed_tids' = scap_check_suppressed(log[d][m_sn_next_event[d]].evt, m_suppressed_tids)
            /\ kept' = Kept(log[d][m_sn_next_event[d]].evt, m_suppressed_tids)
            /\ UNCHANGED <<use, task, steady>>
      BY <1>3 DEF scap_next
    <2>2. m_sn_next_event[d] \in 1 .. Len(log[d]) /\ hand' = [dev |-> d, at |-> m_sn_next_event[d]]
      BY <2>1, Served DEF MergeInv, Positions, Ready, NextEvent
    <2> DEFINE e == log[d][m_sn_next_event[d]].evt
    <2>3. e.type = "other" /\ ~e.hidden
      BY <2>2 DEF Quiet, QuietEvents
    <2>4. UNCHANGED <<stamp, log>>
      BY <2>1 DEF NextEvent, kernelVars
    <2>5. m_suppressed_tids' = {} /\ ~kept'
      BY <2>1, <2>3 DEF Quiet, scap_check_suppressed, Kept
    <2>6. Quiet'
      BY <2>1, <2>4, <2>5 DEF Quiet
    <2>7. ~Last'.hidden
      BY <2>2, <2>3, <2>4 DEF Last
    <2>8. KeptRight'
      BY <2>5, <2>7 DEF KeptRight
    <2>9. QED
      BY <2>6, <2>8
  <1>4. ASSUME UNCHANGED <<stamp, log, task, m_suppressed_tids, kept, steady>>,
               hand' = NoHand \/ hand' = hand, orderly' => orderly
        PROVE  Quiet' /\ KeptRight'
    <2>1. Quiet'
      BY <1>4 DEF Quiet
    <2>2. QED
      BY <1>4, <2>1, KeptStays
  <1>5. CASE Reader
    BY <1>3, <1>4, <1>5 DEF Reader, RefillBegins, ReadBuf, kernelVars, suppressVars
  <1>6. CASE Kernel
    BY <1>1, <1>2, <1>6 DEF Kernel, Create, CloneReturns, Execve, Exit, Quiet
  <1>7. CASE FlushBegins /\ orderly' = FALSE /\ UNCHANGED <<task, m_suppressed_tids, kept, steady>>
    BY <1>4, <1>7 DEF FlushBegins, kernelVars
  <1>8. CASE UNCHANGED vars
    BY <1>4, <1>8 DEF vars, suppressVars, mergeVars, kernelVars
  <1>9. QED
    BY <1>5, <1>6, <1>7, <1>8 DEF Next

\* The suppression is right where processes run.
LEMMA ProcessStep ==
    ASSUME Ticking, MergeInv, TaskInv, FilterTyped, KeptRight, use.processes,
           Stamped, Ordered, Family, Followed, [Next]_vars
    PROVE  Stamped' /\ Ordered' /\ Family' /\ Followed' /\ KeptRight'
  <1>0. m_suppressed_tids \subseteq Tids /\ orderly \in BOOLEAN /\ steady \in BOOLEAN
    BY DEF FilterTyped
  <1>1. ASSUME NEW c \in Devs, NEW t \in Tids,
               \/ CloneReturns(c, t)
               \/ \E listed \in BOOLEAN : Execve(c, t, listed)
               \/ Exit(c, t)
               \/ OtherEvent(c, t)
        PROVE  Stamped' /\ Ordered' /\ Family' /\ Followed' /\ log' = log
    <2>1. Stamped' /\ Ordered' /\ Family' /\ Followed'
      BY <1>0, <1>1, CloneTells, ExecveTells, ExitTells, OtherTells
    <2>2. \E type, r : Emit(c, t, type, r)
      BY <1>1 DEF CloneReturns, Execve, Exit, OtherEvent
    <2>3. log' = log
      BY <2>2 DEF Emit, Stamp
    <2>4. QED
      BY <2>1, <2>3
  <1>2. ASSUME NEW p \in Tids, NEW t \in Tids, Create(p, t)
        PROVE  Stamped' /\ Ordered' /\ Family' /\ Followed' /\ log' = log
    <2>1. Family' /\ \A u \in Tids : Belongs(u)' <=> Belongs(u)
      BY <1>2, CreateFamily
    <2>2. UNCHANGED <<clock, stamp, log, devVars, call, top, m_suppressed_tids, steady, orderly>>
      BY <1>2 DEF Create, mergeVars, kernelVars
    <2>3. orderly' => orderly /\ call' # "flush" /\ \A c \in Devs : NextOf(c)' = NextOf(c)
      BY <2>2 DEF NextOf, devVars, Ordered
    <2>4. QED
      BY <2>1, <2>2, <2>3, RestTells
  <1>3. ASSUME NEW c \in Devs, Publish(c), UNCHANGED suppressVars
        PROVE  /\ Stamped' /\ Ordered' /\ Family' /\ Followed'
               /\ \A d \in Devs : \A i \in 1 .. Len(log[d]) : log'[d][i] = log[d][i]
    BY <1>3, PublishTells, Published DEF MergeInv
  <1>4. CASE Kernel
    <2>1. /\ Stamped' /\ Ordered' /\ Family' /\ Followed'
          /\ \A d \in Devs : \A i \in 1 .. Len(log[d]) : log'[d][i] = log[d][i]
      BY <1>1, <1>2, <1>3, <1>4 DEF Kernel
    <2>2. KeptRight'
      BY <1>4, <2>1, KernelSame, KeptStays
    <2>3. QED
      BY <2>1, <2>2
  <1>5. CASE scap_next
    <2>1. UNCHANGED <<task, steady>>
      BY <1>5 DEF scap_next
    <2>2. Family'
      BY <2>1 DEF Family, Alive
    <2>3. QED
      BY <1>0, <1>5, <2>2, ServeTells
  <1>6. ASSUME UNCHANGED <<clock, stamp, log, top, task, m_suppressed_tids, kept, steady>>,
               hand' = NoHand \/ hand' = hand,
               orderly' => orderly /\ call' # "flush" /\ \A c \in Devs : NextOf(c)' = NextOf(c)
        PROVE  Stamped' /\ Ordered' /\ Family' /\ Followed' /\ KeptRight'
    <2>1. Family' /\ \A u \in Tids : Belongs(u)' <=> Belongs(u)
      BY <1>6 DEF Family, Alive, Belongs
    <2>2. Stamped' /\ Ordered' /\ Followed'
      BY <1>6, <2>1, RestTells
    <2>3. KeptRight'
      BY <1>6, KeptStays
    <2>4. QED
      BY <2>1, <2>2, <2>3
  <1>7. CASE RefillBegins /\ UNCHANGED suppressVars
    <2>1. UNCHANGED <<clock, stamp, log, top, task, m_suppressed_tids, kept, steady, orderly>>
          /\ hand' = NoHand /\ call' = "refill"
      BY <1>7 DEF RefillBegins, kernelVars, suppressVars
    <2>2. \A c \in Devs : NextOf(c)' = NextOf(c)
      BY <1>7, RefillKeepsNext
    <2>3. QED
      BY <1>6, <2>1, <2>2
  <1>8. CASE ReadBuf /\ UNCHANGED suppressVars
    <2>1. UNCHANGED <<clock, stamp, log, top, task, m_suppressed_tids, kept, steady, orderly, hand>>
          /\ (call' = "none" \/ call' = call) /\ call # "none"
      BY <1>8 DEF ReadBuf, kernelVars, suppressVars
    <2>2. ASSUME orderly PROVE call' # "flush" /\ \A c \in Devs : NextOf(c)' = NextOf(c)
      <3>1. call = "refill"
        BY <2>1, <2>2 DEF Ordered, MergeInv, MergeTypeOK
      <3>2. QED
        BY <1>8, <2>1, <3>1, BufRead
    <2>3. QED
      BY <1>6, <2>1, <2>2
  <1>9. CASE FlushBegins /\ orderly' = FALSE /\ UNCHANGED <<use, task, m_suppressed_tids, kept, steady>>
    <2>1. UNCHANGED <<clock, stamp, log, top, hand>>
      BY <1>9 DEF FlushBegins, kernelVars
    <2>2. QED
      BY <1>6, <1>9, <2>1
  <1>10. CASE UNCHANGED vars
    <2>1. UNCHANGED <<clock, stamp, log, top, hand, call, devVars, task, m_suppressed_tids, kept, steady, orderly>>
      BY <1>10 DEF vars, mergeVars, kernelVars, suppressVars
    <2>2. orderly' => orderly /\ call' # "flush" /\ \A c \in Devs : NextOf(c)' = NextOf(c)
      BY <2>1 DEF NextOf, devVars, Ordered
    <2>3. QED
      BY <1>6, <2>1, <2>2
  <1>11. QED
    BY <1>4, <1>5, <1>7, <1>8, <1>9, <1>10 DEF Next, Reader

\* The capture starts with what the scan of /proc found.
LEMMA SuppressInit ==
    ASSUME Init
    PROVE  SuppressInv
  <1>1. PICK listed \in BOOLEAN, s \in Tids \ {Root} :
          /\ listed => use.processes
          /\ task = [u \in Tids |->
                       IF u = Root THEN [NoTask EXCEPT !.state = "alive"]
                       ELSE IF u = s THEN [NoTask EXCEPT !.state = "alive", !.listed = listed,
                                                         !.hidden = IF listed THEN "comm" ELSE "no"]
                       ELSE NoTask]
          /\ m_suppressed_tids = IF listed THEN {s} ELSE {}
    BY DEF Init
  <1>2. MergeInit /\ kept = FALSE /\ orderly = TRUE /\ steady = TRUE /\ use \in Uses
    BY DEF Init
  <1>3. TaskInv
    BY InitTasks
  <1>4. /\ clock = 1 /\ top.ts = 0 /\ call = "none" /\ hand = NoHand
        /\ \A c \in Devs : stamp[c] = NoStamp /\ log[c] = <<>> /\ Len(log[c]) = 0
    BY <1>2 DEF MergeInit
  <1>5. FilterTyped
    BY <1>1, <1>2 DEF FilterTyped
  <1>6. KeptRight
    BY <1>4 DEF KeptRight
  <1>7. Stamped /\ Ordered
    BY <1>4 DEF Stamped, Ordered
  <1>8. \A u \in Tids :
          /\ task[u].state = IF u \in {Root, s} THEN "alive" ELSE "none"
          /\ task[u].listed = (u = s /\ listed)
          /\ task[u].hidden = IF u = s /\ listed THEN "comm" ELSE "no"
          /\ task[u].parent = Root /\ task[u].cloning = FALSE
    BY <1>1 DEF NoTask
  <1>9. Family
    <2>1. Alive = {Root, s}
      BY <1>8, SuppressAssumption DEF Alive
    <2>2. QED
      BY <1>8, <2>1, SuppressAssumption DEF Family, Hid
  <1>10. \A u \in Tids : Belongs(u) <=> u \in m_suppressed_tids
    BY <1>1, <1>8 DEF Belongs, Hid
  <1>11. History = {}
    BY <1>4 DEF History
  <1>12. \A u, t : In({}, m_suppressed_tids, u, t) <=> u \in m_suppressed_tids
    BY DEF In
  <1>13. Followed
    <2>1. m_suppressed_tids \in SUBSET Tids
      BY <1>5 DEF FilterTyped
    <2>2. Present(m_suppressed_tids) /\ Told(m_suppressed_tids) /\ Filtered(m_suppressed_tids)
      BY <1>10, <1>11, <1>12 DEF Present, Told, Filtered
    <2>3. QED
      BY <2>1, <2>2 DEF Followed
  <1>14. ~use.processes => Quiet
    BY <1>1, <1>4, <1>8 DEF Quiet
  <1>15. QED
    BY <1>3, <1>5, <1>6, <1>7, <1>9, <1>13, <1>14 DEF SuppressInv

\* Every step keeps the suppression right.
LEMMA SuppressStep ==
    ASSUME Ticking, MergeInv, SuppressInv, [Next]_vars
    PROVE  SuppressInv'
  <1>1. TaskInv /\ FilterTyped /\ KeptRight
    BY DEF SuppressInv
  <1>2. TaskInv'
    BY <1>1, StepMerges
  <1>3. use' = use
    <2>1. CASE Kernel
      BY <1>1, <2>1, KernelSame
    <2>2. CASE ~Kernel
      BY <2>2 DEF Next, Reader, scap_next, vars, suppressVars
    <2>3. QED
      BY <2>1, <2>2
  <1>4. \A d \in Devs : \A i \in 1 .. Len(log[d]) : log[d][i].evt \in KernelEvents
    BY DEF SuppressInv, Stamped, Quiet, QuietEvents
  <1>5. FilterTyped'
    BY <1>1, <1>4, FilterTypedStep
  <1>6. CASE use.processes
    BY <1>1, <1>2, <1>3, <1>5, <1>6, ProcessStep DEF SuppressInv
  <1>7. CASE ~use.processes
    BY <1>1, <1>2, <1>3, <1>5, <1>7, QuietStep DEF SuppressInv
  <1>8. QED
    BY <1>6, <1>7

\* Where the clock moves between two events of processes, the filter of scap_next
\* follows the processes: its invariant holds.
THEOREM SuppressInvariant ==
    ASSUME Ticking
    PROVE  Spec => []SuppressInv
  <1>1. Init => SuppressInv
    BY SuppressInit
  <1>2. MergeInv /\ SuppressInv /\ [Next]_vars => SuppressInv'
    BY SuppressStep
  <1>3. QED
    BY <1>1, <1>2, SystemMerges, MergeInvariant, PTL DEF Spec

\* KeptRight: as long as the merge was in order, scap_next kept back only events of
\* suppressed processes, and all of them while no suppressed parent left.
THEOREM SuppressKeptRight ==
    ASSUME Ticking
    PROVE  Spec => []KeptRight
  <1>1. SuppressInv => KeptRight
    BY DEF SuppressInv
  <1>2. QED
    BY <1>1, SuppressInvariant, PTL

\* DeadForgotten: when all events are served no process that has exited is in the set.
THEOREM SuppressDeadForgotten ==
    ASSUME Ticking
    PROVE  Spec => []DeadForgotten
  <1>1. ASSUME MergeInv, SuppressInv PROVE DeadForgotten
    <2> SUFFICES ASSUME orderly, \A c \in Devs : stamp[c] = NoStamp /\ NextOf(c) > Len(log[c]),
                        NEW t \in m_suppressed_tids
                 PROVE  task[t].state # "dead"
      BY DEF DeadForgotten
    <2>1. use.processes /\ Stamped /\ Ordered /\ Followed /\ t \in Tids
      BY <1>1 DEF SuppressInv, Quiet, FilterTyped
    <2>2. PICK I \in SUBSET Tids : Present(I) /\ Filtered(I)
      BY <2>1 DEF Followed
    <2>3. MergeTypeOK /\ Positions /\ clock \in Nat /\ top.ts \in Nat
      BY <1>1, DeviceTypes DEF MergeInv
    <2>4. ASSUME NEW x \in History PROVE x.ts < top.ts + 1 <=> x.ts < clock + 1
      <3>1. x.ts \in Nat /\ x.ts <= clock
        BY <1>1, <2>1, HistoryKnown
      <3>2. PICK c \in Devs : \E i \in 1 .. Len(log[c]) : x.ts = log[c][i].ts
        BY DEF History
      <3>3. PICK i \in 1 .. Len(log[c]) : x.ts = log[c][i].ts
        BY <3>2
      <3>4. i < NextOf(c)
        BY <2>3, NextPosition
      <3>5. x.ts <= top.ts
        BY <2>1, <3>3, <3>4 DEF Ordered
      <3>6. QED
        BY <2>3, <3>1, <3>5
    <2>5. In(History, I, t, top.ts + 1)
      BY <2>2 DEF Filtered
    <2>6. In(History, I, t, clock + 1)
      BY <2>4, <2>5, Between
    <2>7. QED
      BY <2>1, <2>2, <2>6 DEF Present, Belongs
  <1>2. QED
    BY <1>1, SuppressInvariant, SystemMerges, MergeInvariant, PTL
=============================================================================
