--------------------------- MODULE LcoreLoopback ---------------------------
(***************************************************************************)
(* The two-lcore loopback of code_dump/dpdk_lbk_b2b (loopback/main.c; the  *)
(* back2back programs differ in the sockets they register: the server has  *)
(* two, and so up to two guests).  The producer lcore moves one packet at  *)
(* a time from the guest to the ring and drops it when the ring is full;   *)
(* the consumer lcore delivers what it finds and frees every mbuf.         *)
(***************************************************************************)
EXTENDS Integers, Sequences, FiniteSets

CONSTANTS
    Mbufs,         \* the buffers of mbuf_pool
    RingCapacity,  \* RING_SIZE - 1
    BURST_SIZE,    \* what the consumer takes at a time
    Sockets,       \* how many guests can be connected at a time
    Vids,          \* the device ids the vhost library hands out
    MaxPkts,       \* bound: packets the guests send
    MaxConns       \* bound: times a guest connects

ASSUME LcoreAssumption ==
    /\ IsFiniteSet(Mbufs) /\ RingCapacity \in Nat \ {0} /\ BURST_SIZE \in Nat \ {0}
    /\ Sockets \in Nat /\ Vids \subseteq Nat /\ MaxPkts \in Nat /\ MaxConns \in Nat

VARIABLES
    proc,          \* how far main() has come
    g_vid, ready,
    cb,            \* the callback in progress
    live, conns,   \* the guests the library knows, how many have come
    pool, data, ring, taken, delivered, dropped,
    ppc, pvid, pbuf,
    cpc, cvid, cbuf

deviceVars   == <<g_vid, ready, cb, live, conns>>
packetVars   == <<pool, data, ring, taken, delivered, dropped>>
producerVars == <<ppc, pvid, pbuf>>
consumerVars == <<cpc, cvid, cbuf>>
vars == <<proc, deviceVars, packetVars, producerVars, consumerVars>>

NoVid == -1
Least(a, b) == IF a <= b THEN a ELSE b
Elems(s) == {s[i] : i \in 1..Len(s)}

Init ==
    /\ proc = "setup"
    /\ g_vid = NoVid /\ ready = FALSE /\ cb = "idle" /\ live = {} /\ conns = 0
    /\ pool = Mbufs /\ data = [m \in Mbufs |-> 0] /\ ring = <<>>
    /\ taken = 0 /\ delivered = <<>> /\ dropped = 0
    /\ ppc = "none" /\ pvid = NoVid /\ pbuf = <<>>
    /\ cpc = "none" /\ cvid = NoVid /\ cbuf = <<>>

-----------------------------------------------------------------------------
(***************************************************************************)
(* main(): whatever cannot be set up ends the process.  The first socket   *)
(* is served as soon as it is started, also when the server's second one   *)
(* then cannot be.                                                         *)
(***************************************************************************)
Setup ==
    /\ proc = "setup"
    /\ proc' \in {"first", "failed"}
    /\ UNCHANGED <<deviceVars, packetVars, producerVars, consumerVars>>

SetupSecond ==
    /\ proc = "first"
    /\ proc' \in {"listening"} \cup {p \in {"failed"} : Sockets > 1}
    /\ UNCHANGED <<deviceVars, packetVars, producerVars, consumerVars>>

Launch ==
    /\ proc = "listening"
    /\ proc' = "running" /\ ppc' = "ready" /\ cpc' = "vid"
    /\ UNCHANGED <<deviceVars, packetVars, pvid, pbuf, cvid, cbuf>>

-----------------------------------------------------------------------------
(***************************************************************************)
(* The callbacks of the vhost library.                                     *)
(***************************************************************************)
Serving == proc \in {"first", "listening", "running"}

NewDevice(v) ==
    /\ Serving /\ cb = "idle"
    /\ v \notin live /\ conns < MaxConns
    /\ Cardinality(live) < IF proc = "first" THEN 1 ELSE Sockets
    /\ g_vid' = v /\ cb' = "new"
    /\ live' = live \cup {v} /\ conns' = conns + 1
    /\ UNCHANGED <<proc, ready, packetVars, producerVars, consumerVars>>

NewDeviceReady ==
    /\ Serving /\ cb = "new"
    /\ ready' = TRUE /\ cb' = "idle"
    /\ UNCHANGED <<proc, g_vid, live, conns, packetVars, producerVars, consumerVars>>

\* g_vid is cleared whichever guest leaves; ready stays set.
DestroyDevice(v) ==
    /\ Serving /\ cb = "idle" /\ v \in live
    /\ g_vid' = NoVid
    /\ live' = live \ {v}
    /\ UNCHANGED <<proc, ready, cb, conns, packetVars, producerVars, consumerVars>>

-----------------------------------------------------------------------------
(***************************************************************************)
(* producer_loop.                                                          *)
(***************************************************************************)
PReady ==
    /\ ppc = "ready" /\ ready
    /\ ppc' = "vid"
    /\ UNCHANGED <<proc, deviceVars, packetVars, pvid, pbuf, consumerVars>>

PVid ==
    /\ ppc = "vid"
    /\ pvid' = g_vid
    /\ ppc' = IF g_vid = NoVid THEN "ready" ELSE "dequeue"
    /\ UNCHANGED <<proc, deviceVars, packetVars, pbuf, consumerVars>>

PDequeueNone ==
    /\ ppc = "dequeue"
    /\ ppc' = "ready"
    /\ UNCHANGED <<proc, deviceVars, packetVars, pvid, pbuf, consumerVars>>

PDequeue ==
    /\ ppc = "dequeue" /\ pvid \in live /\ taken < MaxPkts
    /\ \E m \in pool :
         /\ pool' = pool \ {m}
         /\ data' = [data EXCEPT ![m] = taken + 1]
         /\ pbuf' = <<m>>
    /\ taken' = taken + 1
    /\ ppc' = "push"
    /\ UNCHANGED <<proc, deviceVars, ring, delivered, dropped, pvid, consumerVars>>

\* A full ring is ignored.
PPushForgets ==
    /\ ppc = "push"
    /\ ring' = IF Len(ring) < RingCapacity THEN ring \o pbuf ELSE ring
    /\ pbuf' = <<>> /\ ppc' = "ready"
    /\ UNCHANGED <<proc, deviceVars, pool, data, taken, delivered, dropped, pvid,
                   consumerVars>>

\* The packet goes to the wrong end of the ring.
PPushFront ==
    /\ ppc = "push"
    /\ IF Len(ring) < RingCapacity
       THEN ring' = pbuf \o ring /\ UNCHANGED <<pool, dropped>>
       ELSE /\ pool' = pool \cup Elems(pbuf) /\ dropped' = dropped + Len(pbuf)
            /\ UNCHANGED ring
    /\ pbuf' = <<>> /\ ppc' = "ready"
    /\ UNCHANGED <<proc, deviceVars, data, taken, delivered, pvid, consumerVars>>

\* Into the ring, or back to the pool when the ring is full.
PPush ==
    /\ ppc = "push"
    /\ IF Len(ring) < RingCapacity
       THEN ring' = ring \o pbuf /\ UNCHANGED <<pool, dropped>>
       ELSE /\ pool' = pool \cup Elems(pbuf) /\ dropped' = dropped + Len(pbuf)
            /\ UNCHANGED ring
    /\ pbuf' = <<>> /\ ppc' = "ready"
    /\ UNCHANGED <<proc, deviceVars, data, taken, delivered, pvid, consumerVars>>

Producer == PReady \/ PVid \/ PDequeueNone \/ PDequeue \/ PPush

-----------------------------------------------------------------------------
(***************************************************************************)
(* consumer_loop.  quit is never set, so the loop has no end.              *)
(***************************************************************************)
CVid ==
    /\ cpc = "vid"
    /\ cvid' = g_vid /\ cpc' = "dequeue"
    /\ UNCHANGED <<proc, deviceVars, packetVars, producerVars, cbuf>>

CDequeue ==
    /\ cpc = "dequeue"
    /\ LET n == Least(BURST_SIZE, Len(ring))
       IN  /\ cbuf' = SubSeq(ring, 1, n)
           /\ ring' = SubSeq(ring, n + 1, Len(ring))
           /\ cpc' = IF n > 0 THEN "deliver" ELSE "vid"
    /\ UNCHANGED <<proc, deviceVars, pool, data, taken, delivered, dropped,
                   producerVars, cvid>>

\* Without a guest the batch is kept back until there is one.
CDeliverWaits ==
    /\ cpc = "deliver" /\ cvid \in live
    /\ \E n \in 0..Len(cbuf) :
         /\ delivered' = delivered \o [i \in 1..n |-> data[cbuf[i]]]
         /\ dropped' = dropped + (Len(cbuf) - n)
    /\ pool' = pool \cup Elems(cbuf)
    /\ cbuf' = <<>> /\ cpc' = "vid"
    /\ UNCHANGED <<proc, deviceVars, data, ring, taken, producerVars, cvid>>

\* The guest takes what it has room for, nothing when cvid is no guest; every
\* mbuf of the batch is freed in any case.
CDeliver ==
    /\ cpc = "deliver"
    /\ \E n \in 0..Len(cbuf) :
         /\ n > 0 => cvid \in live
         /\ delivered' = delivered \o [i \in 1..n |-> data[cbuf[i]]]
         /\ dropped' = dropped + (Len(cbuf) - n)
    /\ pool' = pool \cup Elems(cbuf)
    /\ cbuf' = <<>> /\ cpc' = "vid"
    /\ UNCHANGED <<proc, deviceVars, data, ring, taken, producerVars, cvid>>

Consumer == CVid \/ CDequeue \/ CDeliver

-----------------------------------------------------------------------------
Failed == proc = "failed" /\ UNCHANGED vars

Next ==
    \/ Setup \/ SetupSecond \/ Launch \/ Failed
    \/ \E v \in Vids : NewDevice(v) \/ DestroyDevice(v)
    \/ NewDeviceReady
    \/ Producer \/ Consumer

Spec == Init /\ [][Next]_vars

\* main() and the lcores run; no guest has to do anything.
FairSpec ==
    /\ Spec
    /\ WF_vars(SetupSecond) /\ WF_vars(Launch) /\ WF_vars(NewDeviceReady)
    /\ WF_vars(Producer) /\ WF_vars(Consumer)

-----------------------------------------------------------------------------
Held == cbuf \o ring \o pbuf

TypeOK ==
    /\ proc \in {"setup", "first", "listening", "running", "failed"}
    /\ g_vid \in Vids \cup {NoVid} /\ ready \in BOOLEAN /\ live \subseteq Vids
    /\ cb \in {"idle", "new"} /\ conns \in 0..MaxConns
    /\ pool \subseteq Mbufs /\ data \in [Mbufs -> 0..MaxPkts]
    /\ ring \in Seq(Mbufs) /\ Len(ring) <= RingCapacity
    /\ taken \in 0..MaxPkts /\ dropped \in 0..MaxPkts /\ delivered \in Seq(1..MaxPkts)
    /\ ppc \in {"none", "ready", "vid", "dequeue", "push"} /\ Len(pbuf) <= 1
    /\ cpc \in {"none", "vid", "dequeue", "deliver"} /\ Len(cbuf) <= BURST_SIZE

\* "If ring is full, we must free mbufs to prevent leaks": every mbuf is free
\* or held once, also when packets are dropped at a full ring or for want of a
\* guest.
NoMbufLeak ==
    /\ \A i, j \in 1..Len(Held) : Held[i] = Held[j] => i = j
    /\ pool \cap Elems(Held) = {}
    /\ pool \cup Elems(Held) = Mbufs

\* Packets come out in the order they went in, and each is delivered, dropped
\* or on its way.
InOrderOrDropped ==
    /\ \A i, j \in 1..Len(delivered) : i < j => delivered[i] < delivered[j]
    /\ \A i \in 1..Len(delivered), j \in 1..Len(ring) : delivered[i] < data[ring[j]]
    /\ taken = Len(delivered) + dropped + Len(Held)

\* The bridge empties itself: every packet in it is delivered or dropped,
\* whether or not a guest is there.
Empties ==
    \A k \in 1..MaxPkts :
      (\E i \in 1..Len(Held) : data[Held[i]] = k)
        ~> ~ \E i \in 1..Len(Held) : data[Held[i]] = k
=============================================================================
