--------------------------- MODULE VhostController ---------------------------
(***************************************************************************)
(* vtb::VhostController (vtb/src/vhost_controller.cpp): the vhost-user     *)
(* back end of the Virtual Tester Bridge.  A producer thread moves bursts  *)
(* of packets from the guest's TX virtqueue to an rte_ring, a consumer     *)
(* thread moves them from the ring to the guest's RX virtqueue, the vhost  *)
(* library's event thread announces and withdraws guests, and the owner    *)
(* of the object initialises, runs, stops and destroys it.                 *)
(*                                                                         *)
(* A packet is the number it got when it was taken off a guest's TX queue. *)
(* An mbuf is an element of Mbufs; data[m] is the packet it carries.       *)
(***************************************************************************)
EXTENDS Integers, Sequences, FiniteSets

CONSTANTS
    Mbufs,                \* the buffers of mbuf_pool_
    PKT_BURST_SZ,         \* the size of the threads' pkts[] arrays
    RingCapacity,         \* RING_SIZE - 1, what an rte_ring can hold
    MAX_ENQUEUE_RETRIES,  \* how often the consumer offers a batch again
    Vids,                 \* the device ids the vhost library hands out
    MaxPkts,              \* bound: packets the guests send
    MaxConns              \* bound: times a guest connects

\* PKT_BURST_SZ (32) <= RING_SIZE - 1 (4095) is a fact of the header's constants.
ASSUME ConstantsAssumption ==
    /\ IsFiniteSet(Mbufs)
    /\ PKT_BURST_SZ \in Nat \ {0}
    /\ RingCapacity \in Nat
    /\ PKT_BURST_SZ <= RingCapacity
    /\ MAX_ENQUEUE_RETRIES \in Nat \ {0}
    /\ Vids \subseteq Nat
    /\ MaxPkts \in Nat
    /\ MaxConns \in Nat

VARIABLES
    \* the owner of the object and what it holds
    main,                 \* where the owner's thread is
    instance_,            \* is the static instance pointer set
    eal_initialised_, mbuf_pool_, ring_, driver_registered_,
    listening,            \* rte_vhost_driver_start succeeded, not yet unregistered
    quit_,
    \* what the vhost event thread shares with the workers
    ready_, vid_,
    cb,                   \* the callback it is in: <<"idle">>, <<"new", vid>> or <<"destroy", vid>>
    live,                 \* the devices the vhost library knows
    conns,                \* how many guests have connected
    \* the packets
    pool,                 \* the mbufs that are free
    data,                 \* the packet each mbuf carries
    ring,                 \* the content of the rte_ring
    taken,                \* packets taken off TX queues so far
    delivered,            \* packets put on RX queues, in order
    dropped,              \* packets freed without being delivered
    \* producer_loop
    ppc, ppkts, psent, rx_pkts_,
    \* consumer_loop
    cpc, cpkts, csent, retries, tx_pkts_, tx_bytes_

ownerVars    == <<main, instance_, eal_initialised_, mbuf_pool_, ring_,
                  driver_registered_, listening>>
deviceVars   == <<ready_, vid_, cb, live, conns>>
producerVars == <<ppc, ppkts, psent, rx_pkts_>>
consumerVars == <<cpc, cpkts, csent, retries, tx_pkts_, tx_bytes_>>
packetVars   == <<pool, data, ring, taken, delivered, dropped>>
vars == <<ownerVars, quit_, deviceVars, packetVars, producerVars, consumerVars>>

NoVid == -1

Least(a, b) == IF a <= b THEN a ELSE b

\* The elements of a sequence, and the sequence without its first n elements.
Elems(s)   == {s[i] : i \in 1..Len(s)}
Rest(s, n) == SubSeq(s, n + 1, Len(s))

-----------------------------------------------------------------------------
(***************************************************************************)
(* The object is constructed: nothing is allocated and no thread runs.  A  *)
(* second object throws while instance_ is set, and changes nothing.       *)
(***************************************************************************)
Init ==
    /\ main = "constructed"
    /\ instance_ = TRUE
    /\ eal_initialised_ = FALSE /\ mbuf_pool_ = FALSE /\ ring_ = "null"
    /\ driver_registered_ = FALSE /\ listening = FALSE
    /\ quit_ = FALSE
    /\ ready_ = FALSE /\ vid_ = NoVid /\ cb = <<"idle", NoVid>>
    /\ live = {} /\ conns = 0
    /\ pool = Mbufs /\ data = [m \in Mbufs |-> 0]
    /\ ring = <<>> /\ taken = 0 /\ delivered = <<>> /\ dropped = 0
    /\ ppc = "none" /\ ppkts = <<>> /\ psent = 0 /\ rx_pkts_ = 0
    /\ cpc = "none" /\ cpkts = <<>> /\ csent = 0 /\ retries = 0
    /\ tx_pkts_ = 0 /\ tx_bytes_ = 0

-----------------------------------------------------------------------------
(***************************************************************************)
(* Variants of the actions below with a plausible fault each; the checks   *)
(* of the properties are shown to notice them.                             *)
(***************************************************************************)

\* ~VhostController without the joins.
DestroyJoinSkipped ==
    /\ main = "dtorJoin"
    /\ main' = "dtorUnregister"
    /\ UNCHANGED <<instance_, eal_initialised_, mbuf_pool_, ring_,
                   driver_registered_, listening, quit_, deviceVars, packetVars,
                   producerVars, consumerVars>>

\* on_destroy_device that leaves ready_ set.
DestroyDeviceStaysReady(v) ==
    /\ cb[1] = "idle" /\ v \in live
    /\ cb' = IF vid_ = v THEN <<"destroy", v>> ELSE cb
    /\ live' = IF vid_ = v THEN live ELSE live \ {v}
    /\ UNCHANGED <<ownerVars, quit_, ready_, vid_, conns, packetVars,
                   producerVars, consumerVars>>

\* A retry offers the batch from &pkts[0].
CEnqueueFromStart ==
    /\ cpc = "enqueue"
    /\ csent < Len(cpkts) /\ retries < MAX_ENQUEUE_RETRIES
    /\ \E nb_tx \in 0..(Len(cpkts) - csent) :
         /\ nb_tx > 0 => vid_ \in live
         /\ csent' = csent + nb_tx
         /\ delivered' = delivered \o [i \in 1..nb_tx |-> data[cpkts[i]]]
    /\ retries' = IF csent' < Len(cpkts) THEN retries + 1 ELSE retries
    /\ UNCHANGED <<ownerVars, quit_, deviceVars, pool, data, ring, taken, dropped,
                   producerVars, cpc, cpkts, tx_pkts_, tx_bytes_>>

\* Only delivered mbufs are freed.
CFinishForgets ==
    /\ cpc = "enqueue"
    /\ csent = Len(cpkts) \/ retries = MAX_ENQUEUE_RETRIES
    /\ tx_bytes_' = tx_bytes_ + Len(cpkts)
    /\ tx_pkts_' = tx_pkts_ + csent
    /\ dropped' = dropped + (Len(cpkts) - csent)
    /\ pool' = pool \cup Elems(SubSeq(cpkts, 1, csent))
    /\ cpkts' = <<>> /\ csent' = 0 /\ retries' = 0
    /\ cpc' = "quit"
    /\ UNCHANGED <<ownerVars, quit_, deviceVars, data, ring, taken, delivered,
                   producerVars>>

\* The whole batch is counted as sent.
CFinishCountsAll ==
    /\ cpc = "enqueue"
    /\ csent = Len(cpkts) \/ retries = MAX_ENQUEUE_RETRIES
    /\ tx_bytes_' = tx_bytes_ + Len(cpkts)
    /\ tx_pkts_' = tx_pkts_ + Len(cpkts)
    /\ dropped' = dropped + (Len(cpkts) - csent)
    /\ pool' = pool \cup Elems(cpkts)
    /\ cpkts' = <<>> /\ csent' = 0 /\ retries' = 0
    /\ cpc' = "quit"
    /\ UNCHANGED <<ownerVars, quit_, deviceVars, data, ring, taken, delivered,
                   producerVars>>

\* The batch is never given up: the consumer waits until all is delivered.
CFinishWhenAllSent ==
    /\ cpc = "enqueue" /\ csent = Len(cpkts)
    /\ tx_bytes_' = tx_bytes_ + Len(cpkts)
    /\ tx_pkts_' = tx_pkts_ + csent
    /\ pool' = pool \cup Elems(cpkts)
    /\ cpkts' = <<>> /\ csent' = 0 /\ retries' = 0
    /\ cpc' = "quit"
    /\ UNCHANGED <<ownerVars, quit_, deviceVars, data, ring, taken, delivered,
                   dropped, producerVars>>

\* No drain at all.
CDrainSkipped ==
    /\ cpc = "drain"
    /\ cpc' = "exited"
    /\ UNCHANGED <<ownerVars, quit_, deviceVars, packetVars, producerVars,
                   cpkts, csent, retries, tx_pkts_, tx_bytes_>>

-----------------------------------------------------------------------------
(***************************************************************************)
(* The owner's thread.  A call that throws leaves what was built before in *)
(* place and goes to the destructor ("unwinding").                         *)
(***************************************************************************)

\* init(): rte_eal_init, the mbuf pool, the ring; the step that fails throws.
InitEal ==
    /\ main = "constructed"
    /\ \E built \in 0..3 :
         /\ eal_initialised_' = (built >= 1)
         /\ mbuf_pool_' = (built >= 2)
         /\ ring_' = IF built = 3 THEN "allocated" ELSE "null"
         /\ main' = IF built = 3 THEN "initialised" ELSE "unwinding"
    /\ UNCHANGED <<instance_, driver_registered_, listening, quit_,
                   deviceVars, packetVars, producerVars, consumerVars>>

\* start(): register the socket, register the callbacks, start the driver.
Start ==
    /\ main = "initialised"
    /\ \E done \in 0..3 :
         /\ driver_registered_' = (done >= 1)
         /\ listening' = (done = 3)
         /\ main' = IF done = 3 THEN "started" ELSE "unwinding"
    /\ UNCHANGED <<instance_, eal_initialised_, mbuf_pool_, ring_, quit_,
                   deviceVars, packetVars, producerVars, consumerVars>>

\* run(), up to the first join.  Creating a std::thread may throw; the
\* threads created before it go on.
Run ==
    /\ main = "started"
    /\ \E created \in 0..2 :
         /\ ppc' = IF created >= 1 THEN "quit" ELSE ppc
         /\ cpc' = IF created = 2 THEN "quit" ELSE cpc
         /\ main' = IF created = 2 THEN "joinProducer" ELSE "unwinding"
    /\ UNCHANGED <<instance_, eal_initialised_, mbuf_pool_, ring_,
                   driver_registered_, listening, quit_, deviceVars, packetVars,
                   ppkts, psent, rx_pkts_,
                   cpkts, csent, retries, tx_pkts_, tx_bytes_>>

\* run(), producer_thread_.join() and consumer_thread_.join().
JoinProducer ==
    /\ main = "joinProducer" /\ ppc = "exited"
    /\ main' = "joinConsumer"
    /\ UNCHANGED <<instance_, eal_initialised_, mbuf_pool_, ring_,
                   driver_registered_, listening, quit_, deviceVars, packetVars,
                   producerVars, consumerVars>>

JoinConsumer ==
    /\ main = "joinConsumer" /\ cpc = "exited"
    /\ main' = "returned"
    /\ UNCHANGED <<instance_, eal_initialised_, mbuf_pool_, ring_,
                   driver_registered_, listening, quit_, deviceVars, packetVars,
                   producerVars, consumerVars>>

\* stop(), from a signal handler or another thread, while the object exists.
Stop ==
    /\ main # "destroyed"
    /\ quit_' = TRUE
    /\ UNCHANGED <<ownerVars, deviceVars, packetVars, producerVars, consumerVars>>

\* ~VhostController: stop(), then the joins of the threads still joinable.
Destroy ==
    /\ main \in {"unwinding", "returned"}
    /\ main' = "dtorJoin"
    /\ quit_' = TRUE
    /\ UNCHANGED <<instance_, eal_initialised_, mbuf_pool_, ring_,
                   driver_registered_, listening, deviceVars, packetVars,
                   producerVars, consumerVars>>

DestroyJoin ==
    /\ main = "dtorJoin"
    /\ ppc \in {"none", "exited"} /\ cpc \in {"none", "exited"}
    /\ main' = "dtorUnregister"
    /\ UNCHANGED <<instance_, eal_initialised_, mbuf_pool_, ring_,
                   driver_registered_, listening, quit_, deviceVars, packetVars,
                   producerVars, consumerVars>>

\* rte_vhost_driver_unregister returns once the library has taken down the
\* devices of the socket, each with a destroy_device callback.
Unregister ==
    /\ main = "dtorUnregister"
    /\ driver_registered_ => live = {} /\ cb[1] = "idle"
    /\ listening' = FALSE
    /\ main' = "dtorFree"
    /\ UNCHANGED <<instance_, eal_initialised_, mbuf_pool_, ring_,
                   driver_registered_, quit_, deviceVars, packetVars,
                   producerVars, consumerVars>>

\* rte_ring_free, rte_eal_cleanup and the reset of instance_.
Free ==
    /\ main = "dtorFree"
    /\ ring_' = IF ring_ = "allocated" THEN "freed" ELSE ring_
    /\ instance_' = FALSE
    /\ main' = "destroyed"
    /\ UNCHANGED <<eal_initialised_, mbuf_pool_, driver_registered_, listening,
                   quit_, deviceVars, packetVars, producerVars, consumerVars>>

Owner == \/ InitEal \/ Start \/ Run \/ JoinProducer \/ JoinConsumer
         \/ Destroy \/ DestroyJoin \/ Unregister \/ Free

-----------------------------------------------------------------------------
(***************************************************************************)
(* The vhost event thread: one callback at a time.                         *)
(***************************************************************************)

\* on_new_device: vid_ is written, then ready_ is released.  The library
\* takes a connection on any socket it listens on.
NewDevice(v) ==
    /\ listening /\ main # "dtorUnregister"
    /\ cb[1] = "idle" /\ v \notin live /\ conns < MaxConns
    /\ live' = live \cup {v} /\ conns' = conns + 1
    /\ vid_' = v
    /\ cb' = <<"new", v>>
    /\ UNCHANGED <<ownerVars, quit_, ready_, packetVars, producerVars, consumerVars>>

NewDeviceReady ==
    /\ cb[1] = "new"
    /\ ready_' = TRUE
    /\ cb' = <<"idle", NoVid>>
    /\ UNCHANGED <<ownerVars, quit_, vid_, live, conns, packetVars,
                   producerVars, consumerVars>>

\* on_destroy_device: only for the device vid_ names, ready_ first, vid_ next.
DestroyDevice(v) ==
    /\ cb[1] = "idle" /\ v \in live
    /\ IF vid_ = v
       THEN /\ ready_' = FALSE
            /\ cb' = <<"destroy", v>>
            /\ UNCHANGED live
       ELSE /\ live' = live \ {v}
            /\ UNCHANGED <<ready_, cb>>
    /\ UNCHANGED <<ownerVars, quit_, vid_, conns, packetVars,
                   producerVars, consumerVars>>

DestroyDeviceVid ==
    /\ cb[1] = "destroy"
    /\ vid_' = NoVid
    /\ live' = live \ {cb[2]}
    /\ cb' = <<"idle", NoVid>>
    /\ UNCHANGED <<ownerVars, quit_, ready_, conns, packetVars,
                   producerVars, consumerVars>>

Callback == NewDeviceReady \/ DestroyDeviceVid

\* rte_vhost_driver_unregister takes down the devices that are left.
TakeDown == main = "dtorUnregister" /\ \E v \in Vids : DestroyDevice(v)

-----------------------------------------------------------------------------
(***************************************************************************)
(* producer_loop.  quit_, ready_ and vid_ are read in that order, one at a *)
(* time; the vhost library looks the device up when it is called, and      *)
(* yields nothing for a vid it does not know.                              *)
(***************************************************************************)
PQuit ==
    /\ ppc = "quit"
    /\ ppc' = IF quit_ THEN "exited" ELSE "ready"
    /\ UNCHANGED <<ownerVars, quit_, deviceVars, packetVars, ppkts, psent,
                   rx_pkts_, consumerVars>>

PReady ==
    /\ ppc = "ready"
    /\ ppc' = IF ready_ THEN "dequeue" ELSE "quit"
    /\ UNCHANGED <<ownerVars, quit_, deviceVars, packetVars, ppkts, psent,
                   rx_pkts_, consumerVars>>

\* rte_vhost_dequeue_burst returns nothing: no device, no packet, no mbuf.
PDequeueNone ==
    /\ ppc = "dequeue"
    /\ ppc' = "quit"
    /\ UNCHANGED <<ownerVars, quit_, deviceVars, packetVars, ppkts, psent,
                   rx_pkts_, consumerVars>>

\* It returns n packets, each in an mbuf of its own from mbuf_pool_.
PDequeue ==
    /\ ppc = "dequeue" /\ vid_ \in live
    /\ \E n \in 1..Least(PKT_BURST_SZ, MaxPkts - taken) :
       \E b \in [1..n -> pool] :
         /\ \A i, j \in 1..n : b[i] = b[j] => i = j
         /\ ppkts' = b
         /\ pool' = pool \ {b[i] : i \in 1..n}
         /\ data' = [m \in Mbufs |->
                       IF \E i \in 1..n : b[i] = m
                       THEN taken + (CHOOSE i \in 1..n : b[i] = m)
                       ELSE data[m]]
         /\ taken' = taken + n
    /\ psent' = 0
    /\ ppc' = "push"
    /\ UNCHANGED <<ownerVars, quit_, deviceVars, ring, delivered, dropped,
                   rx_pkts_, consumerVars>>

\* One turn of the loop around rte_ring_sp_enqueue_burst, which takes what
\* fits.  The loop ends when all are in, whatever quit_ says.
PPush ==
    /\ ppc = "push"
    /\ LET pushed == Least(Len(ppkts) - psent, RingCapacity - Len(ring))
       IN  /\ ring' = ring \o SubSeq(ppkts, psent + 1, psent + pushed)
           /\ IF psent + pushed = Len(ppkts)
              THEN /\ rx_pkts_' = rx_pkts_ + Len(ppkts)
                   /\ ppkts' = <<>> /\ psent' = 0
                   /\ ppc' = "quit"
              ELSE /\ psent' = psent + pushed
                   /\ UNCHANGED <<rx_pkts_, ppkts, ppc>>
    /\ UNCHANGED <<ownerVars, quit_, deviceVars, pool, data, taken, delivered,
                   dropped, consumerVars>>

Producer == PQuit \/ PReady \/ PDequeueNone \/ PDequeue \/ PPush

-----------------------------------------------------------------------------
(***************************************************************************)
(* consumer_loop.                                                          *)
(***************************************************************************)
CQuit ==
    /\ cpc = "quit"
    /\ cpc' = IF quit_ THEN "drain" ELSE "ready"
    /\ UNCHANGED <<ownerVars, quit_, deviceVars, packetVars, producerVars,
                   cpkts, csent, retries, tx_pkts_, tx_bytes_>>

CReady ==
    /\ cpc = "ready"
    /\ cpc' = IF ready_ THEN "dequeue" ELSE "quit"
    /\ UNCHANGED <<ownerVars, quit_, deviceVars, packetVars, producerVars,
                   cpkts, csent, retries, tx_pkts_, tx_bytes_>>

\* rte_ring_sc_dequeue_burst takes up to PKT_BURST_SZ mbufs off the ring.
CDequeue ==
    /\ cpc = "dequeue"
    /\ LET nb_deq == Least(PKT_BURST_SZ, Len(ring))
       IN  /\ cpkts' = SubSeq(ring, 1, nb_deq)
           /\ ring' = Rest(ring, nb_deq)
           /\ cpc' = IF nb_deq = 0 THEN "quit" ELSE "enqueue"
    /\ csent' = 0 /\ retries' = 0
    /\ UNCHANGED <<ownerVars, quit_, deviceVars, pool, data, taken, delivered,
                   dropped, producerVars, tx_pkts_, tx_bytes_>>

\* One rte_vhost_enqueue_burst of what is left of the batch.  The guest takes
\* as many as it has room for, none when vid_ is not a device.
CEnqueue ==
    /\ cpc = "enqueue"
    /\ csent < Len(cpkts) /\ retries < MAX_ENQUEUE_RETRIES
    /\ \E nb_tx \in 0..(Len(cpkts) - csent) :
         /\ nb_tx > 0 => vid_ \in live
         /\ csent' = csent + nb_tx
         /\ delivered' = delivered \o [i \in 1..nb_tx |-> data[cpkts[csent + i]]]
    /\ retries' = IF csent' < Len(cpkts) THEN retries + 1 ELSE retries
    /\ UNCHANGED <<ownerVars, quit_, deviceVars, pool, data, ring, taken, dropped,
                   producerVars, cpc, cpkts, tx_pkts_, tx_bytes_>>

\* The end of a batch: count, free what was not delivered, free the rest.
\* tx_bytes_ grows with every packet of the batch (a packet has length 1).
CFinish ==
    /\ cpc = "enqueue"
    /\ csent = Len(cpkts) \/ retries = MAX_ENQUEUE_RETRIES
    /\ tx_bytes_' = tx_bytes_ + Len(cpkts)
    /\ tx_pkts_' = tx_pkts_ + csent
    /\ dropped' = dropped + (Len(cpkts) - csent)
    /\ pool' = pool \cup Elems(cpkts)
    /\ cpkts' = <<>> /\ csent' = 0 /\ retries' = 0
    /\ cpc' = "quit"
    /\ UNCHANGED <<ownerVars, quit_, deviceVars, data, ring, taken, delivered,
                   producerVars>>

\* After quit_: free what the ring holds, until it is seen empty.
CDrain ==
    /\ cpc = "drain"
    /\ LET remaining == Least(PKT_BURST_SZ, Len(ring))
       IN  /\ pool' = pool \cup Elems(SubSeq(ring, 1, remaining))
           /\ ring' = Rest(ring, remaining)
           /\ dropped' = dropped + remaining
           /\ cpc' = IF remaining = 0 THEN "exited" ELSE "drain"
    /\ UNCHANGED <<ownerVars, quit_, deviceVars, data, taken, delivered,
                   producerVars, cpkts, csent, retries, tx_pkts_, tx_bytes_>>

Consumer == CQuit \/ CReady \/ CDequeue \/ CEnqueue \/ CFinish \/ CDrain

-----------------------------------------------------------------------------
\* Nothing is left to do once the object is gone.
Terminated == main = "destroyed" /\ UNCHANGED vars

Next ==
    \/ Owner \/ Stop
    \/ \E v \in Vids : NewDevice(v) \/ DestroyDevice(v)
    \/ Callback
    \/ Producer \/ Consumer
    \/ Terminated

Spec == Init /\ [][Next]_vars

\* The scheduler runs every thread that can run.  Nothing makes a guest
\* connect, send or accept, and nothing makes the program call stop().
FairSpec ==
    /\ Spec
    /\ WF_vars(Owner) /\ WF_vars(Callback)
    /\ WF_vars(TakeDown)
    /\ WF_vars(Producer) /\ WF_vars(Consumer)

-----------------------------------------------------------------------------
(***************************************************************************)
(* State functions of the properties.                                      *)
(***************************************************************************)

\* The mbufs the program holds, from the oldest packet to the newest.
Held == cpkts \o ring \o Rest(ppkts, psent)

\* The mbufs whose packet is still on its way.
Flight == Rest(cpkts, csent) \o ring \o Rest(ppkts, psent)

\* The packets in a sequence of mbufs.
Packets(s) == [i \in 1..Len(s) |-> data[s[i]]]

Threads == {"none", "quit", "ready", "dequeue", "push", "enqueue", "drain", "exited"}
Phases  == {"constructed", "initialised", "started", "joinProducer",
            "joinConsumer", "returned", "unwinding", "dtorJoin",
            "dtorUnregister", "dtorFree", "destroyed"}

OwnerTypeOK ==
    /\ main \in Phases /\ instance_ \in BOOLEAN
    /\ eal_initialised_ \in BOOLEAN /\ mbuf_pool_ \in BOOLEAN
    /\ ring_ \in {"null", "allocated", "freed"}
    /\ driver_registered_ \in BOOLEAN /\ listening \in BOOLEAN

DeviceTypeOK ==
    /\ ready_ \in BOOLEAN /\ vid_ \in Vids \cup {NoVid}
    /\ cb \in {"idle", "new", "destroy"} \X (Vids \cup {NoVid})
    /\ live \subseteq Vids /\ conns \in 0..MaxConns

PacketTypeOK ==
    /\ pool \subseteq Mbufs /\ data \in [Mbufs -> 0..MaxPkts]
    /\ ring \in Seq(Mbufs) /\ Len(ring) <= RingCapacity
    /\ taken \in 0..MaxPkts /\ delivered \in Seq(0..MaxPkts) /\ dropped \in Nat

ProducerTypeOK ==
    /\ ppc \in Threads /\ ppkts \in Seq(Mbufs) /\ Len(ppkts) <= PKT_BURST_SZ
    /\ psent \in 0..Len(ppkts) /\ rx_pkts_ \in Nat

ConsumerTypeOK ==
    /\ cpc \in Threads /\ cpkts \in Seq(Mbufs) /\ Len(cpkts) <= PKT_BURST_SZ
    /\ csent \in 0..Len(cpkts) /\ retries \in 0..MAX_ENQUEUE_RETRIES
    /\ tx_pkts_ \in Nat /\ tx_bytes_ \in Nat

\* Every variable keeps its type; the ring, the batches and the retry counter
\* stay inside the sizes the header gives them (vhost_controller.h).
TypeOK ==
    /\ OwnerTypeOK /\ quit_ \in BOOLEAN /\ DeviceTypeOK
    /\ PacketTypeOK /\ ProducerTypeOK /\ ConsumerTypeOK

-----------------------------------------------------------------------------
(***************************************************************************)
(* Safety.                                                                 *)
(***************************************************************************)

\* Every mbuf is either free or held in exactly one place: none is freed
\* twice, none is freed while a thread or the ring still has it, and none is
\* forgotten by the producer, the ring or the consumer.
MbufConservation ==
    /\ \A i, j \in 1..Len(Held) : Held[i] = Held[j] => i = j
    /\ pool \cap Elems(Held) = {}
    /\ pool \cup Elems(Held) = Mbufs

\* The guest receives the packets in the order the guest sent them, none
\* twice, through burst boundaries, partial ring enqueues and partial guest
\* enqueues.
DeliveredInOrder ==
    \A i, j \in 1..Len(delivered) : i < j => delivered[i] < delivered[j]

\* The statistics are exact: rx_pkts_ lags the packets taken by the burst in
\* hand, tx_pkts_ lags those delivered by the batch in hand, and every packet
\* is delivered, dropped or in flight.
Accounting ==
    /\ taken = rx_pkts_ + Len(ppkts)
    /\ Len(delivered) = tx_pkts_ + csent
    /\ taken = Len(delivered) + dropped + Len(Flight)

\* While ready_ is set vid_ names a device the library knows, although the
\* two are written one after the other and guests come and go.
ReadyNamesDevice == ready_ => vid_ \in live

\* The destructor takes nothing away that is still used: no thread runs when
\* the ring is gone, and no callback can find instance_ null.
TeardownSafe ==
    /\ ring_ = "freed" => {ppc, cpc} \subseteq {"none", "exited"}
    /\ cb[1] # "idle" \/ live # {} => instance_

\* What the drain of the consumer leaves behind when run() returns is at most
\* the one burst the producer had in hand.
LeakBound == main = "returned" => Len(ring) <= PKT_BURST_SZ

-----------------------------------------------------------------------------
(***************************************************************************)
(* Liveness, under FairSpec.                                               *)
(***************************************************************************)

\* Once stop() was called, run() returns and the object can be destroyed: no
\* retry loop holds a thread for ever, since a drained ring has room for the
\* burst the producer still holds (PKT_BURST_SZ <= RingCapacity).
StopEndsRun == quit_ /\ main = "joinProducer" ~> main = "destroyed"

\* A packet that was taken from the guest does not stay in the bridge: while
\* a guest is there and the program is not stopping, it is delivered or given
\* up after a bounded number of retries.
PacketLeaves ==
    \A k \in 1..MaxPkts :
      (\E i \in 1..Len(Flight) : data[Flight[i]] = k)
        ~> \/ ~ \E i \in 1..Len(Flight) : data[Flight[i]] = k
           \/ ~ ready_ \/ quit_

-----------------------------------------------------------------------------
(***************************************************************************)
(* The controller implements the pipe.                                     *)
(***************************************************************************)
Pipe == INSTANCE PacketPipe
            WITH BurstSize <- PKT_BURST_SZ, accepted <- taken,
                 queue <- Packets(Flight), delivered <- delivered

\* The two threads, their bursts and the ring together are one FIFO pipe that
\* loses packets only from its head.
ImplementsPipe == Pipe!PipeSpec

-----------------------------------------------------------------------------
(***************************************************************************)
(* What comments of the source say and the code does not do.               *)
(***************************************************************************)

\* vhost_controller.h: "Both paths are lossless - they retry with backpressure
\* rather than dropping."
Lossless == ~ quit_ => dropped = 0

\* vhost_controller.cpp: "Drain any remaining mbufs in the ring so they are not
\* leaked": nothing is left in the ring when run() returns.
DrainedOnReturn == main = "returned" => ring = <<>>
=============================================================================
