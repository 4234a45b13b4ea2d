---------------------------- MODULE RobustBackend ----------------------------
(***************************************************************************)
(* The single-threaded vhost back end of code_dump/dpdkVirtioDevice/       *)
(* backend.cpp: callbacks publish the device and the state of its queue 0  *)
(* in two atomics, the worker loop checks both and then loops packets from *)
(* queue 1 of the device back to its queue 0.  The mbufs are counted.      *)
(***************************************************************************)
EXTENDS Integers, FiniteSets

CONSTANTS
    MEMPOOL_SIZE,  \* mbufs
    BURST_SIZE,
    Vids,          \* device ids
    MaxConns       \* bound: times a guest connects

ASSUME RobustAssumption ==
    /\ MEMPOOL_SIZE \in Nat /\ BURST_SIZE \in Nat \ {0}
    /\ Vids \subseteq Nat /\ MaxConns \in Nat

VARIABLES
    proc,          \* where the main thread is
    active_vid, vring_ready, force_quit,
    cb,            \* a destroy_device callback between its two stores
    enabled,       \* for each connected guest, the queues it has enabled
    running,       \* the guests that new_device announced
    conns,
    vid,           \* the local of worker_loop
    n_rx,          \* packets in pkts[]
    mbuf_pool, leaked   \* mbufs that are free, and that nobody can free

deviceVars == <<active_vid, vring_ready, cb, enabled, running, conns>>
workerVars == <<vid, n_rx, mbuf_pool, leaked>>
robVars == <<proc, force_quit, deviceVars, workerVars>>

NoVid  == -1
Queues == {0, 1}
Live   == DOMAIN enabled

RobInit ==
    /\ proc = "construct"
    /\ active_vid = NoVid /\ vring_ready = FALSE /\ force_quit = FALSE
    /\ cb = NoVid /\ enabled = [v \in {} |-> {}] /\ running = {} /\ conns = 0
    /\ vid = NoVid /\ n_rx = 0 /\ mbuf_pool = MEMPOOL_SIZE /\ leaked = 0

\* The constructor throws before there is anything to destroy.
Construct ==
    /\ proc = "construct"
    /\ proc' \in {"run", "ended"}
    /\ UNCHANGED <<force_quit, deviceVars, workerVars>>

\* run(): register, start, enter worker_loop; a failure unwinds the object.
Run ==
    /\ proc = "run"
    /\ proc' \in {"quit", "destroy"}
    /\ UNCHANGED <<force_quit, deviceVars, workerVars>>

\* The destructor unregisters the socket: the library takes the guests down.
Destroy ==
    /\ proc = "destroy" /\ Live = {} /\ cb = NoVid
    /\ proc' = "ended"
    /\ UNCHANGED <<force_quit, deviceVars, workerVars>>

\* SIGINT.
SignalHandler ==
    /\ proc # "ended"
    /\ force_quit' = TRUE
    /\ UNCHANGED <<proc, deviceVars, workerVars>>

-----------------------------------------------------------------------------
(***************************************************************************)
(* The guests and the callbacks, all on the event thread of the library.   *)
(* It reports the queues of a guest that is connected whether or not it    *)
(* has announced the guest with new_device, and calls destroy_device only  *)
(* for a guest it has announced.                                           *)
(***************************************************************************)
Listening == proc \in {"quit", "vid", "sentry", "dequeue", "enqueue"}

\* A guest connects to the socket: no callback yet.
Connect(v) ==
    /\ Listening /\ cb = NoVid /\ v \notin Live /\ conns < MaxConns
    /\ enabled' = [u \in Live \cup {v} |-> IF u = v THEN {} ELSE enabled[u]]
    /\ conns' = conns + 1
    /\ UNCHANGED <<proc, force_quit, active_vid, vring_ready, cb, running, workerVars>>

NewDevice(v) ==
    /\ Listening /\ cb = NoVid /\ v \in Live \ running
    /\ active_vid' = v
    /\ running' = running \cup {v}
    /\ UNCHANGED <<proc, force_quit, vring_ready, cb, enabled, conns, workerVars>>

\* Only queue 0 counts, of whichever guest.
RobVringStateChanged(v, q) ==
    /\ cb = NoVid /\ v \in Live
    /\ enabled' = [enabled EXCEPT ![v] = IF q \in @ THEN @ \ {q} ELSE @ \cup {q}]
    /\ vring_ready' = IF q = 0 THEN q \notin enabled[v] ELSE vring_ready
    /\ UNCHANGED <<proc, force_quit, active_vid, cb, running, conns, workerVars>>

\* A guest that was not announced goes, and no callback says so.
Leave(v) ==
    /\ cb = NoVid /\ v \in Live \ running
    /\ enabled' = [u \in Live \ {v} |-> enabled[u]]
    /\ UNCHANGED <<proc, force_quit, active_vid, vring_ready, cb, running, conns, workerVars>>

\* destroy_device, first store.
DestroyDevice(v) ==
    /\ cb = NoVid /\ v \in running
    /\ active_vid' = NoVid
    /\ cb' = v
    /\ UNCHANGED <<proc, force_quit, vring_ready, enabled, running, conns, workerVars>>

\* Its second store.  The guest has stopped its device and stays connected, or
\* it goes (Leave).
DestroyDeviceReady ==
    /\ cb # NoVid
    /\ vring_ready' = FALSE
    /\ running' = running \ {cb}
    /\ cb' = NoVid
    /\ UNCHANGED <<proc, force_quit, active_vid, enabled, conns, workerVars>>

-----------------------------------------------------------------------------
(***************************************************************************)
(* worker_loop.                                                            *)
(***************************************************************************)
\* The loop does not look at force_quit.
WQuitIgnored ==
    /\ proc = "quit"
    /\ proc' = "vid"
    /\ UNCHANGED <<force_quit, deviceVars, workerVars>>

WQuit ==
    /\ proc = "quit"
    /\ proc' = IF force_quit THEN "destroy" ELSE "vid"
    /\ UNCHANGED <<force_quit, deviceVars, workerVars>>

WVid ==
    /\ proc = "vid"
    /\ vid' = active_vid /\ proc' = "sentry"
    /\ UNCHANGED <<force_quit, deviceVars, n_rx, mbuf_pool, leaked>>

WSentry ==
    /\ proc = "sentry"
    /\ proc' = IF vid < 0 \/ ~ vring_ready THEN "quit" ELSE "dequeue"
    /\ UNCHANGED <<force_quit, deviceVars, workerVars>>

\* rte_vhost_dequeue_burst: nothing for a vid the library does not know, for an
\* idle guest, for a queue that is not enabled and without free mbufs.
WDequeue ==
    /\ proc = "dequeue"
    /\ \E n \in 0..BURST_SIZE :
         /\ n <= mbuf_pool /\ (n > 0 => vid \in Live /\ 1 \in enabled[vid])
         /\ n_rx' = n /\ mbuf_pool' = mbuf_pool - n
         /\ proc' = IF n = 0 THEN "quit" ELSE "enqueue"
    /\ UNCHANGED <<force_quit, deviceVars, vid, leaked>>

\* rte_vhost_enqueue_burst copies n packets to the guest; the mbufs of the
\* others are freed.
WEnqueue ==
    /\ proc = "enqueue"
    /\ \E n_tx \in 0..n_rx :
         /\ n_tx > 0 => vid \in Live /\ 0 \in enabled[vid]
         /\ mbuf_pool' = mbuf_pool + (n_rx - n_tx)
         /\ leaked' = leaked + n_tx
    /\ n_rx' = 0 /\ proc' = "quit"
    /\ UNCHANGED <<force_quit, deviceVars, vid>>

Main   == Construct \/ Run \/ Destroy
Worker == WQuit \/ WVid \/ WSentry \/ WDequeue \/ WEnqueue

Ended == proc = "ended" /\ UNCHANGED robVars

RobNext ==
    \/ Main \/ SignalHandler \/ Ended
    \/ \E v \in Vids : Connect(v) \/ NewDevice(v) \/ DestroyDevice(v) \/ Leave(v)
    \/ \E v \in Vids, q \in Queues : RobVringStateChanged(v, q)
    \/ DestroyDeviceReady
    \/ Worker

RobSpec == RobInit /\ [][RobNext]_robVars

\* Taking the guests down is part of the destructor's unregister.
TakeDown == proc = "destroy" /\ \E v \in Vids : DestroyDevice(v) \/ Leave(v)

-----------------------------------------------------------------------------
TypeOK ==
    /\ proc \in {"construct", "run", "quit", "vid", "sentry", "dequeue", "enqueue",
                 "destroy", "ended"}
    /\ {active_vid, vid, cb} \subseteq Vids \cup {NoVid}
    /\ vring_ready \in BOOLEAN /\ force_quit \in BOOLEAN
    /\ running \subseteq Live
    /\ Live \subseteq Vids /\ \A v \in Live : enabled[v] \subseteq Queues
    /\ mbuf_pool \in 0..MEMPOOL_SIZE /\ leaked \in 0..MEMPOOL_SIZE /\ n_rx \in 0..BURST_SIZE

\* SIGINT ends the program, also when it comes before the loop or while a
\* burst is in the worker's hands.
QuitEnds == force_quit ~> proc = "ended"
=============================================================================
