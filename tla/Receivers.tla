------------------------------ MODULE Receivers ------------------------------
(***************************************************************************)
(* The small DPDK programs of code_dump, one per behaviour:                *)
(*                                                                         *)
(*   vid          dpdk/main.c: receives with the vhost library             *)
(*   tap          dpdkTapDevice/tap.cpp: sends back what it receives       *)
(*   pmd          pmd/pmd.cpp and pmdtimer.cpp: count and free             *)
(*   frontend     dpdk/dpdkVirtioDevice/frontend.cpp: sends and receives   *)
(*   idle         dpdkVirtioDevice/frontend.cpp: sets up one port, waits   *)
(*   old_frontend, virtio_user: set up every port, wait, close every port  *)
(*                                                                         *)
(* An mbuf is in the pool, held by the program, in the port's transmit     *)
(* ring, or lost: no pointer to it is left.  Mbufs are only counted.       *)
(***************************************************************************)
EXTENDS Integers, FiniteSetsExt

CONSTANTS
    PoolSize, Burst, TxRing,   \* mbufs, mbufs of one burst, entries of the transmit ring
    NPorts,                    \* ports that RTE_ETH_FOREACH_DEV finds
    MaxWaiting                 \* bound on the packets that wait to be received

\* The pools of the front ends hold more than their ring and two bursts.
ASSUME ReceiversAssumption ==
    /\ {PoolSize, Burst, TxRing, NPorts, MaxWaiting} \subseteq Nat \ {0}
    /\ PoolSize >= TxRing + 2 * Burst

VARIABLES
    rprog, rpos,     \* the program; "setup", "run", "burst", "recv", "close", "exit", "crashed",
                     \* "overrun"
    port,            \* "down", "started", "closed"
    quit,            \* SIGINT has been handled
    pool, held, txring, lost, nulls,
    waiting,         \* packets that wait at the receive queue
    seen,            \* packets of the guest dequeued by vid
    rx_up, tx_up     \* vid: what vring_state_changed has reported

mbufs    == <<pool, held, txring, lost, nulls>>
guestUp  == <<rx_up, tx_up>>
recvVars == <<rprog, rpos, port, quit, mbufs, waiting, seen, guestUp>>

MultiPort == {"old_frontend", "virtio_user"}
Programs  == {"vid", "tap", "pmd", "frontend", "idle"} \cup MultiPort

RecvInit ==
    /\ rprog \in Programs /\ rpos = "setup" /\ port = [p \in 1..NPorts |-> "down"]
    /\ quit = FALSE /\ pool = PoolSize /\ held = 0 /\ txring = 0 /\ lost = 0 /\ nulls = 0
    /\ waiting = 0 /\ seen = 0 /\ rx_up = FALSE /\ tx_up = FALSE

-----------------------------------------------------------------------------
(***************************************************************************)
(* Set-up: the pool, then for each port configure, every queue, start.     *)
(***************************************************************************)
Running == rpos \in {"run", "burst", "recv"} /\ port[1] = "started"
GoOn    == rpos' = IF quit THEN "close" ELSE "run"

SetUp(p, next) ==
    /\ rpos = "setup" /\ port[p] = "down" /\ \A o \in 1..(p - 1) : port[o] = "started"
    /\ port' = next
    /\ UNCHANGED <<rprog, quit, mbufs, waiting, seen, guestUp>>
Started(p) == [port EXCEPT ![p] = "started"]

\* vid and tap do not look at what their last calls return: they go on with
\* a socket or a port that is not there.
SetupVid  == rprog = "vid" /\ SetUp(1, Started(1)) /\ rpos' = "run"
VidDeaf   == rprog = "vid" /\ SetUp(1, port) /\ rpos' = "run"
SetupTap  == rprog = "tap" /\ SetUp(1, Started(1)) /\ rpos' = "run"
TapDeaf   == rprog = "tap" /\ SetUp(1, port) /\ rpos' = "run"

SetupPmd      == rprog = "pmd" /\ SetUp(1, Started(1)) /\ GoOn
SetupFrontend == rprog = "frontend" /\ SetUp(1, Started(1)) /\ GoOn
SetupIdle     == rprog = "idle" /\ SetUp(1, Started(1)) /\ GoOn

\* Every port the EAL has found, in order.
SetupPort(p) ==
    /\ rprog = "old_frontend" /\ SetUp(p, Started(p))
    /\ IF p = NPorts THEN GoOn ELSE UNCHANGED rpos
SetupVirtioUser(p) ==
    /\ rprog = "virtio_user" /\ SetUp(p, Started(p))
    /\ rpos' = IF p = NPorts THEN "run" ELSE rpos

\* A call whose failure is noticed ends the program.
SetupFails ==
    /\ rpos = "setup" /\ rpos' = "exit"
    /\ UNCHANGED <<rprog, port, quit, mbufs, waiting, seen, guestUp>>

Setups ==
    \/ SetupVid \/ VidDeaf \/ SetupTap \/ TapDeaf \/ SetupPmd \/ SetupFrontend \/ SetupIdle
    \/ SetupFails \/ \E p \in 1..NPorts : SetupPort(p) \/ SetupVirtioUser(p)

\* SIGINT: vid unregisters its socket and exits in the handler, tap has none.
Sigint ==
    /\ rpos \notin {"exit", "crashed", "overrun"} /\ ~ quit /\ quit' = TRUE
    /\ rpos' = IF rprog \in {"vid", "tap"} THEN "exit" ELSE rpos
    /\ UNCHANGED <<rprog, port, mbufs, waiting, seen, guestUp>>

-----------------------------------------------------------------------------
(***************************************************************************)
(* dpdk/main.c.                                                            *)
(***************************************************************************)
DestroyVid ==
    /\ rprog = "vid" /\ Running /\ rx_up' = FALSE /\ tx_up' = FALSE
    /\ UNCHANGED <<rprog, rpos, port, quit, mbufs, waiting, seen>>

\* The guest's transmit queue is what the program receives from.
VringStateChanged ==
    /\ rprog = "vid" /\ Running
    /\ \E enable \in BOOLEAN :
         \/ rx_up' = enable /\ UNCHANGED tx_up
         \/ tx_up' = enable /\ UNCHANGED rx_up
    /\ UNCHANGED <<rprog, rpos, port, quit, mbufs, waiting, seen>>

\* The callbacks index ports[] with the vid: that of a second guest is behind
\* the MAX_PORTS = 1 entries.  The store hits nothing that matters, or nothing is
\* known of the program any more.
OtherVid ==
    /\ rprog = "vid" /\ Running /\ rpos' = "overrun"
    /\ UNCHANGED <<rprog, port, quit, mbufs, waiting, seen, guestUp>>

\* The queue that decides is the other one.
VidPollTxUp ==
    /\ rprog = "vid" /\ Running /\ tx_up /\ waiting > 0 /\ pool > 0
    /\ waiting' = waiting - 1 /\ seen' = seen + 1
    /\ pool' = pool - 1 /\ lost' = lost + 1
    /\ UNCHANGED <<rprog, rpos, port, quit, held, txring, nulls, guestUp>>

\* One packet, its length printed; the line that frees it is commented out.
VidPoll ==
    /\ rprog = "vid" /\ Running /\ rx_up /\ waiting > 0 /\ pool > 0
    /\ waiting' = waiting - 1 /\ seen' = seen + 1
    /\ pool' = pool - 1 /\ lost' = lost + 1
    /\ UNCHANGED <<rprog, rpos, port, quit, held, txring, nulls, guestUp>>

-----------------------------------------------------------------------------
(***************************************************************************)
(* The programs that poll a port.                                          *)
(***************************************************************************)
RxBurst(at, next) ==
    /\ Running /\ rpos = at /\ waiting > 0
    /\ held' = Min({waiting, pool, Burst})
    /\ pool' = pool - held' /\ waiting' = waiting - held' /\ rpos' = next
    /\ UNCHANGED <<rprog, port, quit, txring, lost, nulls, seen, guestUp>>

TapReceive == rprog = "tap" /\ RxBurst("run", "burst")
PmdReceive == rprog = "pmd" /\ RxBurst("run", "burst")

\* Those the port did not take are forgotten.
TapForwardKeeps ==
    /\ rprog = "tap" /\ rpos = "burst"
    /\ txring' = Min({TxRing, txring + held}) /\ lost' = lost + held - (txring' - txring)
    /\ held' = 0 /\ rpos' = "run"
    /\ UNCHANGED <<rprog, port, quit, pool, nulls, waiting, seen, guestUp>>

\* The port takes as many as its ring has room for; the others are freed.
TapForward ==
    /\ rprog = "tap" /\ rpos = "burst"
    /\ txring' = Min({TxRing, txring + held}) /\ pool' = pool + held - (txring' - txring)
    /\ held' = 0 /\ rpos' = "run"
    /\ UNCHANGED <<rprog, port, quit, lost, nulls, waiting, seen, guestUp>>

PmdFree ==
    /\ rprog = "pmd" /\ rpos = "burst" /\ pool' = pool + held /\ held' = 0 /\ GoOn
    /\ UNCHANGED <<rprog, port, quit, txring, lost, nulls, waiting, seen, guestUp>>

\* A wait is over, or a poll was empty, when the flag of the handler is set.
Idle ==
    /\ rpos = "run" /\ rprog \in {"idle"} \cup MultiPort /\ quit /\ rpos' = "close"
    /\ UNCHANGED <<rprog, port, quit, mbufs, waiting, seen, guestUp>>
PmdIdle ==
    /\ rpos = "run" /\ rprog = "pmd" /\ quit /\ rpos' = "close"
    /\ UNCHANGED <<rprog, port, quit, mbufs, waiting, seen, guestUp>>

\* The port sends from its ring and gives the mbufs back.
TxDone ==
    /\ txring > 0 /\ txring' = txring - 1 /\ pool' = pool + 1
    /\ UNCHANGED <<rprog, rpos, port, quit, held, lost, nulls, waiting, seen, guestUp>>

Arrive ==
    /\ Running /\ waiting < MaxWaiting /\ waiting' = waiting + 1
    /\ UNCHANGED <<rprog, rpos, port, quit, mbufs, seen, guestUp>>

-----------------------------------------------------------------------------
(***************************************************************************)
(* The front ends.                                                         *)
(***************************************************************************)
\* A burst of new mbufs; where there is none the entry is NULL and stays.
SendAlloc ==
    /\ rprog = "frontend" /\ Running /\ rpos = "run"
    /\ held' = Min({pool, Burst}) /\ pool' = pool - held' /\ nulls' = Burst - held'
    /\ rpos' = "burst"
    /\ UNCHANGED <<rprog, port, quit, txring, lost, waiting, seen, guestUp>>

\* The whole burst is handed over, and what is not sent freed; a port with
\* room for more than there are mbufs comes to a NULL.
SendBurst ==
    /\ rprog = "frontend" /\ rpos = "burst"
    /\ txring' = Min({TxRing, txring + held}) /\ pool' = pool + held - (txring' - txring)
    /\ rpos' = IF nulls > 0 /\ txring + held < TxRing THEN "crashed" ELSE "recv"
    /\ held' = 0 /\ nulls' = 0
    /\ UNCHANGED <<rprog, port, quit, lost, waiting, seen, guestUp>>

ReceiveBurst ==
    /\ rprog = "frontend" /\ rpos = "recv" /\ GoOn
    /\ waiting' = waiting - Min({waiting, pool, Burst})
    /\ UNCHANGED <<rprog, port, quit, mbufs, seen, guestUp>>

\* After its three seconds virtio_user closes without a signal.
WaitOver ==
    /\ rprog = "virtio_user" /\ rpos = "run" /\ rpos' = "close"
    /\ UNCHANGED <<rprog, port, quit, mbufs, waiting, seen, guestUp>>

\* Every port is stopped and closed before the program ends; the programs
\* with one port stop it, or leave that to the end of the process.
CloseAll ==
    /\ rpos = "close" /\ rpos' = "exit"
    /\ port' = [p \in 1..NPorts |-> IF rprog \in MultiPort THEN "closed"
                                    ELSE IF rprog = "pmd" THEN "down" ELSE port[p]]
    /\ UNCHANGED <<rprog, quit, mbufs, waiting, seen, guestUp>>

Work == VidPoll \/ TapReceive \/ TapForward \/ PmdReceive \/ PmdFree \/ PmdIdle
        \/ Idle \/ SendAlloc \/ SendBurst \/ ReceiveBurst \/ CloseAll
Callbacks == DestroyVid \/ VringStateChanged \/ OtherVid
RecvNext == Setups \/ Sigint \/ Callbacks \/ Work \/ WaitOver \/ TxDone \/ Arrive

RecvSpec == RecvInit /\ [][RecvNext]_recvVars

-----------------------------------------------------------------------------
\* Every mbuf is accounted for (until vid writes behind ports[]).  vid alone
\* loses mbufs, one for each packet it receives; the others give every mbuf back
\* whatever the port takes, so the front end never comes to hand the port a NULL.
MbufsBalanced ==
    /\ pool + held + txring + lost = PoolSize
    /\ lost = IF rprog = "vid" THEN seen ELSE 0
    /\ rpos # "crashed"

\* A packet that waits is received while its program runs: tap, pmd and the
\* front end never run out of mbufs for good, vid only when the guest's queue
\* is disabled or all of its mbufs are lost.
PacketsReceived ==
    rprog \in {"vid", "tap", "pmd", "frontend"} /\ waiting = MaxWaiting
      ~> waiting < MaxWaiting \/ ~ Running \/ (rprog = "vid" /\ (~ rx_up \/ lost = PoolSize))
=============================================================================
