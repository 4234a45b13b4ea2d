---------------------------- MODULE VhostBackend ----------------------------
(***************************************************************************)
(* The stand-alone vhost-user back end of code_dump/bkend/bkend.c.  The    *)
(* server thread (process_vh_msgs) takes one message at a time off the     *)
(* socket and handles it (process_vhost_msg).  Enabling the transmit queue *)
(* starts a dequeue thread, which takes descriptor chains off the          *)
(* available ring and returns them on the used ring while the guest's      *)
(* driver posts and reclaims them.                                         *)
(*                                                                         *)
(* Ring indices are 16-bit counters (IdxMod stands for 2^16) that are      *)
(* reduced modulo the queue size to address a ring.  A chain is its head   *)
(* descriptor together with the lengths of its descriptors.  Each queue    *)
(* has a size of its own; the dequeue thread works with that of queue 0.   *)
(***************************************************************************)
EXTENDS Integers, Sequences, FiniteSets

CONSTANTS
    Size,          \* the size of the transmit queue, a divisor of IdxMod
    RxSize,        \* the size of the receive queue
    IdxMod,        \* the range of a ring index
    MaxLen,        \* MAX_LEN, the size of the frame buffer
    Chains,        \* the descriptor lengths the driver uses, sequences of Nat
    Refused,       \* those with a descriptor that lies outside of the guest's
                   \* memory, or that the device is to write
    MaxStarts,     \* bound: times the peer starts the device
    MaxWorkers     \* bound: dequeue threads, for the size of the model

ASSUME BackendAssumption ==
    /\ Size \in Nat \ {0} /\ IdxMod \in Nat /\ IdxMod > Size /\ IdxMod % Size = 0
    /\ RxSize \in Nat \ {0}
    /\ MaxLen \in Nat /\ Chains \subseteq Seq(Nat) /\ Refused \subseteq Chains
    /\ MaxStarts \in Nat \ {0} /\ MaxWorkers \in Nat \ {0}

VARIABLES
    exited,        \* the process called exit() or failed an assertion
    \* the socket
    at,            \* the peer's place in its script
    starts,        \* how often the peer has started the device
    waiting,       \* the peer waits for a reply
    toPeer,        \* what the back end wrote
    \* struct backend
    features, hdrlen, nregions, vq, en2,
    \* the dequeue threads
    workers,       \* how many there are
    wk,            \* where each is, and its locals: head and used slot of the
                   \* chain in hand, queue size, whether the rings were mapped
    \* the transmit queue, in the guest's memory
    availRing, availIdx, availFlags, usedRing, usedIdx,
    chain,         \* the lengths of the chain that starts at a descriptor
    \* the guest's driver
    usedSeen, pending, unused

peerVars   == <<at, starts, waiting>>
deviceVars == <<features, hdrlen, nregions, vq, en2>>
workerVars == <<workers, wk>>
driverVars == <<usedSeen, pending, unused, chain>>
ringVars   == <<availRing, availIdx, availFlags, usedRing, usedIdx>>
vars == <<exited, peerVars, toPeer, deviceVars, workerVars, ringVars, driverVars>>

Queues == {0, 1}          \* 0 receives, 1 transmits
Tx     == 1
Descs  == 0..(Size - 1)
\* ++ on a uint16_t.
Inc(i) == (i + 1) % IdxMod

\* The requests of a peer that boots a guest, in the order they are sent.
Boot ==
    << [req |-> "GET_FEATURES"], [req |-> "GET_PROTOCOL_FEATURES"],
       [req |-> "SET_PROTOCOL_FEATURES"], [req |-> "SET_OWNER"],
       [req |-> "SET_VRING_CALL", q |-> 0], [req |-> "SET_VRING_CALL", q |-> 1],
       [req |-> "SET_VRING_ENABLE", q |-> 0, num |-> 1],
       [req |-> "SET_VRING_ENABLE", q |-> 1, num |-> 1] >>

\* Those with which it starts the device, once the driver has set up the rings.
StartUp ==
    << [req |-> "SET_FEATURES"], [req |-> "SET_MEM_TABLE"],
       [req |-> "SET_VRING_NUM", q |-> 0], [req |-> "SET_VRING_BASE", q |-> 0],
       [req |-> "SET_VRING_ADDR", q |-> 0], [req |-> "SET_VRING_KICK", q |-> 0],
       [req |-> "SET_VRING_CALL", q |-> 0],
       [req |-> "SET_VRING_NUM", q |-> 1], [req |-> "SET_VRING_BASE", q |-> 1],
       [req |-> "SET_VRING_ADDR", q |-> 1], [req |-> "SET_VRING_KICK", q |-> 1],
       [req |-> "SET_VRING_CALL", q |-> 1],
       [req |-> "SET_VRING_ENABLE", q |-> 0, num |-> 1],
       [req |-> "SET_VRING_ENABLE", q |-> 1, num |-> 1] >>

\* And those with which it stops it.
ShutDown ==
    << [req |-> "SET_VRING_ENABLE", q |-> 0, num |-> 0],
       [req |-> "SET_VRING_ENABLE", q |-> 1, num |-> 0],
       [req |-> "GET_VRING_BASE", q |-> 0], [req |-> "GET_VRING_BASE", q |-> 1] >>

Script == Boot \o StartUp \o ShutDown

StartAt == Len(Boot) + 1                \* the first request of StartUp
StopAt  == Len(Boot) + Len(StartUp) + 1 \* the first request of ShutDown

\* The device is started: the driver may use the rings.
Started == at = StopAt

-----------------------------------------------------------------------------
(***************************************************************************)
(* main(): the structure comes from malloc, reset() clears part of it.     *)
(* The rest is zero too: nothing was freed before, so the pages are fresh. *)
(***************************************************************************)
Init ==
    /\ exited = FALSE
    /\ at = 1 /\ starts = 0 /\ waiting = FALSE /\ toPeer = <<>>
    /\ features = {} /\ hdrlen = 0 /\ nregions = 0
    /\ vq = [q \in Queues |-> [size |-> 0, mapped |-> FALSE, last_avail_idx |-> 0,
                               last_used_idx |-> 0, call_fd |-> "stdin",
                               kick_fd |-> "stdin", enable |-> 0]]
    /\ en2 = [q \in Queues |-> 0]
    /\ workers = 0
    /\ wk = [w \in 1..MaxWorkers |-> [pc |-> "none", d |-> 0, u |-> 0,
                                      size |-> 0, rings |-> FALSE]]
    /\ availRing = [i \in Descs |-> 0] /\ availIdx = 0 /\ availFlags = {}
    /\ usedRing = [i \in Descs |-> 0] /\ usedIdx = 0
    /\ usedSeen = 0 /\ pending = <<>> /\ unused = Descs
    /\ chain = [d \in Descs |-> <<>>]

-----------------------------------------------------------------------------
(***************************************************************************)
(* The peer (external).  It sends its script, and waits for the answer to  *)
(* a request that has one.                                                 *)
(***************************************************************************)
Answered == {"GET_FEATURES", "GET_PROTOCOL_FEATURES", "GET_VRING_BASE"}

\* Request r is the next message on the socket: recvmsg and read return it.
\* The peer starts the device again only after it stopped it.
Arrives(r) ==
    /\ ~ exited /\ ~ waiting
    /\ at <= Len(Script) /\ Script[at].req = r
    /\ starts' = IF at = StartAt THEN starts + 1 ELSE starts
    /\ at' = at + 1
    /\ waiting' = (r \in Answered)

Receive(r) == Arrives(r) /\ UNCHANGED exited

\* send_vhost_reply, send_vhost_msg: an error of write() ends the process, and
\* then what the handler would still have done no longer matters.
Send(m) ==
    \/ toPeer' = Append(toPeer, m) /\ UNCHANGED exited
    \/ exited' = TRUE /\ UNCHANGED toPeer

\* The peer reads what the back end wrote; the answer lets it go on.  What a
\* peer that waits does with a message it did not ask for is not known: it
\* passes over it, or takes it for a failed request and goes on without the
\* answer, which then stays on the socket.
PeerRead ==
    /\ toPeer # <<>>
    /\ toPeer' = Tail(toPeer)
    /\ waiting' \in (IF Head(toPeer) \in Answered THEN {FALSE} ELSE {FALSE, waiting})
    /\ UNCHANGED <<exited, at, starts, deviceVars, workerVars, ringVars, driverVars>>

\* The guest has rebooted: its driver makes new rings, in the memory in which
\* the old ones were, and the script restarts.
DriverReset ==
    /\ at = Len(Script) + 1 /\ ~ waiting /\ starts < MaxStarts
    /\ at' = StartAt
    /\ availRing' = [i \in Descs |-> 0] /\ availIdx' = 0 /\ availFlags' = {}
    /\ usedRing' = [i \in Descs |-> 0] /\ usedIdx' = 0
    /\ usedSeen' = 0 /\ pending' = <<>> /\ unused' = Descs
    /\ UNCHANGED <<exited, starts, waiting, toPeer, deviceVars, workerVars, chain>>

-----------------------------------------------------------------------------
(***************************************************************************)
(* process_vhost_msg, one action per request.                              *)
(***************************************************************************)
GetFeatures ==
    /\ Arrives("GET_FEATURES")
    /\ Send("GET_FEATURES")
    /\ UNCHANGED <<deviceVars, workerVars, ringVars, driverVars>>

\* The header is 12 bytes long with either feature, 10 without.
SetFeatures ==
    /\ Receive("SET_FEATURES")
    /\ features' \in SUBSET {"VERSION_1", "MRG_RXBUF"}
    /\ hdrlen' = IF features' # {} THEN 12 ELSE 10
    /\ UNCHANGED <<toPeer, nregions, vq, en2, workerVars, ringVars, driverVars>>

\* mmap of a region may fail, which ends the process.
SetMemTable ==
    /\ Arrives("SET_MEM_TABLE")
    /\ nregions' = 1
    /\ exited' \in BOOLEAN
    /\ UNCHANGED <<toPeer, features, hdrlen, vq, en2,
                   workerVars, ringVars, driverVars>>

\* Each queue is told its own size.
Num(q) == IF q = Tx THEN Size ELSE RxSize

SetVringNum ==
    /\ Receive("SET_VRING_NUM")
    /\ vq' = [vq EXCEPT ![Script[at].q].size = Num(Script[at].q)]
    /\ UNCHANGED <<toPeer, features, hdrlen, nregions, en2, workerVars,
                   ringVars, driverVars>>

\* The index at which the peer wants the queue to go on.
SetVringBase ==
    /\ Receive("SET_VRING_BASE")
    /\ vq' = [vq EXCEPT ![Script[at].q].last_avail_idx = usedIdx]
    /\ UNCHANGED <<toPeer, features, hdrlen, nregions, en2, workerVars,
                   ringVars, driverVars>>

\* The addresses of the rings; the queue goes on where the used ring stands,
\* whatever SET_VRING_BASE said.  Nothing is ever used on the receive queue.
SetVringAddr ==
    /\ Receive("SET_VRING_ADDR")
    /\ LET q == Script[at].q
           u == IF q = Tx THEN usedIdx ELSE 0
       IN  vq' = [vq EXCEPT ![q].mapped = TRUE, ![q].last_used_idx = u,
                            ![q].last_avail_idx = u]
    /\ UNCHANGED <<toPeer, features, hdrlen, nregions, en2, workerVars,
                   ringVars, driverVars>>

\* The answer is last_avail_idx; both descriptors are closed.  The thread
\* that serves the queue is not told.
GetVringBase ==
    /\ Arrives("GET_VRING_BASE")
    /\ vq' = [vq EXCEPT ![Script[at].q].call_fd = "none", ![Script[at].q].kick_fd = "none"]
    /\ Send("GET_VRING_BASE")
    /\ UNCHANGED <<features, hdrlen, nregions, en2, workerVars, ringVars,
                   driverVars>>

\* The flag is set, the descriptor is forgotten.
SetVringKickForgets ==
    /\ Receive("SET_VRING_KICK")
    /\ availFlags' = IF Script[at].q = Tx THEN availFlags \cup {"NO_INTERRUPT"}
                                          ELSE availFlags
    /\ UNCHANGED <<toPeer, deviceVars, workerVars, availRing, availIdx, usedRing,
                   usedIdx, driverVars>>

\* The back end polls: it tells the driver not to kick.
SetVringKick ==
    /\ Receive("SET_VRING_KICK")
    /\ vq' = [vq EXCEPT ![Script[at].q].kick_fd = "peer"]
    /\ availFlags' = IF Script[at].q = Tx THEN availFlags \cup {"NO_INTERRUPT"}
                                          ELSE availFlags
    /\ UNCHANGED <<toPeer, features, hdrlen, nregions, en2, workerVars,
                   availRing, availIdx, usedRing, usedIdx, driverVars>>

\* A request that comes without a descriptor fails an assertion.
SetVringCall ==
    /\ Arrives("SET_VRING_CALL")
    /\ vq' = [vq EXCEPT ![Script[at].q].call_fd = "peer"]
    /\ exited' \in BOOLEAN
    /\ UNCHANGED <<toPeer, features, hdrlen, nregions, en2, workerVars,
                   ringVars, driverVars>>

GetProtocolFeatures ==
    /\ Arrives("GET_PROTOCOL_FEATURES")
    /\ Send("GET_PROTOCOL_FEATURES")
    /\ UNCHANGED <<deviceVars, workerVars, ringVars, driverVars>>

\* dequeue() copies the pointers to the rings of queue 1, and the size of queue
\* 0, when it begins.
Begun(t) == [t EXCEPT !.pc = "check", !.size = vq[0].size, !.rings = vq[Tx].mapped]

\* The thread is started by the first enable after which the queue starts.
SetVringEnableEarly ==
    /\ Arrives("SET_VRING_ENABLE")
    /\ LET q == Script[at].q IN
         /\ vq' = [vq EXCEPT ![q].enable = Script[at].num]
         /\ en2' = [en2 EXCEPT ![q] = @ + 1]
         /\ IF q = Tx /\ Script[at].num = 1
            THEN /\ workers < MaxWorkers
                 /\ workers' = workers + 1
                 /\ wk' = [wk EXCEPT ![workers + 1] = Begun(@)]
            ELSE UNCHANGED workerVars
    /\ Send("SET_VRING_CALL")
    /\ UNCHANGED <<features, hdrlen, nregions, ringVars, driverVars>>

\* Every enable is answered with a SET_VRING_CALL.  From its second enable on,
\* every enable of the transmit queue starts a dequeue thread; a disable counts
\* too and stops none.
SetVringEnable ==
    /\ Arrives("SET_VRING_ENABLE")
    /\ LET q == Script[at].q IN
         /\ vq' = [vq EXCEPT ![q].enable = Script[at].num]
         /\ en2' = [en2 EXCEPT ![q] = @ + 1]
         /\ IF Script[at].num = 1 /\ en2'[q] > 1 /\ q = Tx
            THEN /\ workers < MaxWorkers
                 /\ workers' = workers + 1
                 /\ wk' = [wk EXCEPT ![workers + 1] = Begun(@)]
            ELSE UNCHANGED workerVars
    /\ Send("SET_VRING_CALL")
    /\ UNCHANGED <<features, hdrlen, nregions, ringVars, driverVars>>

\* Requests that are received and not acted upon.
NotImplemented ==
    /\ Receive("SET_PROTOCOL_FEATURES") \/ Receive("SET_OWNER")
    /\ UNCHANGED <<toPeer, deviceVars, workerVars, ringVars, driverVars>>

\* The peer closes the socket before or within a message, or sends one that is
\* larger than the payload or shorter than it says: the process ends.
Disconnect ==
    /\ ~ exited /\ exited' = TRUE
    /\ UNCHANGED <<peerVars, toPeer, deviceVars, workerVars, ringVars, driverVars>>

Server == \/ GetFeatures \/ SetFeatures \/ SetMemTable \/ SetVringNum \/ SetVringBase
          \/ SetVringAddr \/ GetVringBase \/ SetVringKick \/ SetVringCall
          \/ GetProtocolFeatures \/ SetVringEnable \/ NotImplemented

-----------------------------------------------------------------------------
(***************************************************************************)
(* dequeue(), the thread w of the transmit queue.                          *)
(***************************************************************************)

\* The available index is not looked at.
WCheckSkipped(w) ==
    /\ ~ exited /\ wk[w].pc = "check"
    /\ wk' = [wk EXCEPT ![w].pc = "fetch"]
    /\ UNCHANGED <<exited, peerVars, toPeer, deviceVars, workers, ringVars, driverVars>>

\* Is there a chain?  If not the inner loop ends.  A thread that began before
\* the rings were mapped reads through a null pointer.
WCheck(w) ==
    /\ ~ exited /\ wk[w].pc = "check"
    /\ exited' = ~ wk[w].rings
    /\ wk' = [wk EXCEPT ![w].pc =
                IF vq[Tx].last_avail_idx = availIdx THEN "publish" ELSE "fetch"]
    /\ UNCHANGED <<peerVars, toPeer, deviceVars, workers, ringVars, driverVars>>

\* The length of the first k descriptors of a chain.
Total[c \in Seq(Nat), k \in Nat] == IF k = 0 THEN 0 ELSE Total[c, k - 1] + c[k]

\* The assertions on the chain's descriptors hold, the frame fits the buffer and
\* is not empty.
FrameOK(c) ==
    /\ nregions > 0 /\ c \notin Refused
    /\ \A k \in 1..Len(c) : Total[c, k] < MaxLen
    /\ Total[c, Len(c)] > 0

\* What a ring may hold at place i: beyond its end, anything.
Held(ring, i) == IF i \in Descs THEN {ring[i]} ELSE Descs

\* Take the head of the chain and copy it; a frame that is not as it should be
\* ends the process, and so does the remainder by a size that was never set.
WFetch(w) ==
    /\ ~ exited /\ wk[w].pc = "fetch"
    /\ IF wk[w].size = 0
       THEN exited' = TRUE /\ UNCHANGED wk
       ELSE \E d \in Held(availRing, vq[Tx].last_avail_idx % wk[w].size) :
              /\ wk' = [wk EXCEPT ![w].pc = "return", ![w].d = d,
                                  ![w].u = vq[Tx].last_used_idx % wk[w].size]
              /\ exited' = ~ FrameOK(chain[d])
    /\ UNCHANGED <<peerVars, toPeer, deviceVars, workers, ringVars, driverVars>>

\* The used ring is written at the index of the chain just taken.
WReturnAtAvail(w) ==
    /\ ~ exited /\ wk[w].pc = "return"
    /\ usedRing' = [usedRing EXCEPT ![(vq[Tx].last_avail_idx + 1) % Size] = wk[w].d]
    /\ vq' = [vq EXCEPT ![Tx].last_avail_idx = Inc(@), ![Tx].last_used_idx = Inc(@)]
    /\ wk' = [wk EXCEPT ![w].pc = "check"]
    /\ UNCHANGED <<exited, peerVars, toPeer, features, hdrlen, nregions, en2,
                   workers, availRing, availIdx, availFlags, usedIdx, driverVars>>

\* Both indices advance, but only as far as the queue is long.
WReturnModSize(w) ==
    /\ ~ exited /\ wk[w].pc = "return"
    /\ usedRing' = [usedRing EXCEPT ![wk[w].u] = wk[w].d]
    /\ vq' = [vq EXCEPT ![Tx].last_avail_idx = (@ + 1) % Size,
                        ![Tx].last_used_idx = (@ + 1) % Size]
    /\ wk' = [wk EXCEPT ![w].pc = "check"]
    /\ UNCHANGED <<exited, peerVars, toPeer, features, hdrlen, nregions, en2,
                   workers, availRing, availIdx, availFlags, usedIdx, driverVars>>

\* Put the head on the used ring and advance both indices.  (Two threads that
\* advance them at the same time are taken one after the other.)  An entry
\* beyond the end of the ring is written to other memory.
WReturn(w) ==
    /\ ~ exited /\ wk[w].pc = "return"
    /\ usedRing' = IF wk[w].u \in Descs THEN [usedRing EXCEPT ![wk[w].u] = wk[w].d]
                                        ELSE usedRing
    /\ vq' = [vq EXCEPT ![Tx].last_avail_idx = Inc(@), ![Tx].last_used_idx = Inc(@)]
    /\ wk' = [wk EXCEPT ![w].pc = "check"]
    /\ UNCHANGED <<exited, peerVars, toPeer, features, hdrlen, nregions, en2,
                   workers, availRing, availIdx, availFlags, usedIdx, driverVars>>

\* The index is not published when no chain is left.
WPublishSkipped(w) ==
    /\ ~ exited /\ wk[w].pc = "publish"
    /\ wk' = [wk EXCEPT ![w].pc = "check"]
    /\ UNCHANGED <<exited, peerVars, toPeer, deviceVars, workers, ringVars, driverVars>>

\* Once no chain is left the used index is published.
WPublish(w) ==
    /\ ~ exited /\ wk[w].pc = "publish"
    /\ usedIdx' = vq[Tx].last_used_idx
    /\ wk' = [wk EXCEPT ![w].pc = "check"]
    /\ UNCHANGED <<exited, peerVars, toPeer, deviceVars, workers, availRing,
                   availIdx, availFlags, usedRing, driverVars>>

Worker(w) == WCheck(w) \/ WFetch(w) \/ WReturn(w) \/ WPublish(w)

-----------------------------------------------------------------------------
(***************************************************************************)
(* The guest's driver (external): it posts a chain when it has an unused   *)
(* descriptor and takes back what the used ring returns.                   *)
(***************************************************************************)
Post(d, c) ==
    /\ Started /\ ~ exited /\ d \in unused
    /\ chain' = [chain EXCEPT ![d] = c]
    /\ availRing' = [availRing EXCEPT ![availIdx % Size] = d]
    /\ availIdx' = Inc(availIdx)
    /\ unused' = unused \ {d}
    /\ pending' = Append(pending, d)
    /\ UNCHANGED <<exited, peerVars, toPeer, deviceVars, workerVars, availFlags,
                   usedRing, usedIdx, usedSeen>>

Reclaim ==
    /\ Started /\ usedSeen # usedIdx /\ pending # <<>>
    /\ unused' = unused \cup {usedRing[usedSeen % Size]}
    /\ pending' = Tail(pending)
    /\ usedSeen' = Inc(usedSeen)
    /\ UNCHANGED <<exited, peerVars, toPeer, deviceVars, workerVars, ringVars, chain>>

\* Nothing happens once the process has ended.
Terminated == exited /\ UNCHANGED vars

\* One life of the guest.
Boots ==
    \/ Server \/ PeerRead \/ Disconnect \/ Terminated
    \/ \E w \in 1..MaxWorkers : Worker(w)
    \/ \E d \in Descs, c \in Chains : Post(d, c)
    \/ Reclaim

Next == Boots \/ DriverReset

Spec == Init /\ [][Next]_vars

\* A guest that does not reboot.  The threads of the back end and the peer's
\* reader run.  The driver need not post or reclaim, and the peer need not stop
\* the device.
FairSpec ==
    /\ Init /\ [][Boots]_vars
    /\ WF_vars(Server /\ at < StopAt) /\ WF_vars(PeerRead)
    /\ \A w \in 1..MaxWorkers : WF_vars(Worker(w))

-----------------------------------------------------------------------------
TypeOK ==
    /\ exited \in BOOLEAN /\ waiting \in BOOLEAN
    /\ at \in 1..(Len(Script) + 1) /\ starts \in 0..MaxStarts
    /\ hdrlen \in {0, 10, 12} /\ nregions \in 0..1
    /\ \A q \in Queues : /\ vq[q].last_avail_idx \in 0..(IdxMod - 1)
                         /\ vq[q].last_used_idx \in 0..(IdxMod - 1)
                         /\ vq[q].size \in {0, Num(q)} /\ en2[q] \in Nat
    /\ workers \in 0..MaxWorkers
    /\ \A w \in 1..MaxWorkers :
         wk[w].pc \in {"none", "check", "fetch", "return", "publish"} /\ wk[w].d \in Descs
    /\ availRing \in [Descs -> Descs] /\ usedRing \in [Descs -> Descs]
    /\ availIdx \in 0..(IdxMod - 1) /\ usedIdx \in 0..(IdxMod - 1)
    /\ usedSeen \in 0..(IdxMod - 1) /\ unused \subseteq Descs /\ pending \in Seq(Descs)

\* How far index a is ahead of index b.
Ahead(a, b) == (a - b) % IdxMod

\* The rule that the second enable starts the thread works for a peer that
\* boots a guest: the rings a thread copied the addresses of were mapped, the
\* size it copied was set, and there are regions to find its frames in.
WorkerHasRings ==
    ~ exited => \A w \in 1..workers : wk[w].rings /\ wk[w].size > 0 /\ nregions > 0

\* "process all available descriptors" (bkend.c): what the driver finds on the
\* used ring is what it posted, in order and once each, through any number of
\* index wrap-arounds.  It takes queues of the same size: the thread reduces
\* the indices of the transmit queue modulo the size of the receive queue.
UsedIsPosted ==
    LET n == Ahead(usedIdx, usedSeen)
    IN  /\ n <= Len(pending)
        /\ \A k \in 1..n : usedRing[(usedSeen + k - 1) % Size] = pending[k]

\* "no more descriptors to process" (bkend.c): the test that ends the inner
\* loop keeps the threads from going past the available index, once the device
\* is started.
NeverPastAvail ==
    workers > 0 /\ at >= StopAt => Ahead(availIdx, vq[Tx].last_avail_idx) <= Size

\* The descriptors the driver may reuse are never those the back end still
\* has to copy or to return.
NoReuseInFlight ==
    \A w \in 1..MaxWorkers :
      wk[w].pc = "return" => wk[w].d \notin unused

\* GET_VRING_BASE closes only descriptors that the peer has sent: call_fd and
\* kick_fd are zero before, which is the standard input of the process.
ClosesPeerFds ==
    [][\A q \in Queues :
         /\ vq'[q].call_fd = "none" => vq[q].call_fd # "stdin"
         /\ vq'[q].kick_fd = "none" => vq[q].kick_fd # "stdin"]_vars

-----------------------------------------------------------------------------
\* A posted chain comes back: the used index is published although it is
\* written only when the available ring is seen empty, since a driver whose
\* descriptors are all posted has to wait.
ChainReturned ==
    workers > 0 /\ pending # <<>> ~> usedIdx # usedSeen \/ exited
=============================================================================
