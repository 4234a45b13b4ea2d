# A TLA+ verification of the Virtual Tester Bridge and its prototypes

The repository holds the *Virtual Tester Bridge* (`vtb/`), a DPDK vhost-user
bridge in C++, and `code_dump/`, the prototypes it grew out of: a vhost-user
back end written without DPDK, loopback and back-to-back programs on DPDK's
vhost library, socket servers, packet tools and a VM launcher. This directory
models the parts with logic of their own, checks them with TLC on small
instances, and proves the main results with TLAPS for every size.

## 1. Inventory

| Component | State | Operations | Talks to | What is hard | What makes it correct |
|---|---|---|---|---|---|
| `VhostController` (vtb) | the owner's progress, `quit_`, `ready_`, `vid_`, mbuf pool, `rte_ring`, two batches, statistics | constructor, `init`, `start`, `run`, `stop`, destructor, producer and consumer loop, `on_new_device`, `on_destroy_device` | vhost event thread (callbacks), guests (virtqueues), owner | four threads; partial enqueues on both sides; stop against bursts in hand; calls that throw half-way | no mbuf lost or freed twice, FIFO order, exact statistics, `ready_` implies a known device, safe teardown, `stop()` ends `run()` |
| `Logger`, `Messenger` (vtb) | level, file, running flag, buffer | `init`, `~LogStream`, `log`, `flushLoop`, destructor | every thread; standard output and file | appends against the swap, the destructor against the final drain | the output is the beginning of what was logged; nothing logged before the destructor is lost |
| `CmdlineParser`, `ConfigManager` (vtb) | arguments, typed database, port map | `init`/`parse`, `getArg`, `setValue`/`getValue`, `init_vhost_device`, `set_queue_state`, `assign_port_socket`, `assign_control_path` | `main` | look-ahead over tokens; a device set up again with other sizes | the loop means what the options say; nothing of an earlier device shows through |
| `PortController` and derived, `PortHandler` (vtb) | running flag, worker thread | construction, destruction | - | virtual call from a thread during construction and destruction | not modelled yet |
| vhost-user back end (`bkend.c`) | features, header length, memory table, two queues, enable counters, dequeue threads | `process_vhost_msg`, one case per request; `dequeue` | the peer (QEMU) on a socket, the guest's driver in shared memory | 16-bit ring indices, threads started by a count of enables, stop and restart | the used ring returns what was posted, in order and once; rings exist before a thread uses them; only the peer's descriptors are closed |
| memory table (`bkend.c`) | regions | `SET_MEM_TABLE`, `qva_to_va`, `gpa_to_va` | server and dequeue thread | region edges, file offsets, a table overwritten in place while a thread translates | translations by a complete table stay in their mapping, agree and are injective |
| lcore loopback and back-to-back programs | `g_vid`, `ready`, ring, pool | `main`, callbacks, two lcore loops | vhost library, guests | stale copies of `g_vid`, full ring, two sockets and one `g_vid` | no mbuf lost, order, the bridge empties itself |
| `RobustBackend` (`dpdkVirtioDevice/backend.cpp`) | `active_vid`, `vring_ready`, `force_quit`, pool | constructor, `run`, `worker_loop`, callbacks, SIGINT, destructor | vhost library, guests | two atomics that describe no particular device | only mbufs the guest took are missing; SIGINT ends the program |
| back ends that stream to a FIFO (`vm_tap/bkend.c`, identical to `nonm/bkend.c`) | as `bkend.c`, and the FIFO and `fhdone` | as `bkend.c`; the file header before the first frame is returned | a reader of the FIFO | a test and a set by two threads; a FIFO without reader | one header, rings and descriptors as above |
| enqueue thread (`bkend.c`, its start is commented out) | ring indices, the buffers collected | collect, fill, publish, kick | the guest's driver | publication of parts of a frame; entries not yet posted; buffers too short | the guest puts whole frames together |
| socket servers and clients (`epoll_sockets`, `abstract_epoll_sockets`, `abstract_epoll_sockets_ints`, `abstract_sockets`, `veth_bridge`) | listening socket, descriptors, pending events | `epoll_wait`, accept, read, close; connect, write, close | one another, over byte streams | partial reads, several clients in one blocking loop, reuse of descriptors | what is printed is what was sent; every client is served |
| relays (`vb.c`, `nc-vsock.c`) | two ends, the rest of a read | open, select, copy, wait until writable, signal handler | two interfaces, or a terminal or TCP and vsock | partial writes, a full end, a closed peer, SIGINT between two calls | every byte once and in order; the program ends |
| VM launcher (`startvm.cpp`) | options, address table, counters | options, checks, one start per machine | QEMU | carries in the address table, two indices into it | machines share no address, display, port or CPU |
| receivers and front ends (`dpdk/main.c`, `tap.cpp`, `pmd*.cpp`, `frontend.cpp`, `old_frontend.cpp`, `virtio-user-frontend`) | ports, mbuf pool, queue states | set-up, receive, send, callbacks, SIGINT, close | DPDK ports, vhost library | what a full transmit ring does not take; a pool that runs dry | every mbuf is accounted for; packets are received |
| dissectors (`sniff.c`, `raw_eth_receive.c`, `rcv.c`, `read_tap_pcap.c`, `sniffex.c`) | receive buffer | receive, dissect, dump | raw sockets, libpcap | stale bytes behind short packets, lengths taken from headers, edges of the dump | exactly the payload is shown |

Copies: `nonm/bkend.c` = `vm_tap/bkend.c`; `sniffex.c` = `read_tap_pcap.c`; the
files under `dpdk/dpdkTapDevice` and `dpdk/dpdkVirtioDevice/backend.cpp` repeat
those one level up.

### Not modelled

- `PortController` and the classes derived from it, `PortHandler`: their event
  loops are still empty; the vtb `main` is a straight line of calls.
- `backpressure.cpp`: it clones and frees mbufs it has already handed to the
  port, so what it sends afterwards is whatever the pool has put there.
- Senders of one fixed frame and loops that print each packet's fields and keep
  nothing between packets (`send.c`, `raw_eth_send.c`, `recvRawEth.c`,
  `sniffer.c`, `sniff_pcap.c`, `read_tap.c`, `write_tap.c` and the like).
- Prints around single library calls (`rte_mbuf`), the stopwatch, scripts, notes.

## 2. Modules

| Module | Models | Proofs in |
|---|---|---|
| `VhostController` | `vtb/src/vhost_controller.cpp` | `VhostControllerProofs` |
| `PacketPipe` | what the controller promises: a FIFO pipe that loses only from its head | `PacketPipeProofs` |
| `Logger` | `vtb/src/logger.cpp`, `messenger.cpp` | `LoggerProofs` |
| `WriteBehind` | what the Logger promises: the output is a prefix of what was accepted | (`LoggerProofs` shows the refinement) |
| `ConfigManager` | `vtb/src/config_manager.cpp`, `cmdline_parser.cpp` | `ConfigManagerProofs` |
| `VhostBackend` | server and dequeue thread of `code_dump/bkend/bkend.c`, with QEMU and the driver as environment | `BackendProofs` |
| `VhostMemory` | the memory table of the same program | `ToolsProofs` |
| `LcoreLoopback` | `code_dump/dpdk_lbk_b2b/*/main.c` | `LcoreLoopbackProofs` |
| `RobustBackend` | `code_dump/dpdkVirtioDevice/backend.cpp` | `ToolsProofs` |
| `PcapBackend` | `code_dump/vm_tap/bkend.c`; extends `VhostBackend` | `BackendProofs` |
| `Enqueue` | the enqueue thread of `code_dump/bkend/bkend.c` and a guest | `ToolsProofs` |
| `SocketServers` | five stream-socket servers and their clients | `SocketsProofs` |
| `Relay` | `veth_bridge/vb.c`, `vhost_vsock/nc-vsock.c` | `SocketsProofs` |
| `Launcher` | `dpdk/lm/startvm.cpp` | `ToolsProofs` |
| `Receivers` | the small DPDK receivers and front ends | `ToolsProofs` |
| `Sniffer` | the dissectors and their payload dumps | `ToolsProofs` |

`MC*` modules and `*.cfg` files are the instances for TLC. Definitions whose
comment names a fault ("The available index is not looked at.", "Whatever was
read is taken for a Packet.") are variants of an action or helper; replacing the
original by the variant makes the property named in `PROJECT.json` fail, which
shows that the property depends on that line of code.

### State and actions

**VhostController.** `main` is where the thread that owns the object is;
`init()`, `start()` and `run()` choose how many of their steps succeed, and a
failed call goes to the destructor with what was built so far. `stop()` can come
at any time. Each worker loop is one action per access to shared state: read
`quit_`, read `ready_`, the burst call (which reads `vid_`), each turn of the
ring-enqueue loop, each guest enqueue, the end of the batch, each turn of the
drain. A callback is two actions, because `vid_` and `ready_` are two stores. A
packet is the number it got on entry, an mbuf an element of a set; `data` says
which packet an mbuf carries, so duplication and reordering show. The vhost
library is external: a burst on a `vid` it does not know yields nothing, and
`rte_vhost_driver_unregister` returns only when the devices are gone. The
constructor of a second object throws while the first is there and changes
nothing, so there is one object. `ReadyNamesDevice` is about the two stores of
each callback; the workers' test of `ready_` and use of `vid_` are separate
actions, and what keeps a stale `vid_` harmless is the library's own lookup.

**Logger.** The buffer is only touched under its mutex, so a critical section is
one action (its holder never waits, so no order of locks can block; `DestroyEnds`
is about the flag, the wake-up and the join); the two writes of a chunk are
separate. `main()` calls `init()` before anything else, so a Logger that was
never initialised does not occur. `accepted` and `due` are history variables for
the properties.

**ConfigManager.** The loop of `parse()` is a recursive function `turn` over the
state (index, arguments, thrown); `InitConfig` is `init()`. Every operation of
the port map is an action that may be called in any order, since nothing in the
repository calls them yet. The code compares neither the number of queue pairs
nor a negative index with the size of its arrays: such a call leads to
`"overrun"`, after which nothing is said. `init_vhost_device` leaves the control
path as it is, so `PortmapFollowsCalls` asks that it is the one last given to the
port, by whichever device. `asked`, `given` and `control` are history.

**VhostBackend.** One action per request; the peer sends the script of a QEMU
that boots a guest, starts the device, stops it and possibly starts it again,
and waits for answers. What a waiting peer makes of the `SET_VRING_CALL` that
every enable sends back is not known: it passes over it, or goes on without its
answer. A failing `write`, a message that is too big, a failed assertion and a
closed socket end the process. Each queue has its own size; the thread of the
transmit queue works with that of the receive queue, as the code does, and reads
anything beyond the end of a ring. The script never sends `GET_VRING_BASE` before
the descriptors it closes: that, and nothing in the code, is what `ClosesPeerFds`
rests on. `dequeue` is split where it reads or writes what the
driver or another thread sees: the test of the available index, the fetch, the
return, the publication of the used index. `IdxMod` stands for 2^16.

**VhostMemory.** Every table of up to `MaxRegions` regions that do not overlap,
written as the handler writes it: the count at once, then for each region what
the message says and, after `mmap`, where it is; a failing `mmap` ends the
process. The kernel places mappings where nothing is mapped. `TranslationSound`
is about complete tables. In between nothing holds, see the observations.

**LcoreLoopback.** As the controller, at the grain of its shared variables. The
first socket serves while the second is still being registered.

**RobustBackend.** Likewise, with mbufs counted. A guest is connected before it
is announced with `new_device`, and after `destroy_device`, which only announced
guests get; its queues are reported at any time while it is connected.

**PcapBackend.** The requests are `VhostBackend`'s actions; a dequeue thread has
three more steps between the fetch of a frame and its return: the frame itself,
the test of `fhdone`, and the write that sets it. The reader of the FIFO may be
missing from the start or go at any time (a write then ends the process).

**Enqueue.** One action per round of each loop: start a round, collect a
descriptor, fill and publish a buffer, kick. The guest posts and reaps between
any two, one buffer at a time. Chains, read-only buffers and buffers shorter than
the metadata are among those it posts; for the last the unsigned difference of
bkend.c:757 wraps and all the rest of the frame is written. `short` records that
the thread used an entry that was not posted, `spilled` that it wrote past the
end of a buffer; `FramesWhole` holds until one of the two has happened, since the
code prevents neither.

**SocketServers.** One behaviour runs one of the servers with all its clients.
An event list is what `epoll_wait` returned; each event is one action, so
clients write, close and connect between two of them. A connection is a
sequence of bytes, which a read cuts where it likes. The client of `veth_bridge`
waits for its user, who may also end the input: then it writes nothing, and
client and server wait for each other for ever. The client of the integers
writes one Packet, or a part of it.

**Relay.** The ends are sequences still to be read; an end has room for
`Capacity` bytes until it takes them. A `write` takes any part of what fits.
SIGINT may come between any two calls of `vb`. Nothing in `OpenSocket` is
checked: a socket that did not open is -1, for which `FD_SET` is undefined (the
build aborts, or `select` does not see it), and with none at all `select` waits
for a signal only, for ever if the signal came before; a socket whose `bind`
failed receives from every interface and sends to none, so `Input` is what the
socket delivers.

**Launcher.** Options are chosen together, since only their values at the end of
the loop matter, except that the base of the port addresses is set from
`-num_lm`; `-help` and unknown options end the program; each machine is one
action. The program never compares its indices with the size of the table, and
`NothingShared` claims nothing of addresses beyond its end.

**Receivers.** One behaviour runs one of seven programs; mbufs are counted in
the pool, in the program's hands, in the transmit ring, and as lost. `dpdk/main.c`
indexes an array of one port with the vid: a second vid is an undefined store
(`OtherVid`), after which nothing is said.

**Sniffer.** A packet is a sequence of cells, each of which says what it would
mean as a header; the buffer keeps its old cells behind a shorter packet. The
length an IP header claims is any number: libpcap's filter is not installed and
the program does not compare the claim with what was captured. The
dumps are modelled as the offsets each line prints, in hex and in ASCII.

**MCVtbServices, MCPrograms, MCTools.** Independent parts or programs that share
one TLC run: each behaviour runs one of them and leaves the others where they
begin (`service`, `program` and `tool` say which), and only that one can take
the steps fairness asks for.

## 3. Runs

| Run | Shows | Instance |
|---|---|---|
| `controller_safety` | `MbufConservation`, `Accounting`, `ReadyNamesDevice`, `TeardownSafe`, `LeakBound`, and the refinement `ImplementsPipe` | 4 mbufs (interchangeable: symmetry), bursts of 2, ring of 3, 2 retries, 2 device ids, 4 packets, 2 connections |
| `controller_liveness` | `StopEndsRun`, `PacketLeaves` | 3 mbufs, bursts and ring of 2, so that the producer meets a full ring with a packet in hand; a guest that leaves and comes back |
| `controller_lossless` (violation) | "Both paths are lossless" is not what the consumer does | as the first |
| `controller_drained` (violation) | mbufs can be left in the ring after the drain | as the first |
| `backend_queue` | `UsedIsPosted`, `NeverPastAvail`, `NoReuseInFlight`, `ChainReturned` | queue of 2, indices modulo 4 so that they wrap, frames just short enough and a byte too long |
| `backend_restart` | `WorkerHasRings`, `ClosesPeerFds` through a stop and a second start of the back end with the FIFO | queue of 1, two starts, a reader that may be missing or go |
| `backend_twice` (violation) | a thread of the first start passes the available index of the second | queue of 2, two starts |
| `backend_sizes` (violation) | queues of two sizes: the used ring does not give back what was posted | transmit queue of 2, receive queue of 1 |
| `pcap_header` (violation) | two threads each write the file header | as `backend_restart` |
| `vtb_services` | `FileFollows`, `DrainComplete`, `Shown`, `DestroyEnds` and the refinement `ImplementsLog` of the Logger; `ParseCorrect`, `PortmapFollowsCalls` of the ConfigManager | two writers, three messages; all command lines of up to 4 tokens over 5 flags and 2 words (one of them empty), 4 calls, 2 queue pairs |
| `programs` | `StreamsIntact`, `ClientsServed` of the servers; `RelayInOrder`, `RelayEnds`, `StartsConnected` of the relays; `NoMbufLeak`, `InOrderOrDropped`, `Empties` of the two-lcore loopback | two clients and a backlog of one, reads of 3 bytes for messages of 2 so that reads join and split writes, event lists of two; ends with room for one byte and reads of two; 3 mbufs, ring and burst of 2, two sockets |
| `tools` | `NothingShared` (launcher), `FramesWhole` (enqueue), `MbufsBalanced` and `PacketsReceived` (receivers), `PayloadShown` (dissectors), `TranslationSound` (memory table), `QuitEnds` (`RobustBackend`) | see below |

**Bounds.** `MaxPkts`, `MaxConns`, `MaxMsgs`, `MaxStarts`, `MaxTables`,
`MaxArgs` and `MaxCalls` only limit what the environment does. Sizes are chosen
so that each limit is met: the ring (3) is no multiple of the burst (2), so
partial ring enqueues happen; four packets with four mbufs let a burst be in
each worker's hands and one in the ring; two retries tell a first, a middle and
a last attempt apart; two connections let a guest leave and another come while
packets are under way. A queue of two with four index values wraps several
times; two starts are what it takes to get a second dequeue thread. Four tokens
are what it takes to give an argument an empty value and then name it again
without one; four calls to set a device up, change it, shrink it and grow it.
In `tools`: bytes of one bit and a table of 8 addresses make every carry of the
address table happen; a ring of 3 for rounds of 2 buffers makes rounds wrap, and
buffers of 0, 1 and 2 cells cut the frame in every place and are also too short
for the metadata, and four posts give each buffer back to the thread; the pool of 6 is the
smallest the assumption allows and lets `dpdk/main.c` lose all of it; packets of
up to 5 cells over three kinds of cell put every header at every edge, with lines
of 2 bytes so that full, partial and several lines occur, and claimed lengths of
0 to 5 lie short of, at and behind the end; two tables of up to 2
regions, adjacent or apart, with and without a file offset; for `RobustBackend` a
pool of 3, bursts of 2, two ids and three connections.

**Fairness.** Weak fairness of each thread of the program: the operating system
runs a thread that can run, and the loops poll without blocking. The owner is
fair because `run()` and the destructor do not wait for anything but the joins
and the unregistration; the callback in progress is fair because the library's
event thread finishes it. Nothing is assumed of guests, of the peer's wish to
stop the device, of SIGINT or of a caller of `stop()` or of the Logger. In
`VhostBackend` the peer is assumed to read its socket and to go through its
start-up script, which QEMU does on its own. A socket server and its clients are
processes that go on when they can; the client of `veth_bridge` is not assumed to
go on while it waits for its user. A DPDK port sends what is in its ring. Nobody
is assumed to connect to a relay, to take what a relay wrote, to close, to send
SIGINT or to enable a queue: `ClientsServed` asks of `veth_bridge` only what
follows once the accepted client has sent a message, and `RelayEnds` excepts an
end that takes nothing for ever and a `vb` that has nothing to wait on.

**Deadlock** is checked except in `tools`, whose programs end, or wait for a
packet or a posted buffer that need not come; in `programs` it is checked of the
loopback, since servers and relays end or wait for a client.

### Findings

- `controller_drained`: the consumer ends its drain when it first sees the ring
  empty; a producer that holds a burst pushes it afterwards, and those mbufs are
  in the ring when `run()` returns. `LeakBound` (proved) limits this to one
  burst.
- `controller_lossless`: the header calls both paths lossless; the consumer
  gives a batch up after `MAX_ENQUEUE_RETRIES`.
- `backend_twice`: a dequeue thread is never stopped. One that holds a chain over
  the stop and the restart returns it when SET_VRING_ADDR has set the indices
  back, and steps over the available index of the new rings; from then on the
  test for equality lets both threads run on.
- `backend_sizes`: the dequeue thread takes the size of queue 0 for that of queue
  1. The launch line in `info/dpdk/dpdk_build.txt` gives them different sizes.
- `pcap_header`: the file header "should be done only once"; two threads can both
  find `fhdone` clear. In one life of the guest there is one (proved).

Observations that no run states as a property: `tx_bytes_` counts the bytes of
dropped packets too; the packets of a guest that left are delivered to the next;
in the lcore programs the departure of one of two guests clears `g_vid` for the
other; `RobustBackend` never frees the mbufs of packets the guest took (the model
counts them in `leaked`) and its sentry looks at queue 0 only, although it
dequeues from queue 1; `--help` next to a valid `--portmask` has no effect,
since its value stays "false", and `--portmask` without a value is accepted,
since its default is not empty; `init_vhost_device` sets `ready` before any
socket is assigned. `dpdk/main.c` never frees what it receives (`MbufsBalanced`
counts it as lost); `rcv.c` looks for an Ethernet header that its `SOCK_DGRAM`
socket does not deliver, so `PayloadShown` asks of it only that it stays inside
the packet; one part of a `Packet` that a client wrote is dropped by the server
of integers; the `SET_VRING_CALL` that the back end sends on every enable comes
on the socket on which the peer waits for replies.

Some lines of the repository say more than the models show, and no property
claims it. SET_MEM_TABLE overwrites the table under the dequeue thread, and for a
moment an address that is in the old and in the new table is in no region, where
`gpa_to_va` asserts that there is one (bkend.c:666), or in an old mapping. The
"SENTRY" of `RobustBackend` (backend.cpp:103) tests a flag that belongs to no
guest: that of one guest lets the worker serve another that is not negotiated,
and a guest that goes before it was announced leaves it set. One free descriptor
is enough for the enqueue thread to use three (bkend.c:696). The dump of the
libpcap program goes "past the end of the captured data" (read_tap_pcap.c:142)
when the IP header says so. In the loopback the branch for a "VM disconnected
while packets were in the ring" (loopback/main.c:106) is also taken with a
`g_vid` read before the guest came. The models contain all of these states;
`TranslationSound`, `FramesWhole` and `PayloadShown` say how far the promise goes.

## 4. Theorems

All are proved for every value of the constants that satisfies the named
assumption of each module: any finite pool, any burst no larger than the ring,
any retry limit, any ids, writers, clients, ports, regions and command lines.

| Theorem | States |
|---|---|
| `VhostControllerProofs!TypeCorrect` | `Spec => []TypeOK`, with the sizes of ring, batches and retry counter |
| `VhostControllerProofs!ReadyAlwaysNamesDevice` | `Spec => []ReadyNamesDevice` |
| `VhostControllerProofs!TeardownAlwaysSafe` | `Spec => []TeardownSafe` |
| `VhostControllerProofs!LeakAlwaysBounded` | `Spec => []LeakBound` |
| `VhostControllerProofs!MbufsConserved` | `Spec => []MbufConservation` |
| `VhostControllerProofs!AlwaysAccounted` | `Spec => []Accounting` |
| `VhostControllerProofs!ControllerImplementsPipe` | `Spec => ImplementsPipe` |
| `VhostControllerProofs!AlwaysDeliveredInOrder` | `Spec => []DeliveredInOrder` |
| `PacketPipeProofs!PipeKeepsOrder` | the abstract pipe keeps order and repeats nothing |
| `LoggerProofs!LoggerTypeCorrect` | `Spec => []TypeOK` |
| `LoggerProofs!FileFollowsOutput` | `Spec => []FileFollows` |
| `LoggerProofs!FinalDrain` | `Spec => []DrainComplete` |
| `LoggerProofs!LoggerImplementsLog` | `Spec => ImplementsLog` |
| `ConfigManagerProofs!ParseAlwaysCorrect` | `CfgSpec => []ParseCorrect`, on command lines of any length |
| `ConfigManagerProofs!PortmapAlwaysFollows` | `CfgSpec => []PortmapFollowsCalls` |
| `BackendProofs!RingsBeforeThreads`, `PcapRingsBeforeThreads` | `Spec => []WorkerHasRings`, and the same of `PSpec` |
| `BackendProofs!OnlyPeerFdsClosed`, `PcapOnlyPeerFdsClosed` | `Spec => ClosesPeerFds`, and the same of `PSpec` |
| `BackendProofs!HeaderAlwaysOnce` | `PSpec => []HeaderOnce` when `MaxStarts = 1` |
| `BackendProofs!UsedAlwaysPosted` | `FairSpec => []UsedIsPosted` when `RxSize = Size` |
| `BackendProofs!NeverEverPastAvail` | `FairSpec => []NeverPastAvail` when `RxSize = Size` |
| `BackendProofs!NeverReusedInFlight` | `FairSpec => []NoReuseInFlight` when `RxSize = Size` |
| `LcoreLoopbackProofs!LcoreTypeCorrect` | `Spec => []TypeOK` |
| `LcoreLoopbackProofs!NoMbufEverLeaks` | `Spec => []NoMbufLeak` |
| `LcoreLoopbackProofs!AlwaysInOrderOrDropped` | `Spec => []InOrderOrDropped` |
| `SocketsProofs!AlwaysStartsConnected` | `RelaySpec => []StartsConnected` |
| `SocketsProofs!RelayAlwaysInOrder` | `RelaySpec => []RelayInOrder` |
| `SocketsProofs!StreamsAlwaysIntact` | `SockSpec => []StreamsIntact` |
| `ToolsProofs!MbufsAlwaysBalanced` | `RecvSpec => []MbufsBalanced` |
| `ToolsProofs!RobustMbufsCounted` | `RobSpec => []RobCounted`: only the mbufs of packets a guest took are missing |
| `ToolsProofs!TranslationAlwaysSound` | `MemSpec => []TranslationSound` |
| `ToolsProofs!NothingEverShared` | `LaunchSpec => []NothingShared` |
| `ToolsProofs!PayloadAlwaysShown` | `SniffSpec => []PayloadShown` |
| `ToolsProofs!FramesAlwaysWhole` | `EnqSpec => []FramesWhole` |

`FairSpec` of `VhostBackend` is the peer that boots a guest once, which is the
run `backend_queue`; with a second start or queues of two sizes the properties
of the rings fail, as `backend_twice` and `backend_sizes` show. `RelaySpec`, `SockSpec`, `RecvSpec`, `RobSpec`,
`MemSpec`, `LaunchSpec`, `SniffSpec` and `EnqSpec` are the specifications of one
program each, of which `MCPrograms` and `MCTools` run several side by side.

**Assumptions.** What the proofs asked for beyond the sizes: the words of a
command line name no argument (`NamesAssumption`: the names all start with '-',
which is what tells `Flags` from `Words`); the bytes a relay is given are
numbered in ascending order (`RelayAssumption`; the numbers are names the model
gives them, so that order can be read off); a client's message is not empty
(`ServersAssumption`); the ring size divides the range of the indices and is
smaller (`BackendAssumption`: powers of two below 2^16); the carries of
the address table stay clear of its first byte (`LauncherAssumption`; the
program's 1024 addresses are far below the 2 * 256 * 256 this allows); a header
is no longer than the buffer (`SnifferAssumption`: 60 bytes against 64 KiB).

**Arguments.** `ReadyNamesDevice` needs to know what the callback in progress
has already stored (`DeviceInv`): during `on_new_device` `vid_` is already
known, during `on_destroy_device` `ready_` is already down. `TeardownSafe` needs,
for each place of the owner, what exists there (`TeardownInv`): no thread before
`run()`, none after the joins, no device unless the driver is registered, and
the ring and `instance_` only given up last. `LeakBound` needs `QuitInv` (the
consumer drains only after `quit_`, which nobody takes back) and `DrainInv`: once
the consumer is gone, what is in the ring and what the producer still has to push
make at most one burst together, and a producer that can still take another
burst has left nothing in the ring. The data path of the
controller is an argument about sequences: the mbufs held and the mbufs in
flight are the concatenation of the consumer's batch, the ring and what the
producer has still to push, and each step moves a piece from one part to the
next, drops the first piece or adds one at the end. Two facts about control are
needed: a thread has mbufs in hand only inside the loop that gets rid of them
(`HandsEmpty`, which rests on `TeardownInv` because `run()` starts the threads),
and a burst is written into free mbufs, so that the packets in flight keep their
numbers (`MbufConservation`, used in the proof of the refinement). The order of
delivery then is a property of the pipe alone, whose queue is increasing and
behind everything delivered (`PipeInv`), and is carried over to the controller
by the refinement.
The Logger's results rest on `Kept` (every accepted message is shown, in hand or
in the buffer, in this order; from the final drain on the buffer no longer
counts), `Owed` (how far the final drain must go) and `Phases` (where the threads
are together).

*Rings.* The indices of `VhostBackend` wrap, so no invariant can order them.
`RingsInv` says that there are four numbers that do not wrap (chains reclaimed,
published, returned, posted: s <= u <= l <= a) whose remainders are the indices,
that the entries between s and a are the pending chains in this order, and that
the thread holds the entry at l. The posted chains fit the ring, so the
distance of two indices is that of their numbers; a few lemmas about remainders
(`ModPlus`, `ModDiff`, `ModSame`) carry this through each step. Control comes
first (`Control`): what a request leaves behind once the peer's script is past
it, which is how a thread, started by the second enable, finds its rings. The
file header is counted: threads that have passed the test of `fhdone` and headers
written are together no more than all threads (`HeaderInv`), which in one life of
the guest is one.

*Lcore programs, relays, servers.* As in the controller, what is held is a
concatenation of pieces that a step moves from one to the next. For the relays
the input of an end is what the other end got, the rest of the last read and
what is still to be read. For the epoll servers
what a client sent is what was shown of it and what waits in the socket
(`Text`; a Packet of integers waits, was shown or was cut short, `Packet`); that
data waits only where it will still be read needs `Links`: every connected client
is behind one descriptor or in the backlog once, and the events still to be
handled are of open descriptors.

*Translation.* `MemInv` follows the handler through the table: the regions before
the one it is at are as the message says, each mapped behind the one before and
nothing behind `top`. When the table is complete its regions are apart in all
three address spaces; agreement, completeness and injectivity follow.

*Launcher.* After i increments an address is known from i: `MacShape` gives the
last byte, how often it was carried and where the carry goes, and from this each
increment gives an address that comes later in the order of the bytes
(`TableOrdered`), so the table repeats nothing. `LaunchInv` knows of each machine
started which entries of the table and which CPUs it has, as the sums of the
ports before it (`Ports`); the machines have the first `num_lm` entries, the
ports those behind.

*Dumps.* Both dumps print the same lines (`Lines`): full ones and a last one that
is not empty. For `PrintData` the induction is over the bytes, with what is
printed and what is held back after each (`Dumped`); for `print_payload` over
lines, taking the first line off (`LinesCons`). `SniffInv` says that the buffer
starts with the packet that is to be shown, so that the headers found in the
buffer, behind which old bytes may lie, are those of the packet (`StartInBuffer`).

*Enqueue.* The indices never wrap here, and the frames of both sides start at
multiples of `NBufs`. As long as the thread has used no entry that was not posted
and written past no buffer, `EnqInv` says two things. Every descriptor is in one
place (`EnqPlaces`): the guest's, in a used entry not yet taken, among those
collected, in a posted entry, under the cursor, or the tail of the chain of one
of the last two; so there are fewer posted than entries when one more is posted,
and no entry is overwritten while it counts. And there is a function w, the place
in metadata and frame where each buffer's part ends (`EnqFrames`): a part starts
where the one before ends, or at 0 in the first buffer of a frame, its buffer
holds exactly this part, and its used entry has its length. A `Fill` extends w by
one place, whatever was posted or taken since the last one; a `Reap` adds the
part that meets what the guest has put together so far (`EnqPart`).

*Parser and port map.* `LoopInv` relates the state of the loop to the options
before the token it looks at: each of these is fine by itself, an argument was
found exactly if one of them names it and has the value of its last use with
one, no required argument was named without a value while empty, and a word that
comes next does not follow a flag; once the loop has thrown the options are bad.
Each turn moves on by one or two tokens, so the loop is through after as many
turns as there are tokens. The port map needs that the queues of a device are
numbered as `init_vhost_device` numbers them (`Numbered`), so that
`set_queue_state` finds the one pair that has the queue.

*Recursive functions.* That a recursive definition has a solution, and what it
computes, is shown by induction over the natural numbers; the library states
induction for operators, which the provers cannot instantiate, so it is derived
for sets from the well-foundedness of < (`NatSetInduction`, `CountingUp`). From
it follows once for all that a recursive function whose values stay within a
set exists (`RecursionExists`), which the address table, the sum of a frame's
room and the bytes of a dump instantiate.

**Only model-checked.** All liveness properties (`StopEndsRun`, `PacketLeaves`,
`ChainReturned`, `Empties`, `Shown`, `DestroyEnds`,
`ClientsServed`, `RelayEnds`, `PacketsReceived`, `QuitEnds`), since fairness and
ENABLED are outside the prover. Every invariant and action property of a passing
run, and both refinements, are theorems.

## 5. Plan

What is left to model is `PortController`, the worker thread against
construction and destruction of the derived object (which `epollWorker` runs),
and a composition of `main()` with Logger and ConfigManager, once the event loops
have a body.
