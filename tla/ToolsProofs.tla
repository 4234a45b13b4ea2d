----------------------------- MODULE ToolsProofs -----------------------------
(***************************************************************************)
(* Theorems about the small programs: the receivers and front ends, the    *)
(* single-threaded back end, the memory table, the VM launcher, the packet *)
(* dissectors and the enqueue thread, for every value of their constants.  *)
(***************************************************************************)
EXTENDS Receivers, RobustBackend, VhostMemory, Launcher, Sniffer, Enqueue,
        WellFoundedInduction, FiniteSetTheorems, TLAPS

\* What the Min of the community modules is, for two and three numbers.
LEMMA Min2 ==
  ASSUME NEW a \in Int, NEW b \in Int
  PROVE  /\ Min({a, b}) \in Int /\ Min({a, b}) <= a /\ Min({a, b}) <= b
         /\ Min({a, b}) \in {a, b}
<1>1. \E x \in {a, b} : \A y \in {a, b} : x <= y OBVIOUS
<1> QED BY <1>1 DEF Min

LEMMA Min3 ==
  ASSUME NEW a \in Int, NEW b \in Int, NEW c \in Int
  PROVE  /\ Min({a, b, c}) \in Int /\ Min({a, b, c}) \in {a, b, c}
         /\ Min({a, b, c}) <= a /\ Min({a, b, c}) <= b /\ Min({a, b, c}) <= c
<1>1. \E x \in {a, b, c} : \A y \in {a, b, c} : x <= y
  <2>1. CASE a <= b /\ a <= c BY <2>1
  <2>2. CASE b <= a /\ b <= c BY <2>2
  <2>3. CASE c <= b /\ c <= a BY <2>3
  <2> QED BY <2>1, <2>2, <2>3
<1> QED BY <1>1 DEF Min

-----------------------------------------------------------------------------
(***************************************************************************)
(* Receivers.                                                              *)
(***************************************************************************)
\* The counters and the place they are read at.
RecvTypeOK ==
  /\ pool \in Nat /\ held \in Nat /\ txring \in Nat /\ lost \in Nat /\ nulls \in Nat
  /\ waiting \in Nat /\ seen \in Nat
  /\ rpos \in {"setup", "run", "burst", "recv", "close", "exit", "crashed",
              "overrun"}

\* A burst is in hand only between the calls that fill and empty it, the ring
\* has TxRing entries, and no entry of a burst is NULL: a pool that holds more
\* than the ring and two bursts has a burst left whatever the port keeps.
RecvInv ==
  /\ RecvTypeOK /\ MbufsBalanced
  /\ rpos \in {"setup", "run", "recv", "close"} => held = 0
  /\ held <= Burst /\ txring <= TxRing /\ nulls = 0

LEMMA RecvConstants ==
  /\ PoolSize \in Nat /\ Burst \in Nat /\ TxRing \in Nat /\ Burst > 0
  /\ PoolSize >= TxRing + Burst + Burst
BY ReceiversAssumption

\* What the port takes of a burst.
LEMMA PortTakes ==
  ASSUME RecvInv
  PROVE  LET t == Min({TxRing, txring + held})
         IN  t \in Nat /\ t <= TxRing /\ t <= txring + held /\ t >= txring
<1>1. TxRing \in Int /\ txring + held \in Int BY RecvConstants DEF RecvInv, RecvTypeOK
<1>2. /\ Min({TxRing, txring + held}) \in Int
      /\ Min({TxRing, txring + held}) <= TxRing /\ Min({TxRing, txring + held}) <= txring + held
      /\ Min({TxRing, txring + held}) \in {TxRing, txring + held}
  BY ONLY <1>1, Min2, Zenon
<1> QED BY <1>2, RecvConstants DEF RecvInv, RecvTypeOK

LEMMA RecvInitInv == RecvInit => RecvInv
BY ReceiversAssumption DEF RecvInit, RecvInv, RecvTypeOK, MbufsBalanced

LEMMA RecvSetupInv == RecvInv /\ Setups => RecvInv'
<1> SUFFICES ASSUME RecvInv, Setups PROVE RecvInv'
  OBVIOUS
<1>1. /\ UNCHANGED <<rprog, quit, mbufs, waiting, seen>>
      /\ rpos = "setup" /\ rpos' \in {"setup", "run", "close", "exit"}
  BY DEF Setups, SetUp, SetupVid, VidDeaf, SetupTap, TapDeaf, SetupPmd, SetupFrontend,
         SetupIdle, SetupPort, SetupVirtioUser, SetupFails, GoOn
<1> QED BY <1>1 DEF RecvInv, RecvTypeOK, MbufsBalanced, mbufs

LEMMA RecvWorkInv == RecvInv /\ Work => RecvInv'
<1> SUFFICES ASSUME RecvInv, Work PROVE RecvInv'
  OBVIOUS
<1> USE RecvConstants DEF RecvInv, RecvTypeOK, MbufsBalanced
<1>1. CASE VidPoll BY <1>1 DEF VidPoll, Running
<1>2. ASSUME RxBurst("run", "burst"), rprog # "vid" PROVE RecvInv'
  <2>1. held' \in Nat /\ held' <= pool /\ held' <= waiting /\ held' <= Burst
    BY <1>2, Min3 DEF RxBurst
  <2> QED BY <1>2, <2>1 DEF RxBurst
<1>3. CASE TapForward
  <2>1. txring' \in Nat /\ txring' <= TxRing /\ txring' <= txring + held /\ txring' >= txring
    BY <1>3, PortTakes DEF TapForward
  <2> QED BY <1>3, <2>1 DEF TapForward
<1>4. CASE PmdFree BY <1>4 DEF PmdFree, GoOn
<1>5. CASE Idle \/ PmdIdle BY <1>5 DEF Idle, PmdIdle, mbufs
<1>6. CASE SendAlloc
  <2>1. held' \in Nat /\ held' <= pool /\ held' <= Burst /\ held' \in {pool, Burst}
    <3>1. pool \in Int /\ Burst \in Int OBVIOUS
    <3>2. /\ Min({pool, Burst}) \in Int /\ Min({pool, Burst}) \in {pool, Burst}
          /\ Min({pool, Burst}) <= pool /\ Min({pool, Burst}) <= Burst
      BY ONLY <3>1, Min2, Zenon
    <3> QED BY <1>6, <3>2 DEF SendAlloc
  <2>2. held' = Burst BY <1>6, <2>1 DEF SendAlloc
  <2> QED BY <1>6, <2>1, <2>2 DEF SendAlloc
<1>7. CASE SendBurst
  <2>1. txring' \in Nat /\ txring' <= TxRing /\ txring' <= txring + held /\ txring' >= txring
    BY <1>7, PortTakes DEF SendBurst
  <2> QED BY <1>7, <2>1 DEF SendBurst
<1>8. CASE ReceiveBurst
  <2>1. waiting' \in Nat
    <3>1. waiting \in Int /\ pool \in Int /\ Burst \in Int OBVIOUS
    <3>2. Min({waiting, pool, Burst}) \in Int /\ Min({waiting, pool, Burst}) <= waiting
      BY ONLY <3>1, Min3, Zenon
    <3> QED BY <1>8, <3>2 DEF ReceiveBurst
  <2> QED BY <1>8, <2>1 DEF ReceiveBurst, GoOn, mbufs
<1>9. CASE CloseAll BY <1>9 DEF CloseAll, mbufs
<1> QED BY <1>1, <1>2, <1>3, <1>4, <1>5, <1>6, <1>7, <1>8, <1>9 DEF Work, TapReceive, PmdReceive

LEMMA RecvNextInv == RecvInv /\ [RecvNext]_recvVars => RecvInv'
<1> SUFFICES ASSUME RecvInv, [RecvNext]_recvVars PROVE RecvInv'
  OBVIOUS
<1> USE DEF RecvInv, RecvTypeOK, MbufsBalanced
<1>1. CASE Setups BY <1>1, RecvSetupInv
<1>2. CASE Work BY <1>2, RecvWorkInv
<1>3. CASE Sigint BY <1>3 DEF Sigint, mbufs
<1>4. CASE Callbacks BY <1>4 DEF Callbacks, DestroyVid, VringStateChanged, OtherVid, mbufs
<1>5. CASE WaitOver BY <1>5 DEF WaitOver, mbufs
<1>6. CASE TxDone BY <1>6, RecvConstants DEF TxDone
<1>7. CASE Arrive BY <1>7 DEF Arrive, mbufs
<1>8. CASE UNCHANGED recvVars BY <1>8 DEF recvVars, mbufs
<1> QED BY <1>1, <1>2, <1>3, <1>4, <1>5, <1>6, <1>7, <1>8 DEF RecvNext

\* In each of the small DPDK programs every mbuf is accounted for at all times:
\* only dpdk/main.c loses mbufs, one per packet, and the front end's
\* send_burst never hands the port a NULL, however many mbufs, however long
\* the bursts and rings, as long as the pool exceeds the ring by two bursts.
THEOREM MbufsAlwaysBalanced == RecvSpec => []MbufsBalanced
<1>1. RecvInv => MbufsBalanced BY DEF RecvInv
<1> QED BY <1>1, RecvInitInv, RecvNextInv, PTL DEF RecvSpec

-----------------------------------------------------------------------------
(***************************************************************************)
(* RobustBackend.                                                          *)
(***************************************************************************)
\* Every mbuf is in the pool, in pkts[] of the worker or gone with a packet
\* that a guest took; pkts[] is empty outside the two bursts.
RobCounted ==
  /\ mbuf_pool \in Nat /\ n_rx \in Nat /\ leaked \in Nat
  /\ mbuf_pool + n_rx + leaked = MEMPOOL_SIZE
  /\ proc # "enqueue" => n_rx = 0

LEMMA RobInitCounted == RobInit => RobCounted
BY RobustAssumption DEF RobInit, RobCounted

\* The guests and the callbacks touch neither the pool nor the worker.
LEMMA RobCallbackCounted ==
  ASSUME RobCounted,
         \/ \E v \in Vids : Connect(v) \/ NewDevice(v) \/ DestroyDevice(v) \/ Leave(v)
         \/ \E v \in Vids, q \in Queues : RobVringStateChanged(v, q)
         \/ DestroyDeviceReady
  PROVE  RobCounted'
<1>1. UNCHANGED workerVars /\ UNCHANGED proc
  BY DEF Connect, NewDevice, DestroyDevice, Leave, RobVringStateChanged, DestroyDeviceReady
<1> QED BY <1>1 DEF RobCounted, workerVars

LEMMA RobNextCounted == RobCounted /\ [RobNext]_robVars => RobCounted'
<1> SUFFICES ASSUME RobCounted, [RobNext]_robVars PROVE RobCounted'
  OBVIOUS
<1>1. CASE UNCHANGED robVars BY <1>1 DEF robVars, workerVars, RobCounted
<1>2. CASE Main \/ SignalHandler \/ Ended \/ Worker
  <2> USE RobustAssumption DEF RobCounted
  <2>1. CASE Main BY <2>1 DEF Main, Construct, Run, Destroy, workerVars
  <2>2. CASE SignalHandler \/ Ended BY <2>2 DEF SignalHandler, Ended, robVars, workerVars
  <2>3. CASE WQuit BY <2>3 DEF WQuit, workerVars
  <2>4. CASE WVid BY <2>4 DEF WVid
  <2>5. CASE WSentry BY <2>5 DEF WSentry, workerVars
  <2>6. CASE WDequeue BY <2>6 DEF WDequeue
  <2>7. CASE WEnqueue BY <2>7 DEF WEnqueue
  <2> QED BY <1>2, <2>1, <2>2, <2>3, <2>4, <2>5, <2>6, <2>7 DEF Worker
<1> QED BY <1>1, <1>2, RobCallbackCounted DEF RobNext

\* No mbuf of the single-threaded back end is lost but those of packets a
\* guest took, which backend.cpp never frees: these are all that is missing
\* once the worker has dealt with its burst.
THEOREM RobustMbufsCounted == RobSpec => []RobCounted
BY RobInitCounted, RobNextCounted, PTL DEF RobSpec

-----------------------------------------------------------------------------
(***************************************************************************)
(* Induction over the natural numbers, for sets: the library's theorem is  *)
(* about operators, so it is derived here from the fact that < is          *)
(* well-founded.                                                           *)
(***************************************************************************)
Less == {ss \in Nat \X Nat : ss[1] < ss[2]}

LEMMA LessWellFounded == IsWellFoundedOn(Less, Nat)
BY NatLessThanWellFounded, Zenon DEF OpToRel, Less

LEMMA NatSetInduction ==
  ASSUME NEW S, 0 \in S, \A n \in Nat : n \in S => n + 1 \in S
  PROVE  \A n \in Nat : n \in S
<1> DEFINE T == Nat \ S
<1> SUFFICES ASSUME T # {} PROVE FALSE OBVIOUS
<1>1. PICK x \in T : \A y \in T : ~ (<<y, x>> \in Less)
  <2>1. T \subseteq Nat OBVIOUS
  <2> HIDE DEF T
  <2> QED BY <2>1, LessWellFounded, WFMin, Zenon
<1>2. x \in Nat /\ x # 0 OBVIOUS
<1>3. x - 1 \in T BY <1>2
<1>4. <<x - 1, x>> \in Less BY <1>2 DEF Less
<1> QED BY <1>1, <1>3, <1>4

\* A function that never falls from one number to the next is monotone.
LEMMA StartsMonotone ==
  ASSUME NEW n \in Nat, NEW s \in [0..n -> Nat], \A i \in 1..n : s[i - 1] <= s[i]
  PROVE  \A i, j \in 0..n : i <= j => s[i] <= s[j]
<1> DEFINE Good == {d \in Nat : \A i \in 0..n : i + d <= n => s[i] <= s[i + d]}
<1>1. 0 \in Good OBVIOUS
<1>2. ASSUME NEW d \in Nat, d \in Good PROVE d + 1 \in Good
  <2> SUFFICES ASSUME NEW i \in 0..n, i + (d + 1) <= n PROVE s[i] <= s[i + (d + 1)]
    OBVIOUS
  <2>1. s[i] <= s[i + d] BY <1>2
  <2>2. i + (d + 1) \in 1..n /\ (i + (d + 1)) - 1 = i + d OBVIOUS
  <2>3. s[i + d] <= s[i + (d + 1)] BY <2>2
  <2>4. s[i] \in Nat /\ s[i + d] \in Nat /\ s[i + (d + 1)] \in Nat OBVIOUS
  <2> QED BY <2>1, <2>3, <2>4
<1>3. \A d \in Nat : d \in Good
  <2> HIDE DEF Good
  <2> QED BY <1>1, <1>2, NatSetInduction, Zenon
<1> SUFFICES ASSUME NEW i \in 0..n, NEW j \in 0..n, i <= j PROVE s[i] <= s[j]
  OBVIOUS
<1>4. j - i \in Good
  <2> HIDE DEF Good
  <2> QED BY <1>3
<1> QED BY <1>4

-----------------------------------------------------------------------------
(***************************************************************************)
(* VhostMemory.                                                            *)
(***************************************************************************)
Regions == [gpa : Nat, size : Nat \ {0}, qva : Nat, mmap_offset : Nat, mmap_addr : Nat]

\* A region as the message has it.
Says(rs, i) ==
  /\ rs[i].gpa = request[i].gpa /\ rs[i].size = request[i].size
  /\ rs[i].qva = request[i].qva /\ rs[i].mmap_offset = request[i].mmap_offset

\* The handler is at region reg of its message; the regions before it are as the
\* message says, each mapped behind the one before, and nothing lies behind top.
MemInv ==
  /\ nregions \in 0..MaxRegions /\ top \in Nat /\ reg \in Nat \ {0}
  /\ request \in [1..nregions -> MsgRegions] /\ WellFormed(request)
  /\ regions \in [1..MaxRegions ->
                    [gpa : Nat, size : Nat, qva : Nat, mmap_offset : Nat, mmap_addr : Nat]]
  /\ mstep \in {"region", "mmap"} => reg <= nregions
  /\ mstep = "done" => reg = nregions + 1
  /\ mstep = "mmap" => Says(regions, reg)
  /\ \A i \in 1..nregions : i < reg =>
       Says(regions, i) /\ regions[i].mmap_addr + Mapped(regions[i]) <= top
  /\ \A i, j \in 1..nregions : i < j /\ j < reg =>
       regions[i].mmap_addr + Mapped(regions[i]) <= regions[j].mmap_addr

\* The regions of a complete table are apart in the guest's, the peer's and the
\* back end's address space.
Settled ==
  /\ nregions \in Nat /\ \A i \in 1..nregions : regions[i] \in Regions
  /\ \A i, j \in 1..nregions : i # j =>
       /\ Apart(regions[i].gpa, regions[i].size, regions[j].gpa, regions[j].size)
       /\ Apart(regions[i].qva, regions[i].size, regions[j].qva, regions[j].size)
       /\ Apart(regions[i].mmap_addr, Mapped(regions[i]), regions[j].mmap_addr, Mapped(regions[j]))

LEMMA MemInitInv == MemInit => MemInv
BY MemoryAssumption DEF MemInit, MemInv, WellFormed

\* What a message says of a region are numbers, and its size is positive.
LEMMA RequestFields ==
  ASSUME MemInv, NEW i \in 1..nregions
  PROVE  /\ request[i].gpa \in Nat /\ request[i].qva \in Nat /\ request[i].mmap_offset \in Nat
         /\ request[i].size \in Nat \ {0}
<1>1. request[i] \in MsgRegions BY DEF MemInv
<1>2. /\ request[i].size \in Sizes /\ request[i].mmap_offset \in Offsets
      /\ request[i].gpa \in Addrs /\ request[i].qva \in Addrs
  BY <1>1 DEF MsgRegions
<1> QED BY <1>2, MemoryAssumption

LEMMA SetMemTableInv ==
  ASSUME MemInv, NEW n \in 0..MaxRegions, NEW msg \in [1..n -> MsgRegions], WellFormed(msg),
         SetMemTable(msg)
  PROVE  MemInv'
<1>1. n \in Nat /\ Len(msg) = n BY MemoryAssumption
<1> QED BY <1>1 DEF MemInv, SetMemTable, WellFormed

LEMMA SetRegionInv == MemInv /\ SetRegion => MemInv'
<1> SUFFICES ASSUME MemInv, SetRegion PROVE MemInv' OBVIOUS
<1>1. reg \in 1..nregions /\ reg \in 1..MaxRegions
  BY MemoryAssumption DEF MemInv, SetRegion
<1>2. /\ request[reg].gpa \in Nat /\ request[reg].qva \in Nat /\ request[reg].mmap_offset \in Nat
      /\ request[reg].size \in Nat
  BY <1>1, RequestFields
<1>3. \A i \in 1..MaxRegions : i # reg => regions'[i] = regions[i] BY DEF MemInv, SetRegion
<1>4. /\ regions'[reg].gpa = request[reg].gpa /\ regions'[reg].size = request[reg].size
      /\ regions'[reg].qva = request[reg].qva /\ regions'[reg].mmap_offset = request[reg].mmap_offset
      /\ regions'[reg].mmap_addr = regions[reg].mmap_addr
  BY <1>1 DEF MemInv, SetRegion
<1>5. regions' \in [1..MaxRegions ->
                      [gpa : Nat, size : Nat, qva : Nat, mmap_offset : Nat, mmap_addr : Nat]]
  BY <1>1, <1>2 DEF MemInv, SetRegion
<1>6. UNCHANGED <<nregions, request, reg, top>> /\ mstep' = "mmap" BY DEF SetRegion
<1>7. \A i \in 1..nregions : i < reg => i # reg /\ i \in 1..MaxRegions
  BY <1>1, MemoryAssumption DEF MemInv
<1>8. \A i \in 1..nregions : i < reg =>
        Says(regions', i) /\ regions'[i].mmap_addr + Mapped(regions'[i]) <= top
  BY <1>3, <1>7 DEF MemInv, Says
<1>9. \A i, j \in 1..nregions : i < j /\ j < reg =>
        regions'[i].mmap_addr + Mapped(regions'[i]) <= regions'[j].mmap_addr
  <2> TAKE i, j \in 1..nregions
  <2> HAVE i < j /\ j < reg
  <2>1. i < reg BY <1>1, MemoryAssumption DEF MemInv
  <2>2. regions'[i] = regions[i] /\ regions'[j] = regions[j] BY <1>3, <1>7, <2>1
  <2> QED BY <2>2 DEF MemInv
<1>10. Says(regions', reg) BY <1>4 DEF Says
<1> QED BY <1>1, <1>5, <1>6, <1>8, <1>9, <1>10 DEF MemInv, WellFormed, Says

LEMMA MapRegionInv == MemInv /\ MapRegion => MemInv'
<1> SUFFICES ASSUME MemInv, MapRegion PROVE MemInv' OBVIOUS
<1>1. reg \in 1..nregions /\ reg \in 1..MaxRegions /\ nregions \in Nat
  BY MemoryAssumption DEF MemInv, MapRegion
<1>2. Mapped(request[reg]) \in Nat BY <1>1, RequestFields DEF Mapped
<1>3. \A i \in 1..MaxRegions : i # reg => regions'[i] = regions[i] BY DEF MemInv, MapRegion
<1>4. /\ Says(regions', reg) /\ regions'[reg].mmap_addr = top
      /\ Mapped(regions'[reg]) = Mapped(request[reg])
  BY <1>1 DEF MemInv, MapRegion, Says, Mapped
<1>5. regions' \in [1..MaxRegions ->
                      [gpa : Nat, size : Nat, qva : Nat, mmap_offset : Nat, mmap_addr : Nat]]
  BY <1>1 DEF MemInv, MapRegion
<1>6. /\ UNCHANGED <<nregions, request>> /\ reg' = reg + 1 /\ top' = top + Mapped(request[reg])
      /\ mstep' = (IF reg = nregions THEN "done" ELSE "region") /\ top \in Nat
  BY DEF MapRegion, MemInv
<1>7. \A i \in 1..nregions : i < reg => i # reg /\ i \in 1..MaxRegions
  BY <1>1, MemoryAssumption DEF MemInv
<1>8. ASSUME NEW i \in 1..nregions, i < reg + 1
      PROVE  Says(regions', i) /\ regions'[i].mmap_addr + Mapped(regions'[i]) <= top'
  <2>1. CASE i = reg BY <2>1, <1>2, <1>4, <1>6
  <2>2. CASE i < reg
    <3>1. regions'[i] = regions[i] BY <1>3, <1>7, <2>2
    <3>2. Says(regions, i) /\ regions[i].mmap_addr + Mapped(regions[i]) <= top
      BY <2>2 DEF MemInv
    <3>3. regions[i].mmap_addr + Mapped(regions[i]) \in Nat BY <1>7, <2>2, SMTT(30) DEF MemInv, Mapped
    <3>4. regions[i].mmap_addr + Mapped(regions[i]) <= top' BY <1>2, <1>6, <3>2, <3>3
    <3> QED BY <3>1, <3>2, <3>4 DEF Says
  <2> QED BY <1>1, <1>8, <2>1, <2>2
<1>9. ASSUME NEW i \in 1..nregions, NEW j \in 1..nregions, i < j, j < reg + 1
      PROVE  regions'[i].mmap_addr + Mapped(regions'[i]) <= regions'[j].mmap_addr
  <2>1. i < reg /\ (j = reg \/ j < reg) BY <1>1, <1>9
  <2>2. regions'[i] = regions[i] BY <1>3, <1>7, <2>1
  <2>3. CASE j = reg BY <2>1, <2>2, <2>3, <1>4 DEF MemInv
  <2>4. CASE j < reg
    <3>1. regions'[j] = regions[j] BY <1>3, <1>7, <2>4
    <3> QED BY <2>2, <2>4, <3>1, <1>9 DEF MemInv
  <2> QED BY <2>1, <2>3, <2>4
<1>10. mstep' \in {"region", "mmap"} => reg' <= nregions BY <1>1, <1>6
<1>11. (mstep' = "done" => reg' = nregions + 1) /\ mstep' # "mmap" BY <1>1, <1>6
<1>12. top' \in Nat /\ reg' \in Nat \ {0} BY <1>1, <1>2, <1>6
<1>13. WellFormed(request)' BY <1>6 DEF MemInv, WellFormed
<1> QED BY <1>1, <1>5, <1>6, <1>8, <1>9, <1>10, <1>11, <1>12, <1>13 DEF MemInv, Says

LEMMA MemNextInv == MemInv /\ [MemNext]_memVars => MemInv'
<1> SUFFICES ASSUME MemInv, [MemNext]_memVars PROVE MemInv'
  OBVIOUS
<1>1. CASE UNCHANGED memVars BY <1>1 DEF memVars, MemInv, WellFormed, Says
<1>2. ASSUME NEW n \in 0..MaxRegions, NEW msg \in [1..n -> MsgRegions], WellFormed(msg),
             SetMemTable(msg)
      PROVE  MemInv'
  BY <1>2, SetMemTableInv
<1>3. CASE MapFails BY <1>3 DEF MapFails, MemInv, WellFormed, Says
<1> QED BY <1>1, <1>2, <1>3, SetRegionInv, MapRegionInv DEF MemNext

\* What the invariant says of a complete table.
LEMMA DoneSettled == MemInv /\ mstep = "done" => Settled
<1> SUFFICES ASSUME MemInv, mstep = "done" PROVE Settled OBVIOUS
<1>1. nregions \in Nat /\ reg = nregions + 1 /\ Len(request) = nregions
  BY MemoryAssumption DEF MemInv
<1>2. \A i \in 1..nregions : i < reg /\ i \in 1..MaxRegions
  BY <1>1, MemoryAssumption DEF MemInv
<1>3. \A i \in 1..nregions : Says(regions, i) BY <1>2 DEF MemInv
<1>4. ASSUME NEW i \in 1..nregions PROVE regions[i] \in Regions
  <2>1. regions[i] \in [gpa : Nat, size : Nat, qva : Nat, mmap_offset : Nat, mmap_addr : Nat]
    BY <1>2 DEF MemInv
  <2>2. regions[i].size # 0 BY <1>3, RequestFields DEF Says
  <2> QED BY <2>1, <2>2 DEF Regions
<1>5. ASSUME NEW i \in 1..nregions, NEW j \in 1..nregions, i # j
      PROVE  /\ Apart(regions[i].gpa, regions[i].size, regions[j].gpa, regions[j].size)
             /\ Apart(regions[i].qva, regions[i].size, regions[j].qva, regions[j].size)
  BY <1>1, <1>3, <1>5 DEF MemInv, WellFormed, Says
<1>6. ASSUME NEW i \in 1..nregions, NEW j \in 1..nregions, i < j
      PROVE  regions[i].mmap_addr + Mapped(regions[i]) <= regions[j].mmap_addr
  BY <1>2, <1>6 DEF MemInv
<1>7. ASSUME NEW i \in 1..nregions, NEW j \in 1..nregions, i # j
      PROVE  Apart(regions[i].mmap_addr, Mapped(regions[i]), regions[j].mmap_addr,
                   Mapped(regions[j]))
  BY <1>1, <1>6, <1>7, SMTT(30) DEF Apart
<1> QED BY <1>1, <1>4, <1>5, <1>7 DEF Settled

LEMMA RegionFields ==
  ASSUME Settled, NEW i \in 1..nregions
  PROVE  /\ regions[i].gpa \in Nat /\ regions[i].qva \in Nat /\ regions[i].size \in Nat \ {0}
         /\ regions[i].mmap_addr \in Nat /\ regions[i].mmap_offset \in Nat
         /\ Mapped(regions[i]) \in Nat
<1>1. regions[i] \in Regions BY DEF Settled
<1>2. /\ regions[i].gpa \in Nat /\ regions[i].qva \in Nat /\ regions[i].size \in Nat \ {0}
      /\ regions[i].mmap_addr \in Nat /\ regions[i].mmap_offset \in Nat
  BY <1>1 DEF Regions
<1> QED BY <1>2 DEF Mapped

\* Ranges that are apart have no address in common.
LEMMA ApartDisjoint ==
  ASSUME NEW a \in Nat, NEW n \in Nat, NEW b \in Nat, NEW m \in Nat, NEW v \in Nat,
         Apart(a, n, b, m), a <= v, v < a + n, b <= v, v < b + m
  PROVE  FALSE
BY DEF Apart

LEMMA FirstOnly ==
  ASSUME NEW i \in Nat PROVE First({i}) = i
BY DEF First

\* An address inside a region is found there and nowhere else; one that is
\* found is inside a region.
LEMMA GpaFound ==
  ASSUME Settled, NEW i \in 1..nregions, NEW o \in 0..(regions[i].size - 1)
  PROVE  GpaToVa(regions[i].gpa + o) = o + regions[i].mmap_addr + regions[i].mmap_offset
<1> DEFINE a == regions[i].gpa + o
           hits == {k \in 1..nregions : /\ regions[k].gpa <= a
                                            /\ a < regions[k].gpa + regions[k].size}
<1>2. /\ regions[i].gpa \in Nat /\ regions[i].size \in Nat /\ o \in Nat
      /\ regions[i].mmap_addr \in Nat /\ regions[i].mmap_offset \in Nat
  BY RegionFields
<1>3. i \in hits BY <1>2
<1>4. ASSUME NEW k \in hits PROVE k = i
  <2> SUFFICES ASSUME k # i PROVE FALSE OBVIOUS
  <2>1. Apart(regions[i].gpa, regions[i].size, regions[k].gpa, regions[k].size) BY DEF Settled
  <2>2. regions[k].gpa \in Nat /\ regions[k].size \in Nat BY RegionFields
  <2>3. regions[k].gpa <= a /\ a < regions[k].gpa + regions[k].size OBVIOUS
  <2>4. a \in Nat /\ regions[i].gpa <= a /\ a < regions[i].gpa + regions[i].size BY <1>2, SMTT(30)
  <2> HIDE DEF a
  <2> QED BY <2>1, <2>2, <2>3, <2>4, <1>2, ApartDisjoint
<1>5. hits = {i} BY <1>3, <1>4
<1>6. First(hits) = i BY <1>5, FirstOnly
<1>7. GpaToVa(a) = a - regions[i].gpa + regions[i].mmap_addr + regions[i].mmap_offset
  BY <1>6 DEF GpaToVa
<1> QED BY <1>7, <1>2

LEMMA QvaFound ==
  ASSUME Settled, NEW i \in 1..nregions, NEW o \in 0..(regions[i].size - 1)
  PROVE  QvaToVa(regions[i].qva + o) = o + regions[i].mmap_addr + regions[i].mmap_offset
<1> DEFINE a == regions[i].qva + o
           hits == {k \in 1..nregions : /\ regions[k].qva <= a
                                            /\ a < regions[k].qva + regions[k].size}
<1>2. /\ regions[i].qva \in Nat /\ regions[i].size \in Nat /\ o \in Nat
      /\ regions[i].mmap_addr \in Nat /\ regions[i].mmap_offset \in Nat
  BY RegionFields
<1>3. i \in hits BY <1>2, SMTT(30)
<1>4. ASSUME NEW k \in hits PROVE k = i
  <2> SUFFICES ASSUME k # i PROVE FALSE OBVIOUS
  <2>1. Apart(regions[i].qva, regions[i].size, regions[k].qva, regions[k].size) BY DEF Settled
  <2>2. regions[k].qva \in Nat /\ regions[k].size \in Nat BY RegionFields
  <2>3. regions[k].qva <= a /\ a < regions[k].qva + regions[k].size OBVIOUS
  <2>4. a \in Nat /\ regions[i].qva <= a /\ a < regions[i].qva + regions[i].size BY <1>2, SMTT(30)
  <2> HIDE DEF a
  <2> QED BY <2>1, <2>2, <2>3, <2>4, <1>2, ApartDisjoint
<1>5. hits = {i} BY <1>3, <1>4
<1>6. First(hits) = i BY <1>5, FirstOnly
<1>7. QvaToVa(a) = a - regions[i].qva + regions[i].mmap_addr + regions[i].mmap_offset
  BY <1>6 DEF QvaToVa
<1> QED BY <1>7, <1>2

LEMMA QvaMissed ==
  ASSUME Settled, NEW a \in Nat, QvaToVa(a) # NotFound
  PROVE  \E i \in 1..nregions : \E o \in 0..(regions[i].size - 1) : a = regions[i].qva + o
<1> DEFINE hits == {k \in 1..nregions : /\ regions[k].qva <= a
                                            /\ a < regions[k].qva + regions[k].size}
<1>1. hits # {}
  <2> SUFFICES ASSUME hits = {} PROVE FALSE OBVIOUS
  <2>1. First(hits) = 0 BY DEF First
  <2> QED BY <2>1 DEF QvaToVa
<1>2. PICK k \in hits : TRUE BY <1>1
<1>3. regions[k].qva \in Nat /\ regions[k].size \in Nat BY RegionFields
<1>4. a - regions[k].qva \in 0..(regions[k].size - 1) BY <1>3
<1>5. a = regions[k].qva + (a - regions[k].qva) BY <1>3
<1> QED BY <1>4, <1>5

LEMMA GpaMissed ==
  ASSUME Settled, NEW a \in Nat, GpaToVa(a) # NotFound
  PROVE  \E i \in 1..nregions : \E o \in 0..(regions[i].size - 1) : a = regions[i].gpa + o
<1> DEFINE hits == {k \in 1..nregions : /\ regions[k].gpa <= a
                                            /\ a < regions[k].gpa + regions[k].size}
<1>1. hits # {}
  <2> SUFFICES ASSUME hits = {} PROVE FALSE OBVIOUS
  <2>1. First(hits) = 0 BY DEF First
  <2> QED BY <2>1 DEF GpaToVa
<1>2. PICK k \in hits : TRUE BY <1>1
<1>3. regions[k].gpa \in Nat /\ regions[k].size \in Nat BY RegionFields
<1>4. a - regions[k].gpa \in 0..(regions[k].size - 1) BY <1>3, SMTT(30)
<1>5. a = regions[k].gpa + (a - regions[k].gpa) BY <1>3
<1> QED BY <1>4, <1>5

\* A translated address lies in the mapping of its region.
LEMMA FoundInMapping ==
  ASSUME Settled, NEW i \in 1..nregions, NEW o \in 0..(regions[i].size - 1), NEW va,
         va = o + regions[i].mmap_addr + regions[i].mmap_offset
  PROVE  /\ va \in Nat /\ regions[i].mmap_addr <= va
         /\ va < regions[i].mmap_addr + Mapped(regions[i])
<1>1. /\ regions[i].size \in Nat /\ regions[i].mmap_addr \in Nat
      /\ regions[i].mmap_offset \in Nat
  BY RegionFields
<1> DEFINE n == regions[i].size
           m == regions[i].mmap_addr
           f == regions[i].mmap_offset
<1>2. n \in Nat /\ m \in Nat /\ f \in Nat /\ o \in 0..(n - 1) /\ va = o + m + f BY <1>1
<1> HIDE DEF n, m, f
<1>3. va \in Nat /\ m <= va /\ va < m + (n + f) BY ONLY <1>2
<1> QED BY <1>3 DEF Mapped, n, m, f

LEMMA AddrsNat == \A a \in AllAddrs : a \in Nat
BY MemoryAssumption DEF AllAddrs

LEMMA SettledSound == Settled => TranslationSound
<1> SUFFICES ASSUME Settled PROVE TranslationSound OBVIOUS
<1> DEFINE bytes == Bytes(regions, nregions)
<1>1. ASSUME NEW a \in AllAddrs, NEW va \in {QvaToVa(a), GpaToVa(a)} \ {NotFound}
      PROVE  \E i \in 1..nregions :
               regions[i].mmap_addr <= va /\ va < regions[i].mmap_addr + Mapped(regions[i])
  <2>1. a \in Nat BY AddrsNat
  <2>2. CASE va = QvaToVa(a)
    <3>1. PICK i \in 1..nregions : \E o \in 0..(regions[i].size - 1) : a = regions[i].qva + o
      BY <2>1, <2>2, <1>1, QvaMissed
    <3>2. PICK o \in 0..(regions[i].size - 1) : a = regions[i].qva + o BY <3>1
    <3>3. va = o + regions[i].mmap_addr + regions[i].mmap_offset BY <2>2, <3>2, QvaFound
    <3> QED BY <3>3, FoundInMapping
  <2>3. CASE va = GpaToVa(a)
    <3>1. PICK i \in 1..nregions : \E o \in 0..(regions[i].size - 1) : a = regions[i].gpa + o
      BY <2>1, <2>3, <1>1, GpaMissed
    <3>2. PICK o \in 0..(regions[i].size - 1) : a = regions[i].gpa + o BY <3>1
    <3>3. va = o + regions[i].mmap_addr + regions[i].mmap_offset BY <2>3, <3>2, GpaFound
    <3> QED BY <3>3, FoundInMapping
  <2> QED BY <2>2, <2>3, <1>1
<1>2. ASSUME NEW i \in 1..nregions, NEW o \in 0..(regions[i].size - 1)
      PROVE  QvaToVa(regions[i].qva + o) = GpaToVa(regions[i].gpa + o)
  BY QvaFound, GpaFound
<1>3. ASSUME NEW a \in bytes
      PROVE  \E i \in 1..nregions, o \in Nat :
               /\ o \in 0..(regions[i].size - 1) /\ a = regions[i].gpa + o
               /\ GpaToVa(a) = o + regions[i].mmap_addr + regions[i].mmap_offset
  <2>1. PICK i \in 1..nregions : a \in regions[i].gpa..(regions[i].gpa + regions[i].size - 1)
    BY DEF Bytes
  <2>2. regions[i].gpa \in Nat /\ regions[i].size \in Nat BY RegionFields
  <2>3. a - regions[i].gpa \in 0..(regions[i].size - 1) /\ a = regions[i].gpa + (a - regions[i].gpa)
    BY <2>1, <2>2, SMTT(30)
  <2> QED BY <2>3, GpaFound
<1>4. ASSUME NEW a \in bytes PROVE GpaToVa(a) # NotFound
  <2>1. PICK i \in 1..nregions, o \in Nat :
               /\ o \in 0..(regions[i].size - 1) /\ a = regions[i].gpa + o
               /\ GpaToVa(a) = o + regions[i].mmap_addr + regions[i].mmap_offset
    BY <1>3
  <2>2. GpaToVa(a) \in Nat BY <2>1, FoundInMapping
  <2> QED BY <2>2 DEF NotFound
<1>5. ASSUME NEW a \in bytes, NEW b \in bytes, GpaToVa(a) = GpaToVa(b) PROVE a = b
  <2>1. PICK i \in 1..nregions, o \in Nat :
               /\ o \in 0..(regions[i].size - 1) /\ a = regions[i].gpa + o
               /\ GpaToVa(a) = o + regions[i].mmap_addr + regions[i].mmap_offset
    BY <1>3
  <2>2. PICK j \in 1..nregions, p \in Nat :
               /\ p \in 0..(regions[j].size - 1) /\ b = regions[j].gpa + p
               /\ GpaToVa(b) = p + regions[j].mmap_addr + regions[j].mmap_offset
    BY <1>3
  <2>3. /\ GpaToVa(a) \in Nat /\ regions[i].mmap_addr <= GpaToVa(a)
        /\ GpaToVa(a) < regions[i].mmap_addr + Mapped(regions[i])
    BY <2>1, FoundInMapping
  <2>4. /\ GpaToVa(b) \in Nat /\ regions[j].mmap_addr <= GpaToVa(b)
        /\ GpaToVa(b) < regions[j].mmap_addr + Mapped(regions[j])
    BY <2>2, FoundInMapping
  <2>6. /\ regions[i].mmap_addr \in Nat /\ regions[j].mmap_addr \in Nat
        /\ Mapped(regions[i]) \in Nat /\ Mapped(regions[j]) \in Nat
        /\ regions[i].mmap_offset \in Nat
    BY RegionFields
  <2>7. i = j
    <3> SUFFICES ASSUME i # j PROVE FALSE OBVIOUS
    <3>1. Apart(regions[i].mmap_addr, Mapped(regions[i]), regions[j].mmap_addr, Mapped(regions[j]))
      BY DEF Settled
    <3> QED BY <3>1, <2>3, <2>4, <2>6, <1>5, ApartDisjoint
  <2>8. o = p
    <3> DEFINE m == regions[i].mmap_addr
               f == regions[i].mmap_offset
    <3>1. /\ m \in Nat /\ f \in Nat /\ o \in Nat /\ p \in Nat
          /\ GpaToVa(a) = o + m + f /\ GpaToVa(b) = p + m + f /\ GpaToVa(a) = GpaToVa(b)
      BY <2>1, <2>2, <2>6, <2>7, <1>5
    <3> HIDE DEF m, f
    <3> QED BY ONLY <3>1
  <2> QED BY <2>1, <2>2, <2>7, <2>8
<1> QED BY <1>1, <1>2, <1>4, <1>5, Zenon DEF TranslationSound

\* After any sequence of SET_MEM_TABLE messages with any number of regions,
\* once the last table is complete, qva_to_va and gpa_to_va translate into its
\* mappings, agree with each other, find every byte and never merge two.
THEOREM TranslationAlwaysSound == MemSpec => []TranslationSound
<1>1. MemInv => TranslationSound
  <2>1. CASE mstep = "done" BY <2>1, DoneSettled, SettledSound
  <2>2. CASE mstep # "done" BY <2>2 DEF TranslationSound
  <2> QED BY <2>1, <2>2
<1> QED BY <1>1, MemInitInv, MemNextInv, PTL DEF MemSpec

-----------------------------------------------------------------------------
(*****************************************************************************)
(* Recursive definitions and sequences.                                      *)
(*****************************************************************************)
\* f follows G from base on, within T.
Follows(T, n, base, G, f) ==
  f \in [0..n -> T] /\ f[0] = base /\ \A k \in 1..n : f[k] = G[k][f[k - 1]]

\* A recursive definition that stays within a set has a solution.
LEMMA RecursionExists ==
  \A T : \A n \in Nat : \A base \in T : \A G \in [1..n -> [T -> T]] :
    \E f : Follows(T, n, base, G, f)
<1> TAKE T
<1> TAKE n \in Nat
<1> TAKE base \in T
<1> TAKE G \in [1..n -> [T -> T]]
<1> DEFINE Sol(m, f) == f[0] = base /\ \A k \in 1..m : f[k] = G[k][f[k - 1]]
           Good == {m \in Nat : m <= n => \E f \in [0..m -> T] : Sol(m, f)}
<1>1. 0 \in Good
  <2>1. Sol(0, [k \in 0..0 |-> base]) /\ [k \in 0..0 |-> base] \in [0..0 -> T] OBVIOUS
  <2> HIDE DEF Sol
  <2> QED BY <2>1
<1>2. ASSUME NEW m \in Nat, m \in Good PROVE m + 1 \in Good
  <2> SUFFICES ASSUME m + 1 <= n PROVE \E f \in [0..(m + 1) -> T] : Sol(m + 1, f)
    OBVIOUS
  <2>1. PICK f \in [0..m -> T] : Sol(m, f)
    <3> HIDE DEF Sol
    <3> QED BY <1>2
  <2> DEFINE g == [k \in 0..(m + 1) |-> IF k <= m THEN f[k] ELSE G[m + 1][f[m]]]
  <2>2. f[m] \in T /\ G[m + 1][f[m]] \in T OBVIOUS
  <2>3. g \in [0..(m + 1) -> T] BY <2>2
  <2>4. ASSUME NEW k \in 1..(m + 1) PROVE g[k] = G[k][g[k - 1]]
    <3>1. CASE k <= m
      <4>1. k - 1 \in 0..(m + 1) /\ k - 1 <= m /\ k \in 1..m BY <3>1
      <4>2. f[k] = G[k][f[k - 1]] BY <2>1, <4>1
      <4> QED BY <4>1, <4>2
    <3>2. CASE k = m + 1
      <4>1. g[m] = f[m] /\ k - 1 = m BY <3>2
      <4>2. g[m + 1] = G[m + 1][f[m]] OBVIOUS
      <4> HIDE DEF g
      <4> QED BY <4>1, <4>2, <3>2
    <3> QED BY <3>1, <3>2
  <2>5. g[0] = base BY <2>1
  <2> HIDE DEF g
  <2> QED BY <2>3, <2>4, <2>5
<1>3. \A m \in Nat : m \in Good
  <2> HIDE DEF Good
  <2> QED BY <1>1, <1>2, NatSetInduction, Zenon
<1>4. n \in Good
  <2> HIDE DEF Good
  <2> QED BY <1>3
<1> QED BY <1>4 DEF Follows

\* A sequence behind one element.
LEMMA ConsFacts ==
  ASSUME NEW T, NEW e, NEW ps \in Seq(T)
  PROVE  /\ Len(<<e>> \o ps) = 1 + Len(ps) /\ (<<e>> \o ps)[1] = e
         /\ \A l \in 1..Len(ps) : (<<e>> \o ps)[1 + l] = ps[l]
<1> DEFINE U == T \cup {e}
<1>1. ps \in Seq(U) OBVIOUS
<1>2. <<e>> \in Seq(U) /\ Len(<<e>>) = 1 /\ <<e>>[1] = e OBVIOUS
<1> HIDE DEF U
<1> QED BY <1>1, <1>2

\* A sequence as a function.
LEMMA SeqIsFunction ==
  ASSUME NEW S, NEW s \in Seq(S)
  PROVE  s = [i \in 1..Len(s) |-> s[i]]
OBVIOUS

-----------------------------------------------------------------------------
(*****************************************************************************)
(* Launcher.                                                                 *)
(*****************************************************************************)
Macs == [mac : [1..6 -> Int], parent : Int]
FirstMac == [mac |-> <<0, 96, 47, 0, 0, 0>>, parent |-> 5]

LEMMA LauncherConstants ==
  /\ MaxByte \in Nat /\ MaxByte > 0 /\ TableSize \in Nat
  /\ TableSize <= 2 * (MaxByte + 1) * (MaxByte + 1)
BY LauncherAssumption

LEMMA FirstMacType == FirstMac \in Macs
<1>1. <<0, 96, 47, 0, 0, 0>> \in [1..6 -> Int] OBVIOUS
<1> QED BY <1>1 DEF FirstMac, Macs

\* What one increment does.
LEMMA IncrMacStays ==
  ASSUME NEW m \in Macs, m.mac[6] < MaxByte
  PROVE  /\ IncrMac(m) \in Macs /\ IncrMac(m).parent = m.parent
         /\ IncrMac(m).mac[6] = m.mac[6] + 1
         /\ \A b \in 1..5 : IncrMac(m).mac[b] = m.mac[b]
<1>1. m.mac \in [1..6 -> Int] /\ m.parent \in Int /\ m = [mac |-> m.mac, parent |-> m.parent]
  BY DEF Macs
<1>2. IncrMac(m) = [mac |-> [m.mac EXCEPT ![6] = @ + 1], parent |-> m.parent]
  BY <1>1 DEF IncrMac
<1> QED BY <1>1, <1>2 DEF Macs

LEMMA IncrMacCarries ==
  ASSUME NEW m \in Macs, ~ (m.mac[6] < MaxByte)
  PROVE  LET full == m.mac[m.parent] = MaxByte
             p    == IF full THEN m.parent - 1 ELSE m.parent
         IN  /\ IncrMac(m) \in Macs /\ IncrMac(m).parent = p
             /\ p \in 1..5 => /\ IncrMac(m).mac[6] = 0 
                              /\ IncrMac(m).mac[p] = m.mac[p] + 1
                              /\ \A b \in 1..(p - 1) : IncrMac(m).mac[b] = m.mac[b]
<1> DEFINE full == m.mac[m.parent] = MaxByte
           p == IF full THEN m.parent - 1 ELSE m.parent
           Byte(b) == CASE b = p -> m.mac[b] + 1
                        [] b = 6 \/ (full /\ b = m.parent) -> 0
                        [] OTHER -> m.mac[b]
<1>1. m.mac \in [1..6 -> Int] /\ m.parent \in Int BY DEF Macs
<1>2. p \in Int BY <1>1
<1>3. IncrMac(m) = [mac |-> [b \in 1..6 |-> Byte(b)], parent |-> p] BY Zenon DEF IncrMac
<1>4. \A b \in 1..6 : Byte(b) \in Int BY <1>1
<1>5. [b \in 1..6 |-> Byte(b)] \in [1..6 -> Int]
  <2> HIDE DEF Byte
  <2> QED BY <1>4
<1>6. IncrMac(m) \in Macs /\ IncrMac(m).parent = p
  <2> HIDE DEF Byte, p
  <2> QED BY <1>2, <1>3, <1>5 DEF Macs
<1>7. \A b \in 1..6 : IncrMac(m).mac[b] = Byte(b)
  <2> HIDE DEF Byte, p
  <2> QED BY <1>3
<1>8. ASSUME p \in 1..5
      PROVE  /\ IncrMac(m).mac[6] = 0 /\ IncrMac(m).mac[p] = m.mac[p] + 1
             /\ \A b \in 1..(p - 1) : IncrMac(m).mac[b] = m.mac[b]
  <2>1. full => p = m.parent - 1 BY <1>1
  <2>2. Byte(6) = 0 /\ Byte(p) = m.mac[p] + 1 /\ \A b \in 1..(p - 1) : Byte(b) = m.mac[b]
    <3> HIDE DEF full
    <3>1. /\ 6 # p /\ (full => p # m.parent)
          /\ \A b \in 1..(p - 1) : b # p /\ b # 6 /\ (full => b # m.parent)
      <4> HIDE DEF p
      <4> QED BY <1>1, <1>8, <2>1
    <3> HIDE DEF p
    <3>2. Byte(6) = 0 BY <3>1, Zenon
    <3>3. Byte(p) = m.mac[p] + 1 BY <3>1, Zenon
    <3>4. ASSUME NEW b \in 1..(p - 1) PROVE Byte(b) = m.mac[b] BY <3>1, Zenon
    <3> HIDE DEF Byte
    <3> QED BY <3>2, <3>3, <3>4
  <2>3. p \in 1..6 /\ 6 \in 1..6 /\ \A b \in 1..(p - 1) : b \in 1..6
    <3> HIDE DEF p
    <3> QED BY <1>8
  <2> HIDE DEF p, Byte
  <2> QED BY <1>7, <2>2, <2>3
<1> QED BY <1>6, <1>8

\* Two addresses in the order of their bytes.
Before(x, y) == \E p \in 1..6 : x[p] < y[p] /\ \A b \in 1..(p - 1) : x[b] = y[b]

LEMMA BeforeTransitive ==
  ASSUME NEW x \in [1..6 -> Int], NEW y \in [1..6 -> Int], NEW z \in [1..6 -> Int],
         Before(x, y), Before(y, z)
  PROVE  Before(x, z)
<1>1. PICK p \in 1..6 : x[p] < y[p] /\ \A b \in 1..(p - 1) : x[b] = y[b] BY DEF Before
<1>2. PICK q \in 1..6 : y[q] < z[q] /\ \A b \in 1..(q - 1) : y[b] = z[b] BY DEF Before
<1>3. CASE p <= q
  <2>1. x[p] < z[p] BY <1>1, <1>2, <1>3
  <2>2. \A b \in 1..(p - 1) : x[b] = z[b] BY <1>1, <1>2, <1>3
  <2> QED BY <2>1, <2>2 DEF Before
<1>4. CASE q < p
  <2>1. x[q] = y[q] BY <1>1, <1>4
  <2>2. x[q] < z[q] BY <1>2, <2>1
  <2>3. \A b \in 1..(q - 1) : x[b] = z[b] BY <1>1, <1>2, <1>4
  <2> QED BY <2>2, <2>3 DEF Before
<1> QED BY <1>3, <1>4

\* The definition of the table has a solution, so the table is one.
LEMMA MacTableProp ==
  /\ MacTable[0] = FirstMac
  /\ \A i \in 1..TableSize : MacTable[i] = IncrMac(MacTable[i - 1])
<1> DEFINE Sol(f) == f = [i \in 0..TableSize |-> IF i = 0 THEN FirstMac ELSE IncrMac(f[i - 1])]
           G == [k \in 1..TableSize |-> [m \in Macs |-> IncrMac(m)]]
<1>1. TableSize \in Nat BY LauncherConstants
<1>2. \A m \in Macs : IncrMac(m) \in Macs
  <2> SUFFICES ASSUME NEW m \in Macs PROVE IncrMac(m) \in Macs OBVIOUS
  <2>1. CASE m.mac[6] < MaxByte BY <2>1, IncrMacStays
  <2>2. CASE ~ (m.mac[6] < MaxByte) BY <2>2, IncrMacCarries
  <2> QED BY <2>1, <2>2
<1>3. \E f : Follows(Macs, TableSize, FirstMac, G, f)
  <2>1. G \in [1..TableSize -> [Macs -> Macs]] BY <1>2
  <2> HIDE DEF G
  <2> QED BY ONLY <1>1, <2>1, FirstMacType, RecursionExists, Zenon
<1>4. \E f : Sol(f)
  <2>1. PICK f : Follows(Macs, TableSize, FirstMac, G, f) BY <1>3, Zenon
  <2>2. \A k \in 1..TableSize : f[k] = IncrMac(f[k - 1])
    <3> TAKE k \in 1..TableSize
    <3>1. f[k - 1] \in Macs BY <1>1, <2>1 DEF Follows
    <3> QED BY <2>1, <3>1 DEF Follows
  <2>3. f = [i \in 0..TableSize |-> IF i = 0 THEN FirstMac ELSE IncrMac(f[i - 1])]
    BY <1>1, <2>1, <2>2 DEF Follows
  <2> QED BY <2>3
<1>5. MacTable = CHOOSE f : Sol(f) BY Zenon DEF MacTable, FirstMac
<1>6. Sol(MacTable)
  <2> HIDE DEF Sol
  <2> QED BY <1>4, <1>5
<1> QED BY <1>1, <1>6

LEMMA Cancel ==
  ASSUME NEW m \in Nat, m > 0, NEW p \in Int, NEW q \in Int, p * m <= q * m
  PROVE  p <= q
OBVIOUS

\* The address after i increments, k of them with a carry: where the carries
\* go is where the first ones have filled the bytes behind.
MacShape(i, m, k) ==
  /\ m \in Macs /\ k \in Nat /\ m.mac[6] \in 0..MaxByte
  /\ i = k * (MaxByte + 1) + m.mac[6] /\ m.parent \in 2..5
  /\ m.parent = 5 => m.mac[5] = k /\ k <= MaxByte /\ m.mac[4] = 0
  /\ m.parent = 4 => m.mac[4] = k - MaxByte /\ k <= 2 * MaxByte
  /\ m.parent = 3 => k >= 2 * MaxByte + 1
  /\ m.parent = 2 => k >= 2 * MaxByte + 2

\* An increment within the table keeps the shape and gives a later address.
LEMMA IncrMacShape ==
  ASSUME NEW i \in Nat, i + 1 <= TableSize, NEW m, NEW k, MacShape(i, m, k)
  PROVE  Before(m.mac, IncrMac(m).mac) /\ \E l : MacShape(i + 1, IncrMac(m), l)
<1> DEFINE w == IncrMac(m)
           B1 == MaxByte + 1
<1>0. /\ MaxByte \in Nat /\ MaxByte > 0 /\ TableSize \in Nat /\ B1 \in Nat /\ B1 > 0
      /\ TableSize <= 2 * B1 * B1
  BY LauncherConstants
<1>1. /\ m \in Macs /\ k \in Nat /\ m.mac \in [1..6 -> Int] /\ m.mac[6] \in 0..MaxByte
      /\ m.parent \in 2..5 /\ i = k * B1 + m.mac[6]
  BY DEF MacShape, Macs
<1>2. CASE m.mac[6] < MaxByte
  <2>1. /\ w \in Macs /\ w.parent = m.parent /\ w.mac[6] = m.mac[6] + 1
        /\ \A b \in 1..5 : w.mac[b] = m.mac[b]
    BY <1>1, <1>2, IncrMacStays
  <2>2. Before(m.mac, w.mac)
    <3>1. m.mac[6] < w.mac[6] /\ \A b \in 1..(6 - 1) : m.mac[b] = w.mac[b] 
      <4> HIDE DEF w
      <4> QED BY <1>1, <2>1
    <3> HIDE DEF w
    <3> QED BY <3>1 DEF Before
  <2>3. i + 1 = k * B1 + w.mac[6]
    <3> HIDE DEF w, B1
    <3>1. k * B1 \in Int BY <1>0, <1>1
    <3> QED BY <1>1, <2>1, <3>1
  <2>4. MacShape(i + 1, w, k)
    <3> HIDE DEF w
    <3>1. w.mac[6] \in 0..MaxByte BY <1>0, <1>1, <1>2, <2>1
    <3>2. w.mac[5] = m.mac[5] /\ w.mac[4] = m.mac[4] BY <2>1
    <3> QED BY <1>1, <2>1, <2>3, <3>1, <3>2 DEF MacShape
  <2> QED BY <2>2, <2>4, Zenon
<1>3. CASE ~ (m.mac[6] < MaxByte)
  <2> DEFINE full == m.mac[m.parent] = MaxByte
             p    == IF full THEN m.parent - 1 ELSE m.parent
  <2>1. /\ w \in Macs /\ w.parent = p
        /\ p \in 1..5 => /\ w.mac[6] = 0 /\ w.mac[p] = m.mac[p] + 1
                         /\ \A b \in 1..(p - 1) : w.mac[b] = m.mac[b]
    BY <1>1, <1>3, IncrMacCarries
  <2>2. i + 1 = (k + 1) * B1
    <3>1. m.mac[6] = MaxByte BY <1>0, <1>1, <1>3
    <3>2. (k + 1) * B1 = k * B1 + B1
      <4> HIDE DEF B1
      <4> QED BY <1>0, <1>1
    <3>3. k * B1 \in Int BY <1>0, <1>1
    <3> QED BY <1>0, <1>1, <3>1, <3>2, <3>3
  <2>3. k + 1 <= 2 * B1
    <3>1. (k + 1) * B1 <= (2 * B1) * B1
      <4> HIDE DEF B1
      <4>1. (2 * B1) * B1 = 2 * B1 * B1 OBVIOUS
      <4>2. (2 * B1) * B1 \in Int /\ (k + 1) * B1 \in Int BY <1>0, <1>1
      <4> QED BY <1>0, <2>2, <4>1, <4>2
    <3>2. k + 1 \in Int /\ 2 * B1 \in Int BY <1>0, <1>1
    <3> HIDE DEF B1
    <3> QED BY ONLY <1>0, <3>1, <3>2, Cancel
  <2>4. m.parent \in 3..5 BY <1>0, <1>1, <2>3 DEF MacShape
  <2>5. p \in 2..5 BY <2>4
  <2>6. /\ w.mac[6] = 0 /\ w.mac[p] = m.mac[p] + 1
        /\ \A b \in 1..(p - 1) : w.mac[b] = m.mac[b]
    <3> HIDE DEF w, p
    <3> QED BY <2>1, <2>5
  <2>7. Before(m.mac, w.mac)
    <3> HIDE DEF w, p
    <3>1. p \in 1..6 /\ m.mac[p] < w.mac[p] BY <1>1, <2>5, <2>6
    <3> QED BY <2>6, <3>1 DEF Before
  <2>8. /\ p = 5 => w.mac[5] = k + 1 /\ k + 1 <= MaxByte /\ w.mac[4] = 0
        /\ p = 4 => w.mac[4] = (k + 1) - MaxByte /\ k + 1 <= 2 * MaxByte
        /\ p = 3 => k + 1 >= 2 * MaxByte + 1
        /\ p = 2 => k + 1 >= 2 * MaxByte + 2
    <3> HIDE DEF w
    <3>1. CASE m.parent = 5
      <4>1. m.mac[5] = k /\ k <= MaxByte /\ m.mac[4] = 0 BY <3>1 DEF MacShape
      <4>2. CASE full BY <1>0, <1>1, <2>6, <3>1, <4>1, <4>2
      <4>3. CASE ~ full BY <1>0, <1>1, <2>6, <3>1, <4>1, <4>3
      <4> QED BY <4>2, <4>3
    <3>2. CASE m.parent = 4
      <4>1. m.mac[4] = k - MaxByte /\ k <= 2 * MaxByte BY <3>2 DEF MacShape
      <4>2. CASE full BY <1>0, <1>1, <2>6, <3>2, <4>1, <4>2
      <4>3. CASE ~ full BY <1>0, <1>1, <2>6, <3>2, <4>1, <4>3
      <4> QED BY <4>2, <4>3
    <3>3. CASE m.parent = 3
      <4>1. k >= 2 * MaxByte + 1 BY <3>3 DEF MacShape
      <4>2. CASE full BY <1>0, <1>1, <3>3, <4>1, <4>2
      <4>3. CASE ~ full BY <1>0, <1>1, <3>3, <4>1, <4>3
      <4> QED BY <4>2, <4>3
    <3> QED BY <2>4, <3>1, <3>2, <3>3
  <2>9. MacShape(i + 1, w, k + 1)
    <3>1. i + 1 = (k + 1) * B1 + w.mac[6] /\ w.mac[6] \in 0..MaxByte /\ k + 1 \in Nat
      <4> HIDE DEF w
      <4> QED BY <1>0, <1>1, <2>2, <2>6
    <3> HIDE DEF w, p
    <3> QED BY <2>1, <2>5, <2>8, <3>1 DEF MacShape
  <2> QED BY <2>7, <2>9, Zenon
<1> QED BY <1>2, <1>3

LEMMA TableShape ==
  \A i \in 0..TableSize : \E k : MacShape(i, MacTable[i], k)
<1> DEFINE Good == {i \in Nat : i <= TableSize => \E k : MacShape(i, MacTable[i], k)}
<1>1. 0 \in Good
  <2>1. FirstMac.mac[6] = 0 /\ FirstMac.mac[5] = 0 /\ FirstMac.mac[4] = 0 /\ FirstMac.parent = 5
    BY DEF FirstMac
  <2>2. MacShape(0, FirstMac, 0) BY <2>1, FirstMacType, LauncherConstants DEF MacShape
  <2> QED BY <2>2, MacTableProp
<1>2. ASSUME NEW i \in Nat, i \in Good PROVE i + 1 \in Good
  <2> SUFFICES ASSUME i + 1 <= TableSize PROVE \E k : MacShape(i + 1, MacTable[i + 1], k)
    OBVIOUS
  <2>1. PICK k : MacShape(i, MacTable[i], k) BY <1>2, LauncherConstants
  <2>2. MacTable[i + 1] = IncrMac(MacTable[i])
    <3>1. i + 1 \in 1..TableSize /\ (i + 1) - 1 = i BY LauncherConstants
    <3> QED BY <3>1, MacTableProp
  <2> QED BY <2>1, <2>2, IncrMacShape
<1>3. \A i \in Nat : i \in Good
  <2> HIDE DEF Good
  <2> QED BY <1>1, <1>2, NatSetInduction, Zenon
<1> QED BY <1>3, LauncherConstants

\* Every address of the table comes before the later ones.
LEMMA TableOrdered ==
  ASSUME NEW i \in 0..TableSize, NEW j \in 0..TableSize, i < j
  PROVE  Before(MacTable[i].mac, MacTable[j].mac)
<1> DEFINE Good == {d \in Nat : i + (d + 1) <= TableSize =>
                                   Before(MacTable[i].mac, MacTable[i + (d + 1)].mac)}
<1>0. TableSize \in Nat /\ i \in Nat BY LauncherConstants
<1>1. ASSUME NEW l \in Nat, l + 1 <= TableSize
      PROVE  /\ MacTable[l].mac \in [1..6 -> Int] /\ MacTable[l + 1].mac \in [1..6 -> Int]
             /\ Before(MacTable[l].mac, MacTable[l + 1].mac)
  <2>1. PICK k : MacShape(l, MacTable[l], k) BY <1>0, <1>1, TableShape
  <2>2. MacTable[l + 1] = IncrMac(MacTable[l])
    <3>1. l + 1 \in 1..TableSize /\ (l + 1) - 1 = l BY <1>0, <1>1
    <3> QED BY <3>1, MacTableProp
  <2>3. \E k2 : MacShape(l + 1, MacTable[l + 1], k2) BY <1>0, <1>1, TableShape
  <2>4. MacTable[l] \in Macs /\ MacTable[l + 1] \in Macs BY <2>1, <2>3 DEF MacShape
  <2> QED BY <1>1, <2>1, <2>2, <2>4, IncrMacShape DEF Macs
<1>2. 0 \in Good BY <1>0, <1>1
<1>3. ASSUME NEW d \in Nat, d \in Good PROVE d + 1 \in Good
  <2> SUFFICES ASSUME i + ((d + 1) + 1) <= TableSize
               PROVE  Before(MacTable[i].mac, MacTable[i + ((d + 1) + 1)].mac)
    OBVIOUS
  <2> DEFINE l == i + (d + 1)
  <2>1. l \in Nat /\ l + 1 <= TableSize /\ l + 1 = i + ((d + 1) + 1) /\ i + 1 <= TableSize
    BY <1>0
  <2>2. Before(MacTable[i].mac, MacTable[l].mac) BY <1>0, <1>3, <2>1
  <2> HIDE DEF l
  <2>3. /\ MacTable[l].mac \in [1..6 -> Int] /\ MacTable[l + 1].mac \in [1..6 -> Int]
        /\ Before(MacTable[l].mac, MacTable[l + 1].mac)
    BY <1>1, <2>1
  <2>4. MacTable[i].mac \in [1..6 -> Int] BY <1>0, <1>1, <2>1
  <2>5. Before(MacTable[i].mac, MacTable[l + 1].mac)
    BY ONLY <2>2, <2>3, <2>4, BeforeTransitive, Zenon
  <2> QED BY <2>1, <2>5
<1>4. \A d \in Nat : d \in Good
  <2> HIDE DEF Good
  <2> QED BY <1>2, <1>3, NatSetInduction, Zenon
<1>5. (j - i) - 1 \in Nat /\ i + (((j - i) - 1) + 1) = j /\ j <= TableSize BY <1>0
<1>6. (j - i) - 1 \in Good
  <2> HIDE DEF Good
  <2> QED BY <1>4, <1>5
<1> QED BY <1>5, <1>6

\* No address is in the table twice.
LEMMA TableInjective ==
  ASSUME NEW i \in Nat, NEW j \in Nat, i < TableSize, j < TableSize, macaddr(i) = macaddr(j)
  PROVE  i = j
<1>1. i + 1 \in 0..TableSize /\ j + 1 \in 0..TableSize BY LauncherConstants
<1>2. \A x : x \in [1..6 -> Int] => ~ Before(x, x) BY DEF Before
<1>3. MacTable[i + 1].mac \in [1..6 -> Int] /\ MacTable[j + 1].mac \in [1..6 -> Int]
  BY <1>1, TableShape DEF MacShape, Macs
<1>4. i + 1 < j + 1 => Before(MacTable[i + 1].mac, MacTable[j + 1].mac)
  BY <1>1, TableOrdered
<1>5. j + 1 < i + 1 => Before(MacTable[j + 1].mac, MacTable[i + 1].mac)
  BY <1>1, TableOrdered
<1>6. MacTable[i + 1].mac = MacTable[j + 1].mac BY DEF macaddr
<1>7. ~ (i + 1 < j + 1) BY <1>2, <1>3, <1>4, <1>6
<1>8. ~ (j + 1 < i + 1) BY <1>2, <1>3, <1>5, <1>6
<1> QED BY <1>7, <1>8

-----------------------------------------------------------------------------
\* What is known of the machines started, f[a] being the index of the first
\* port address that is free after the a-th: the a-th machine has the a-th
\* address of the table, its ports the addresses from f[a - 1] on, and its
\* CPUs two for each port, counted from 4.
Machine(v, a, f, pin, vms, dis, tel) ==
  /\ v.mac = macaddr(a - 1)
  /\ v.ports = [j \in 1..(f[a] - f[a - 1]) |-> macaddr(f[a - 1] + j - 1)]
  /\ v.vnc = dis + (a - 1) /\ v.telnet = 8900 + (tel + (a - 1))
  /\ v.cpus = IF pin # -1 THEN (4 + 2 * (f[a - 1] - vms))..(4 + 2 * (f[a] - vms) - 1) ELSE {}

Ports(f, ss, pin, vms, next, dis, tel) ==
  /\ f \in [0..Len(ss) -> Nat] /\ f[0] = vms /\ f[Len(ss)] = next
  /\ \A a \in 1..Len(ss) : f[a - 1] <= f[a] /\ Machine(ss[a], a, f, pin, vms, dis, tel)

\* What -display and -telnet_port were.
FirstDisplay == display - Len(started)
FirstTelnet  == telnet_port - Len(started)

LaunchInv ==
  /\ num_lm \in Int /\ ports_per_lm \in Int /\ ports_lm_index \in Seq(Int)
  /\ ports_index \in Seq(Int) /\ idx_port \in Nat
  /\ started \in Seq(ToSet(started))
  /\ idx_lm = Len(started) /\ display \in Int /\ telnet_port \in Int
  /\ step # "start" /\ step # "exit" => started = <<>>
  /\ step \in {"check", "assign"} =>
       (num_lm >= 0 => idx_port = num_lm) /\ vcpu_pin_start \in {-1, 4}
  /\ step = "start" =>
       /\ Len(ports_index) = num_lm
       /\ vcpu_pin_start \in Int /\ num_lm <= idx_port
       /\ vcpu_pin_start # -1 => vcpu_pin_start = 4 + 2 * (idx_port - num_lm)
  /\ started # <<>> \/ step = "start" =>
       /\ Len(started) <= num_lm
       /\ \E f : Ports(f, started, vcpu_pin_start, num_lm, idx_port, FirstDisplay, FirstTelnet)

\* The invariant is enough: the indices of the table that the machines and
\* the ports use are apart.
LEMMA LaunchInvShares == LaunchInv => NothingShared
<1> SUFFICES ASSUME LaunchInv, NEW a \in 1..Len(started), NEW b \in 1..Len(started)
             PROVE  /\ idx_port <= TableSize =>
                         \A j \in 1..Len(MacsOf(started[a])), k \in 1..Len(MacsOf(started[b])) :
                           MacsOf(started[a])[j] = MacsOf(started[b])[k] => a = b /\ j = k
                    /\ a # b =>
                         /\ started[a].vnc # started[b].vnc /\ started[a].telnet # started[b].telnet
                         /\ started[a].cpus \cap started[b].cpus = {}
  BY DEF NothingShared
<1> DEFINE n == Len(started)
<1>1. n \in Nat /\ started # <<>> /\ n <= num_lm /\ num_lm \in Nat /\ idx_port \in Nat
  BY DEF LaunchInv
<1>2. PICK f : Ports(f, started, vcpu_pin_start, num_lm, idx_port, FirstDisplay, FirstTelnet)
  BY <1>1 DEF LaunchInv
<1>3. /\ f \in [0..n -> Nat] /\ f[0] = num_lm /\ f[n] = idx_port
      /\ \A i \in 1..n : f[i - 1] <= f[i]
  BY <1>2 DEF Ports
<1>4. /\ Machine(started[a], a, f, vcpu_pin_start, num_lm, FirstDisplay, FirstTelnet)
      /\ Machine(started[b], b, f, vcpu_pin_start, num_lm, FirstDisplay, FirstTelnet)
  BY <1>2 DEF Ports
<1>5. \A i, j \in 0..n : i <= j => f[i] <= f[j]
  <2> HIDE DEF n
  <2> QED BY ONLY <1>1, <1>3, StartsMonotone, Zenon
<1>6. a \in 1..n /\ b \in 1..n /\ a - 1 \in 0..n /\ b - 1 \in 0..n BY <1>1
<1> HIDE DEF n
\* Which entry of the table an interface has.
<1> DEFINE Entry(i, j) == IF j = 1 THEN i - 1 ELSE f[i - 1] + (j - 2)
<1>7. ASSUME NEW i \in 1..n,
             Machine(started[i], i, f, vcpu_pin_start, num_lm, FirstDisplay, FirstTelnet),
             NEW j \in 1..Len(MacsOf(started[i]))
      PROVE  /\ MacsOf(started[i])[j] = macaddr(Entry(i, j)) /\ Entry(i, j) \in Nat
             /\ Entry(i, j) < idx_port /\ j \in Nat
             /\ j = 1 => Entry(i, j) < num_lm
             /\ j # 1 => Entry(i, j) >= f[i - 1] /\ Entry(i, j) < f[i] /\ f[i - 1] >= num_lm
  <2> DEFINE c == f[i] - f[i - 1]
  <2>1. /\ i - 1 \in 0..n /\ i \in 0..n /\ f[i] \in Nat /\ f[i - 1] \in Nat /\ f[i - 1] <= f[i]
        /\ f[0] <= f[i - 1] /\ f[i] <= f[n] /\ c \in Nat
    BY <1>1, <1>3, <1>5
  <2> DEFINE ps == [l \in 1..c |-> macaddr(f[i - 1] + l - 1)]
             T == {macaddr(f[i - 1] + l - 1) : l \in 1..c}
  <2>2. ps \in Seq(T) /\ Len(ps) = c
    <3>1. c \in Nat BY <2>1
    <3> HIDE DEF c
    <3>2. ps \in [1..c -> T] OBVIOUS
    <3> HIDE DEF ps, T
    <3> QED BY <3>1, <3>2
  <2>3. MacsOf(started[i]) = <<macaddr(i - 1)>> \o ps BY <1>7 DEF MacsOf, Machine
  <2>4. \A l \in 1..c : ps[l] = macaddr(f[i - 1] + l - 1) OBVIOUS
  <2> HIDE DEF ps, c, T
  <2> DEFINE q == <<macaddr(i - 1)>>
  <2>6. Len(q \o ps) = 1 + c /\ (q \o ps)[1] = macaddr(i - 1)
        /\ \A l \in 1..c : (q \o ps)[1 + l] = ps[l]
    <3>1. /\ Len(q \o ps) = 1 + Len(ps) /\ (q \o ps)[1] = macaddr(i - 1)
          /\ \A l \in 1..Len(ps) : (q \o ps)[1 + l] = ps[l]
      BY <2>2, ConsFacts
    <3> HIDE DEF q
    <3> QED BY <2>2, <3>1
  <2>7. j \in 1..(1 + c) BY <2>3, <2>6
  <2>8. CASE j = 1 BY <1>1, <1>3, <2>1, <2>3, <2>6, <2>8
  <2>9. CASE j # 1
    <3>1. j \in 2..(1 + c) /\ j - 1 \in 1..c /\ 1 + (j - 1) = j BY <2>1, <2>7, <2>9
    <3>2. f[i - 1] + (j - 1) - 1 = f[i - 1] + (j - 2) BY <2>1, <3>1
    <3>3. MacsOf(started[i])[j] = macaddr(f[i - 1] + (j - 2)) BY <2>3, <2>4, <2>6, <3>1, <3>2
    <3>4. Entry(i, j) = f[i - 1] + (j - 2) BY <2>9
    <3>5. j - 1 <= f[i] - f[i - 1] /\ j >= 2 /\ j \in Nat BY <3>1 DEF c
    <3> HIDE DEF Entry
    <3>6. f[n] = idx_port /\ f[0] = num_lm BY <1>3
    <3>7. /\ Entry(i, j) \in Nat /\ Entry(i, j) < f[i] /\ Entry(i, j) >= f[i - 1]
      BY ONLY <2>1, <3>4, <3>5, SMTT(30)
    <3>8. Entry(i, j) < idx_port /\ f[i - 1] >= num_lm BY <1>1, <2>1, <3>6, <3>7
    <3> QED BY <2>9, <3>3, <3>4, <3>5, <3>7, <3>8
  <2> QED BY <2>8, <2>9
<1>8. ASSUME idx_port <= TableSize, NEW j \in 1..Len(MacsOf(started[a])),
             NEW k \in 1..Len(MacsOf(started[b])), MacsOf(started[a])[j] = MacsOf(started[b])[k]
      PROVE  a = b /\ j = k
  <2>1. /\ MacsOf(started[a])[j] = macaddr(Entry(a, j)) /\ Entry(a, j) \in Nat
        /\ Entry(a, j) < idx_port /\ j \in Nat
        /\ j = 1 => Entry(a, j) < num_lm
        /\ j # 1 => Entry(a, j) >= f[a - 1] /\ Entry(a, j) < f[a] /\ f[a - 1] >= num_lm
    BY <1>4, <1>6, <1>7
  <2>2. /\ MacsOf(started[b])[k] = macaddr(Entry(b, k)) /\ Entry(b, k) \in Nat
        /\ Entry(b, k) < idx_port /\ k \in Nat
        /\ k = 1 => Entry(b, k) < num_lm
        /\ k # 1 => Entry(b, k) >= f[b - 1] /\ Entry(b, k) < f[b] /\ f[b - 1] >= num_lm
    BY <1>4, <1>6, <1>7
  <2>3. Entry(a, j) = Entry(b, k)
    <3> DEFINE x == Entry(a, j)
               y == Entry(b, k)
    <3>1. x \in Nat /\ y \in Nat /\ x < TableSize /\ y < TableSize /\ macaddr(x) = macaddr(y)
      <4> HIDE DEF Entry
      <4>1. x \in Nat /\ y \in Nat /\ x < idx_port /\ y < idx_port BY <2>1, <2>2
      <4>2. macaddr(x) = macaddr(y) BY <1>8, <2>1, <2>2
      <4> HIDE DEF x, y
      <4> QED BY <1>1, <1>8, <4>1, <4>2, LauncherConstants
    <3> HIDE DEF x, y
    <3>2. x = y BY <3>1, TableInjective
    <3> QED BY <3>2 DEF x, y
  <2>4. /\ f[a] \in Nat /\ f[b] \in Nat /\ f[a - 1] \in Nat /\ f[b - 1] \in Nat
        /\ a < b => f[a] <= f[b - 1]
        /\ b < a => f[b] <= f[a - 1]
    <3>1. a \in 0..n /\ b \in 0..n /\ (a < b => a <= b - 1) /\ (b < a => b <= a - 1)
      BY ONLY <1>1, <1>6
    <3> QED BY ONLY <1>3, <1>5, <1>6, <3>1
  <2>5. CASE j = 1
    <3>1. Entry(a, j) = a - 1 BY <2>5
    <3>2. k = 1
      <4> HIDE DEF Entry
      <4> QED BY <1>1, <2>1, <2>2, <2>3, <2>4, <2>5
    <3>3. Entry(b, k) = b - 1 BY <3>2
    <3> HIDE DEF Entry
    <3> QED BY <1>6, <2>3, <2>5, <3>1, <3>2, <3>3
  <2>6. CASE j # 1
    <3>1. Entry(a, j) = f[a - 1] + (j - 2) BY <2>6
    <3>2. k # 1
      <4> HIDE DEF Entry
      <4> QED BY <1>1, <2>1, <2>2, <2>3, <2>4, <2>6
    <3>3. Entry(b, k) = f[b - 1] + (k - 2) BY <3>2
    <3> HIDE DEF Entry
    <3>4. a = b BY <1>6, <2>1, <2>2, <2>3, <2>4, <2>6, <3>2, SMTT(30)
    <3>5. f[a - 1] + (j - 2) = f[a - 1] + (k - 2) BY <2>3, <3>1, <3>3, <3>4
    <3> QED BY ONLY <2>1, <2>2, <2>4, <3>4, <3>5
  <2> QED BY <2>5, <2>6
<1>9. ASSUME a # b
      PROVE  /\ started[a].vnc # started[b].vnc /\ started[a].telnet # started[b].telnet
             /\ started[a].cpus \cap started[b].cpus = {}
  <2>1. started[a].vnc # started[b].vnc /\ started[a].telnet # started[b].telnet
    <3> DEFINE fd == FirstDisplay
               ft == FirstTelnet
    <3>1. /\ started[a].vnc = fd + (a - 1) /\ started[a].telnet = 8900 + (ft + (a - 1))
          /\ started[b].vnc = fd + (b - 1) /\ started[b].telnet = 8900 + (ft + (b - 1))
      BY <1>4 DEF Machine
    <3>2. fd \in Int /\ ft \in Int BY DEF LaunchInv, FirstDisplay, FirstTelnet
    <3> HIDE DEF fd, ft
    <3>3. a \in Int /\ b \in Int BY <1>6
    <3>4. /\ fd + (a - 1) # fd + (b - 1)
          /\ 8900 + (ft + (a - 1)) # 8900 + (ft + (b - 1))
      BY ONLY <1>9, <3>2, <3>3
    <3> QED BY ONLY <3>1, <3>4
  <2>2. /\ f[a] \in Nat /\ f[b] \in Nat /\ f[a - 1] \in Nat /\ f[b - 1] \in Nat
        /\ a < b => f[a] <= f[b - 1]
        /\ b < a => f[b] <= f[a - 1]
    <3>1. a \in 0..n /\ b \in 0..n /\ (a < b => a <= b - 1) /\ (b < a => b <= a - 1)
      BY ONLY <1>1, <1>6
    <3> QED BY ONLY <1>3, <1>5, <1>6, <3>1
  <2>3. a < b \/ b < a BY <1>6, <1>9
  <2>4. CASE ~ (vcpu_pin_start # -1)
    <3>1. started[a].cpus = {} BY <1>4, <2>4 DEF Machine
    <3> QED BY <2>1, <3>1
  <2>5. CASE vcpu_pin_start # -1
    <3>1. /\ started[a].cpus = (4 + 2 * (f[a - 1] - num_lm))..(4 + 2 * (f[a] - num_lm) - 1)
          /\ started[b].cpus = (4 + 2 * (f[b - 1] - num_lm))..(4 + 2 * (f[b] - num_lm) - 1)
      BY <1>4, <2>5 DEF Machine
    <3>2. ASSUME NEW l \in Nat, NEW m \in Nat, NEW p \in Nat, NEW q \in Nat, m <= p \/ q <= l
          PROVE  ((4 + 2 * (l - num_lm))..(4 + 2 * (m - num_lm) - 1))
                   \cap ((4 + 2 * (p - num_lm))..(4 + 2 * (q - num_lm) - 1)) = {}
      BY <1>1, <3>2
    <3>3. f[a] <= f[b - 1] \/ f[b] <= f[a - 1] BY <2>2, <2>3
    <3> QED BY <2>1, <2>2, <3>1, <3>2, <3>3
  <2> QED BY <2>1, <2>4, <2>5
<1> QED BY <1>8, <1>9

LEMMA LaunchInitInv == LaunchInit => LaunchInv
<1> SUFFICES ASSUME LaunchInit PROVE LaunchInv OBVIOUS
<1>1. started = <<>> /\ <<>> \in Seq(ToSet(<<>>)) /\ Len(<<>>) = 0 /\ <<>> \in Seq(Int)
  BY DEF LaunchInit
<1> QED BY <1>1 DEF LaunchInit, LaunchInv

LEMMA SeqOfIsSeq ==
  ASSUME NEW S, NEW n \in Nat, NEW s \in SeqOf(S, n)
  PROVE  s \in Seq(S) /\ Len(s) <= n
<1>1. PICK m \in 0..n : s \in [1..m -> S] BY DEF SeqOf
<1> QED BY <1>1

\* One more machine.
LEMMA StartVMInv == LaunchInv /\ StartVM => LaunchInv'
<1> SUFFICES ASSUME LaunchInv, StartVM PROVE LaunchInv' OBVIOUS
<1> DEFINE n == Len(started)
           i == n + 1
           c == IF ports_index[i] < 0 THEN 0 ELSE ports_index[i]
           v == [mac   |-> macaddr(idx_lm),
                 ports |-> [j \in 1..c |-> macaddr(idx_port + j - 1)],
                 vnc   |-> display, telnet |-> 8900 + telnet_port,
                 cpus  |-> IF vcpu_pin_start = -1 THEN {}
                           ELSE vcpu_pin_start..(vcpu_pin_start + 2 * c - 1)]
<1>1. /\ step = "start" /\ n < num_lm /\ started' = Append(started, v)
      /\ idx_port' = idx_port + c
      /\ vcpu_pin_start' = IF vcpu_pin_start = -1 THEN -1 ELSE vcpu_pin_start + 2 * c
      /\ idx_lm' = idx_lm + 1 /\ display' = display + 1 /\ telnet_port' = telnet_port + 1
      /\ UNCHANGED <<step, num_lm, ports_per_lm, ports_lm_index, ports_index>>
  BY DEF StartVM, optionVars
<1>2. /\ n \in Nat /\ num_lm \in Int /\ idx_port \in Nat /\ idx_lm = n
      /\ display \in Int /\ telnet_port \in Int /\ num_lm <= idx_port
      /\ vcpu_pin_start \in Int /\ Len(ports_index) = num_lm /\ ports_index \in Seq(Int)
      /\ vcpu_pin_start # -1 => vcpu_pin_start = 4 + 2 * (idx_port - num_lm)
  BY <1>1 DEF LaunchInv
<1>3. c \in Nat
  <2>1. ports_index[i] \in Int BY <1>1, <1>2
  <2> QED BY <2>1
<1>4. started' \in Seq(ToSet(started')) /\ Len(started') = n + 1 /\ started'[n + 1] = v
      /\ \A a \in 1..n : started'[a] = started[a]
  <2> HIDE DEF v
  <2> DEFINE A == ToSet(started) \cup {v}
  <2>1. started \in Seq(ToSet(started)) BY DEF LaunchInv
  <2>2. started \in Seq(A) /\ v \in A
    <3>1. ToSet(started) \subseteq A OBVIOUS
    <3> HIDE DEF A
    <3>2. \A a \in 1..n : started[a] \in A BY <2>1, <3>1
    <3> QED BY <2>1, <3>1, <3>2 DEF A
  <2> HIDE DEF A
  <2>3. /\ started' \in Seq(A) /\ Len(started') = n + 1 /\ started'[n + 1] = v
        /\ \A a \in 1..n : started'[a] = started[a]
    BY <1>1, <2>2
  <2>4. \A a \in 1..(n + 1) : started'[a] \in ToSet(started') BY <2>3 DEF ToSet
  <2> QED BY <1>2, <2>3, <2>4
<1>20. FirstDisplay' = FirstDisplay /\ FirstTelnet' = FirstTelnet
  <2> HIDE DEF c, v, n
  <2>1. Len(started') = n + 1 /\ Len(started) = n BY <1>4 DEF n
  <2> QED BY <1>1, <1>2, <2>1 DEF FirstDisplay, FirstTelnet
<1>5. PICK f : Ports(f, started, vcpu_pin_start, num_lm, idx_port, FirstDisplay, FirstTelnet)
  BY <1>1 DEF LaunchInv
<1>6. /\ f \in [0..n -> Nat] /\ f[0] = num_lm /\ f[n] = idx_port
      /\ \A a \in 1..n : f[a - 1] <= f[a] /\ Machine(started[a], a, f, vcpu_pin_start, num_lm, FirstDisplay, FirstTelnet)
  BY <1>5 DEF Ports
<1> DEFINE g == [a \in 0..(n + 1) |-> IF a <= n THEN f[a] ELSE idx_port + c]
<1>7. /\ g \in [0..(n + 1) -> Nat] /\ g[0] = num_lm /\ g[n + 1] = idx_port + c /\ g[n] = idx_port
      /\ \A a \in 0..n : g[a] = f[a]
  <2> HIDE DEF c
  <2>1. \A a \in 0..n : f[a] \in Nat BY <1>2, <1>6
  <2> QED BY <1>2, <1>3, <1>6, <2>1
<1> HIDE DEF g
<1> DEFINE M(a) == Machine(started'[a], a, g, vcpu_pin_start', num_lm, FirstDisplay', FirstTelnet')
<1>8. ASSUME NEW a \in 1..n PROVE g[a - 1] <= g[a] /\ M(a)
  <2>1. a - 1 \in 0..n /\ a \in 0..n BY <1>2
  <2>2. g[a - 1] = f[a - 1] /\ g[a] = f[a] BY <1>7, <2>1
  <2>3. started'[a] = started[a] BY <1>4
  <2>4. Machine(started[a], a, f, vcpu_pin_start, num_lm, FirstDisplay, FirstTelnet) /\ f[a - 1] <= f[a] BY <1>6
  <2>5. (vcpu_pin_start # -1) = (vcpu_pin_start' # -1)
    <3> HIDE DEF c
    <3> QED BY <1>1, <1>2, <1>3, SMTT(30)
  <2> QED BY ONLY <1>20, <2>2, <2>3, <2>4, <2>5 DEF Machine
<1>9. g[(n + 1) - 1] <= g[n + 1] /\ M(n + 1)
  <2>1. (n + 1) - 1 = n BY <1>2
  <2>2. g[(n + 1) - 1] = idx_port /\ g[n + 1] = idx_port + c BY <1>7, <2>1
  <2>3. /\ started'[n + 1].mac = macaddr(idx_lm) /\ started'[n + 1].vnc = display
        /\ started'[n + 1].telnet = 8900 + telnet_port
        /\ started'[n + 1].ports = [j \in 1..c |-> macaddr(idx_port + j - 1)]
        /\ started'[n + 1].cpus = IF vcpu_pin_start = -1 THEN {}
                                  ELSE vcpu_pin_start..(vcpu_pin_start + 2 * c - 1)
    <3> HIDE DEF c
    <3> QED BY <1>4
  <2> HIDE DEF c
  <2>4. started'[n + 1].mac = macaddr((n + 1) - 1) BY <1>2, <2>1, <2>3
  <2>5. c = g[n + 1] - g[(n + 1) - 1] BY <1>2, <1>3, <2>2
  <2>6. started'[n + 1].ports = [j \in 1..(g[n + 1] - g[(n + 1) - 1]) |->
                                 macaddr(g[(n + 1) - 1] + j - 1)]
    BY ONLY <2>2, <2>3, <2>5
  <2>7. /\ started'[n + 1].vnc = FirstDisplay' + ((n + 1) - 1)
        /\ started'[n + 1].telnet = 8900 + (FirstTelnet' + ((n + 1) - 1))
    <3>1. FirstDisplay' = display - n /\ FirstTelnet' = telnet_port - n
      BY <1>20 DEF FirstDisplay, FirstTelnet
    <3> HIDE DEF n
    <3> QED BY <1>2, <2>1, <2>3, <3>1
  <2>8. started'[n + 1].cpus =
          IF vcpu_pin_start' # -1
          THEN (4 + 2 * (g[(n + 1) - 1] - num_lm))..(4 + 2 * (g[n + 1] - num_lm) - 1) ELSE {}
    <3>1. CASE vcpu_pin_start = -1 BY <1>1, <2>3, <3>1
    <3>2. CASE vcpu_pin_start # -1
      <4>1. vcpu_pin_start = 4 + 2 * (idx_port - num_lm) BY <1>2, <3>2
      <4>2. vcpu_pin_start + 2 * c - 1 = 4 + 2 * ((idx_port + c) - num_lm) - 1 BY <1>2, <1>3, <4>1
      <4>3. vcpu_pin_start' # -1 BY <1>1, <1>2, <1>3, <3>2, <4>1
      <4>4. started'[n + 1].cpus = vcpu_pin_start..(vcpu_pin_start + 2 * c - 1) BY <2>3, <3>2
      <4> QED BY <2>2, <4>1, <4>2, <4>3, <4>4
    <3> QED BY <3>1, <3>2
  <2>9. g[(n + 1) - 1] <= g[n + 1] BY <1>2, <1>3, <2>2
  <2> QED BY <2>4, <2>6, <2>7, <2>8, <2>9 DEF Machine
<1>10. Ports(g, started', vcpu_pin_start', num_lm', idx_port', FirstDisplay', FirstTelnet')
  <2>1. \A a \in 1..(n + 1) : g[a - 1] <= g[a] /\ M(a)
    <3> HIDE DEF M, n
    <3> TAKE a \in 1..(n + 1)
    <3>1. a \in 1..n \/ a = n + 1 BY <1>2
    <3> QED BY <1>8, <1>9, <3>1
  <2>2. num_lm' = num_lm /\ idx_port' = idx_port + c BY <1>1
  <2> HIDE DEF c, v
  <2> QED BY <1>4, <1>7, <2>1, <2>2 DEF Ports
<1> HIDE DEF c, v
<1>11. /\ idx_port' \in Nat /\ num_lm <= idx_port' /\ vcpu_pin_start' \in Int
       /\ vcpu_pin_start' # -1 => vcpu_pin_start' = 4 + 2 * (idx_port' - num_lm)
  BY <1>1, <1>2, <1>3
<1>12. /\ idx_lm' = n + 1 /\ display' \in Int /\ telnet_port' \in Int
       /\ n + 1 <= num_lm
  BY <1>1, <1>2
<1>13. \E h : Ports(h, started', vcpu_pin_start', num_lm', idx_port', FirstDisplay', FirstTelnet') BY <1>10
<1>14. /\ step' = "start" /\ num_lm' = num_lm /\ ports_per_lm' = ports_per_lm
       /\ ports_lm_index' = ports_lm_index /\ ports_index' = ports_index
  BY <1>1
<1>15. /\ num_lm \in Int /\ ports_per_lm \in Int /\ ports_lm_index \in Seq(Int)
       /\ ports_index \in Seq(Int) /\ Len(ports_index) = num_lm
  BY <1>1 DEF LaunchInv
<1>16. started' \in Seq(ToSet(started')) /\ Len(started') = n + 1 BY <1>4
<1>17. /\ idx_lm' = Len(started') /\ display' \in Int /\ telnet_port' \in Int
       /\ Len(started') <= num_lm
  BY ONLY <1>12, <1>16
<1>18. /\ vcpu_pin_start' # -1 => vcpu_pin_start' = 4 + 2 * (idx_port' - num_lm')
       /\ idx_port' \in Nat /\ num_lm' <= idx_port' /\ vcpu_pin_start' \in Int
  BY <1>11, <1>14
<1> QED BY ONLY <1>13, <1>14, <1>15, <1>16, <1>17, <1>18 DEF LaunchInv

LEMMA LaunchNextInv == LaunchInv /\ [LaunchNext]_launchVars => LaunchInv'
<1> SUFFICES ASSUME LaunchInv, [LaunchNext]_launchVars PROVE LaunchInv'
  OBVIOUS
<1>1. CASE Options
  <2>1. MaxVMs \in Nat /\ MaxPorts \in Nat BY LauncherAssumption
  <2>2. /\ step' = "check" /\ num_lm' \in Int /\ ports_per_lm' \in Int
        /\ vcpu_pin_start' \in {-1, 4} /\ idx_port' \in Nat
        /\ num_lm' >= 0 => idx_port' = num_lm'
        /\ display' \in Int /\ telnet_port' \in Int
        /\ UNCHANGED <<idx_lm, ports_index, started>>
    BY <1>1, LauncherAssumption DEF Options
  <2>3. ports_lm_index' \in Seq(Int)
    <3>1. ports_lm_index' \in SeqOf(0..MaxPorts, MaxVMs) BY <1>1 DEF Options
    <3>2. ports_lm_index' \in Seq(0..MaxPorts) BY ONLY <2>1, <3>1, SeqOfIsSeq, Zenon
    <3>3. \A i \in 1..Len(ports_lm_index') : ports_lm_index'[i] \in Int BY <2>1, <3>2
    <3> QED BY <3>2, <3>3
  <2>4. started = <<>> /\ Len(started) = Len(<<>>) BY <1>1 DEF Options, LaunchInv
  <2> QED BY <2>2, <2>3, <2>4 DEF LaunchInv
<1>2. CASE CheckOptions
  <2>1. /\ step = "check" /\ step' \in {"exit", "assign"}
        /\ UNCHANGED <<num_lm, ports_per_lm, ports_lm_index, ports_index, started, idx_lm,
                       idx_port, display, telnet_port, vcpu_pin_start>>
    BY <1>2 DEF CheckOptions, optionVars, counters
  <2> QED BY <2>1 DEF LaunchInv, FirstDisplay, FirstTelnet
<1>3. CASE AssignPorts
  <2>1. /\ step = "assign" /\ step' \in {"exit", "start"}
        /\ step' = "start" => Len(ports_index') = num_lm
        /\ UNCHANGED <<num_lm, ports_per_lm, ports_lm_index, started, idx_lm,
                       idx_port, display, telnet_port, vcpu_pin_start>>
    BY <1>3 DEF AssignPorts, optionVars, counters
  <2>2. ports_index' \in Seq(Int)
    <3> DEFINE c == IF num_lm < 0 THEN 0 ELSE num_lm
    <3>1. c \in Nat /\ ports_per_lm \in Int BY DEF LaunchInv
    <3>2. ports_index' = IF ports_lm_index # <<>> THEN ports_lm_index
                         ELSE [i \in 1..c |-> ports_per_lm]
      BY <1>3 DEF AssignPorts
    <3> HIDE DEF c
    <3>3. [i \in 1..c |-> ports_per_lm] \in Seq(Int) BY <3>1
    <3>4. ports_lm_index \in Seq(Int) BY DEF LaunchInv
    <3> QED BY <3>2, <3>3, <3>4
  <2>3. started = <<>> /\ Len(started) = 0 BY <2>1 DEF LaunchInv
  <2>4. ASSUME step' = "start"
        PROVE  num_lm \in Nat /\ idx_port = num_lm /\ vcpu_pin_start \in {-1, 4}
    BY <2>1, <2>2, <2>4 DEF LaunchInv
  <2>5. ASSUME step' = "start" PROVE \E f : Ports(f, started', vcpu_pin_start', num_lm', idx_port', FirstDisplay', FirstTelnet')
    <3> DEFINE f == [a \in 0..0 |-> num_lm]
    <3>1. f \in [0..0 -> Nat] /\ f[0] = num_lm BY <2>4, <2>5
    <3> HIDE DEF f
    <3>2. Ports(f, <<>>, vcpu_pin_start, num_lm, idx_port, FirstDisplay', FirstTelnet')
      BY <2>3, <2>4, <2>5, <3>1 DEF Ports
    <3> QED BY <2>1, <2>3, <3>2
  <2>6. /\ num_lm \in Int /\ ports_per_lm \in Int /\ ports_lm_index \in Seq(Int)
        /\ idx_port \in Nat /\ started \in Seq(ToSet(started))
        /\ idx_lm = Len(started) /\ display \in Int /\ telnet_port \in Int
    BY DEF LaunchInv
  <2>7. CASE step' = "start"
    <3>1. /\ Len(ports_index') = num_lm /\ num_lm \in Nat /\ idx_port = num_lm
          /\ vcpu_pin_start \in {-1, 4}
      BY <2>1, <2>4, <2>7
    <3>2. /\ vcpu_pin_start \in Int /\ num_lm <= idx_port
          /\ vcpu_pin_start # -1 => vcpu_pin_start = 4 + 2 * (idx_port - num_lm)
      BY <3>1
    <3> QED BY ONLY <2>1, <2>2, <2>3, <2>5, <2>6, <2>7, <3>1, <3>2 DEF LaunchInv
  <2>8. CASE step' = "exit" BY <2>1, <2>2, <2>3, <2>6, <2>8 DEF LaunchInv
  <2> QED BY <2>1, <2>7, <2>8
<1>4. CASE StartVM BY <1>4, StartVMInv
<1>5. CASE LaunchEnd \/ Usage \/ UNCHANGED launchVars
  <2>1. /\ step' = step \/ (step \in {"options", "start"} /\ step' = "exit")
        /\ UNCHANGED <<num_lm, ports_per_lm, ports_lm_index, ports_index, started, idx_lm,
                       idx_port, display, telnet_port, vcpu_pin_start>>
    BY <1>5 DEF LaunchEnd, Usage, launchVars, optionVars, counters
  <2> QED BY <2>1 DEF LaunchInv, FirstDisplay, FirstTelnet
<1> QED BY <1>1, <1>2, <1>3, <1>4, <1>5 DEF LaunchNext

\* However many machines and ports the options ask for, and whatever the size of
\* a table whose carries stay clear of the first byte, no two interfaces share a
\* MAC address as long as the table lasts, and no two machines a display, a
\* telnet port or a CPU.
THEOREM NothingEverShared == LaunchSpec => []NothingShared
<1> QED BY LaunchInitInv, LaunchNextInv, LaunchInvShares, PTL DEF LaunchSpec

-----------------------------------------------------------------------------
(*****************************************************************************)
(* Sniffer.                                                                  *)
(*****************************************************************************)
LEMMA SnifferConstants ==
  /\ Width \in Nat /\ Width > 0 /\ Capacity \in Nat /\ Capacity > 0
  /\ SnapLen \in Nat /\ MaxLen \in Nat /\ NumPackets \in Nat
  /\ \A c \in Cells : c.n \in 0..Capacity /\ c.p \in {"tcp", "udp", "icmp", "other"}
BY SnifferAssumption

\* n offsets from o on, as one line and as both halves of one, and a run of
\* full lines.
Line(o, n) == [j \in 1..n |-> o + j - 1]
Both(o, n) == <<Line(o, n), Line(o, n)>>
FullLines(o, q) == [l \in 1..q |-> Both(o + (l - 1) * Width, Width)]
Rows == Seq(Int) \X Seq(Int)

LEMMA LineType ==
  ASSUME NEW o \in Int, NEW n \in Nat
  PROVE  /\ Line(o, n) \in Seq(Int) /\ Len(Line(o, n)) = n
         /\ \A j \in 1..n : Line(o, n)[j] = o + j - 1
         /\ Both(o, n) \in Rows
<1>1. Line(o, n) \in [1..n -> Int] BY DEF Line
<1>2. Line(o, n) \in Seq(Int) /\ Len(Line(o, n)) = n BY <1>1
<1>3. \A j \in 1..n : Line(o, n)[j] = o + j - 1 BY DEF Line
<1> QED BY <1>2, <1>3 DEF Both, Rows

LEMMA FullLinesType ==
  ASSUME NEW o \in Int, NEW q \in Nat
  PROVE  /\ FullLines(o, q) \in Seq(Rows) /\ Len(FullLines(o, q)) = q
         /\ \A l \in 1..q : FullLines(o, q)[l] = Both(o + (l - 1) * Width, Width)
<1>1. ASSUME NEW l \in 1..q PROVE Both(o + (l - 1) * Width, Width) \in Rows
  <2>1. (l - 1) * Width \in Int BY SnifferConstants
  <2>2. o + (l - 1) * Width \in Int BY <2>1
  <2> QED BY <2>2, SnifferConstants, LineType
<1>2. FullLines(o, q) \in [1..q -> Rows] BY <1>1 DEF FullLines
<1>3. FullLines(o, q) \in Seq(Rows) /\ Len(FullLines(o, q)) = q BY <1>2
<1> QED BY <1>3 DEF FullLines

\* One more line.
LEMMA FullLinesNext ==
  ASSUME NEW o \in Int, NEW q \in Nat
  PROVE  FullLines(o, q + 1) = Append(FullLines(o, q), Both(o + q * Width, Width))
<1> DEFINE s == FullLines(o, q)
           e == Both(o + q * Width, Width)
           t == FullLines(o, q + 1)
<1>1. s \in Seq(Rows) /\ Len(s) = q /\ \A l \in 1..q : s[l] = Both(o + (l - 1) * Width, Width)
  BY FullLinesType
<1>2. /\ t \in Seq(Rows) /\ Len(t) = q + 1
      /\ \A l \in 1..(q + 1) : t[l] = Both(o + (l - 1) * Width, Width)
  <2>1. q + 1 \in Nat OBVIOUS
  <2> QED BY ONLY o \in Int, <2>1, FullLinesType
<1>3. e \in Rows
  <2>1. q * Width \in Int BY SnifferConstants
  <2>2. o + q * Width \in Int BY <2>1
  <2> QED BY <2>2, SnifferConstants, LineType
<1>4. t[q + 1] = e
  <2>1. (q + 1) - 1 = q /\ q + 1 \in 1..(q + 1) OBVIOUS
  <2> QED BY <1>2, <2>1
<1>5. \A l \in 1..q : t[l] = s[l]
  <2> HIDE DEF s, t
  <2> QED BY <1>1, <1>2
<1> HIDE DEF s, e, t
<1>6. t = Append(s, e) BY <1>1, <1>2, <1>3, <1>4, <1>5
<1> QED BY <1>6 DEF s, e, t

\* What Lines is, in full lines and a last one.
LEMMA LinesSplit ==
  ASSUME NEW o \in Int, NEW q \in Nat, NEW r \in 0..(Width - 1), NEW n \in Int,
         n = q * Width + r + 1
  PROVE  Lines(o, n) = Append(FullLines(o, q), Both(o + q * Width, r + 1))
<1> DEFINE z == q * Width
           cnt0 == (n + Width - 1) \div Width
           Row(l) == LET line == [j \in 1..Min({Width, n - (l - 1) * Width}) |->
                                   o + (l - 1) * Width + j - 1]
                     IN  <<line, line>>
<1>0. Width \in Nat /\ Width > 0 BY SnifferConstants
<1>1. z \in Nat /\ n = z + r + 1 BY <1>0
<1>2. cnt0 = q + 1
  <2>1. n + Width - 1 = (q + 1) * Width + r
    <3>1. (q + 1) * Width = z + Width BY <1>0
    <3> HIDE DEF z
    <3> QED BY <1>0, <1>1, <3>1
  <2>2. ASSUME NEW p \in Int, NEW x \in Int, x = p * Width + r PROVE x \div Width = p
    BY <1>0, <2>2
  <2>3. q + 1 \in Int /\ n + Width - 1 \in Int BY <1>0
  <2> QED BY ONLY <2>1, <2>2, <2>3
<1>3. ASSUME NEW l \in 1..q PROVE Row(l) = Both(o + (l - 1) * Width, Width)
  <2> DEFINE y == (l - 1) * Width
  <2>1. y \in Int /\ y + Width <= z
    <3>1. y + Width = l * Width BY <1>0
    <3>2. ASSUME NEW u \in Nat, NEW v \in Nat, u <= v PROVE u * Width <= v * Width
      BY <1>0, <3>2
    <3>3. l * Width <= q * Width BY <3>2
    <3>4. y \in Int BY <1>0
    <3> QED BY <3>1, <3>3, <3>4
  <2> HIDE DEF y
  <2>2. n - y \in Int /\ n - y > Width
    <3> HIDE DEF z
    <3> QED BY <1>0, <1>1, <2>1
  <2>3. Min({Width, n - y}) = Width
    <3>1. /\ Min({Width, n - y}) \in {Width, n - y} /\ Min({Width, n - y}) <= Width
          /\ Min({Width, n - y}) \in Int
      BY <1>0, <2>2, Min2
    <3> QED BY <1>0, <2>2, <3>1
  <2>4. Row(l) = LET line == [j \in 1..Min({Width, n - y}) |-> o + y + j - 1] IN <<line, line>>
    BY DEF y
  <2> HIDE DEF Row
  <2> QED BY <2>3, <2>4 DEF Both, Line, y
<1>4. Row(q + 1) = Both(o + z, r + 1)
  <2>1. ((q + 1) - 1) * Width = z OBVIOUS
  <2>2. n - z = r + 1
    <3> HIDE DEF z
    <3> QED BY <1>1
  <2>3. Min({Width, r + 1}) = r + 1
    <3>1. r + 1 \in Int /\ r + 1 <= Width BY <1>0
    <3>2. Min({Width, r + 1}) \in {Width, r + 1} /\ Min({Width, r + 1}) <= r + 1
      BY <1>0, <3>1, Min2
    <3> QED BY <1>0, <3>1, <3>2
  <2>4. Row(q + 1) = LET line == [j \in 1..Min({Width, n - z}) |-> o + z + j - 1] IN <<line, line>>
    BY <2>1
  <2> HIDE DEF Row, z
  <2> QED BY <2>2, <2>3, <2>4 DEF Both, Line
<1>5. Lines(o, n) = [l \in 1..(q + 1) |-> Row(l)] BY <1>2, Zenon DEF Lines
<1> DEFINE s == FullLines(o, q)
           e == Both(o + z, r + 1)
<1>6. s \in Seq(Rows) /\ Len(s) = q /\ \A l \in 1..q : s[l] = Both(o + (l - 1) * Width, Width)
  BY FullLinesType
<1>7. e \in Rows
  <2>1. o + z \in Int /\ r + 1 \in Nat
    <3> HIDE DEF z
    <3> QED BY <1>0, <1>1
  <2> HIDE DEF z
  <2> QED BY <2>1, LineType
<1> HIDE DEF s, e, Row, z
<1>8. \A l \in 1..q : Row(l) = s[l] BY <1>3, <1>6
<1>9. [l \in 1..(q + 1) |-> Row(l)] = Append(s, e)
  <2>1. Append(s, e) \in Seq(Rows) /\ Len(Append(s, e)) = q + 1 /\ Append(s, e)[q + 1] = e
        /\ \A l \in 1..q : Append(s, e)[l] = s[l]
    BY <1>6, <1>7
  <2>2. Append(s, e) = [l \in 1..(q + 1) |-> Append(s, e)[l]] BY <2>1, SeqIsFunction
  <2>3. \A l \in 1..(q + 1) : Append(s, e)[l] = Row(l)
    <3> TAKE l \in 1..(q + 1)
    <3>1. l \in 1..q \/ l = q + 1 OBVIOUS
    <3> QED BY <1>4, <1>8, <2>1, <3>1 DEF e
  <2> QED BY <2>2, <2>3
<1> QED BY <1>5, <1>9 DEF s, e, z

-----------------------------------------------------------------------------
(***************************************************************************)
(* PrintData.                                                              *)
(***************************************************************************)
\* One turn of its loop, and what it has printed and holds back after i of n
\* bytes: q full lines, and the bytes of the line it is in.
Dumps == [hex : Seq(Int), out : Seq(Rows)]
Turn(o, n, i, prev) ==
  LET k    == i - 1
      full == k # 0 /\ k % Width = 0
      hex  == Append(IF full THEN <<>> ELSE prev.hex, o + k)
      out  == IF full THEN Append(prev.out,
                <<prev.hex, [j \in 1..Width |-> o + k - Width + j - 1]>>) ELSE prev.out
  IN  [hex |-> hex,
       out |-> IF k = n - 1 THEN Append(out,
                 <<hex, [j \in 1..((k % Width) + 1) |-> o + k - (k % Width) + j - 1]>>)
               ELSE out]

LEMMA RemWidth ==
  ASSUME NEW x \in Int
  PROVE  x % Width \in 0..(Width - 1) /\ x \div Width \in Int
         /\ x = (x \div Width) * Width + (x % Width)
BY SnifferConstants

LEMMA RemUnique ==
  ASSUME NEW q \in Int, NEW r \in 0..(Width - 1), NEW x \in Int, x = q * Width + r
  PROVE  x % Width = r
BY SnifferConstants

LEMMA TurnType ==
  ASSUME NEW o \in Int, NEW n \in Int, NEW i \in Nat, i >= 1, NEW prev \in Dumps
  PROVE  Turn(o, n, i, prev) \in Dumps
<1> DEFINE k    == i - 1
           full == k # 0 /\ k % Width = 0
           hex  == Append(IF full THEN <<>> ELSE prev.hex, o + k)
           e1   == <<prev.hex, Line(o + k - Width, Width)>>
           out  == IF full THEN Append(prev.out, e1) ELSE prev.out
           e2   == <<hex, Line(o + k - (k % Width), (k % Width) + 1)>>
<1>1. prev.hex \in Seq(Int) /\ prev.out \in Seq(Rows) BY DEF Dumps
<1>2. k \in Nat /\ Width \in Nat /\ k % Width \in Nat BY SnifferConstants, RemWidth
<1>3. hex \in Seq(Int)
  <2>1. (IF full THEN <<>> ELSE prev.hex) \in Seq(Int) BY <1>1
  <2>2. o + k \in Int BY <1>2
  <2> HIDE DEF k, full
  <2> QED BY <2>1, <2>2
<1>4. e1 \in Rows
  <2>1. o + k - Width \in Int BY <1>2
  <2>2. Line(o + k - Width, Width) \in Seq(Int)
    <3> HIDE DEF k
    <3> QED BY <1>2, <2>1, LineType
  <2> QED BY <1>1, <2>2 DEF Rows
<1>5. e2 \in Rows
  <2>1. o + k - (k % Width) \in Int /\ (k % Width) + 1 \in Nat BY <1>2
  <2>2. Line(o + k - (k % Width), (k % Width) + 1) \in Seq(Int)
    <3> HIDE DEF k
    <3> QED BY <2>1, LineType
  <2> HIDE DEF hex, k
  <2> QED BY <1>3, <2>2 DEF Rows
<1>6. Turn(o, n, i, prev) = [hex |-> hex, out |-> IF k = n - 1 THEN Append(out, e2) ELSE out]
  BY Zenon DEF Turn, Line
<1> HIDE DEF hex, e1, e2, full
<1>7. out \in Seq(Rows) BY <1>1, <1>4
<1> HIDE DEF out, k
<1>8. (IF k = n - 1 THEN Append(out, e2) ELSE out) \in Seq(Rows) BY <1>5, <1>7
<1> QED BY <1>3, <1>6, <1>8 DEF Dumps

\* f has the states PrintData goes through.
DataLoop(o, n, f) ==
  /\ PrintData(o, n) = f[n].out /\ f[0] = [hex |-> <<>>, out |-> <<>>]
  /\ \A i \in 1..n : f[i] = Turn(o, n, i, f[i - 1])

\* What PrintData returns, as the last of the states its loop goes through.
LEMMA PrintDataLoop ==
  ASSUME NEW o \in Int, NEW n \in Nat, n >= 1
  PROVE  \E f : DataLoop(o, n, f)
<1> DEFINE base == [hex |-> <<>>, out |-> <<>>]
           G == [i \in 1..n |-> [prev \in Dumps |-> Turn(o, n, i, prev)]]
           Sol(f) == f = [i \in 0..n |-> IF i = 0 THEN base ELSE Turn(o, n, i, f[i - 1])]
           upto == CHOOSE f : Sol(f)
<1>1. base \in Dumps BY DEF Dumps
<1>2. G \in [1..n -> [Dumps -> Dumps]] BY TurnType
<1>3. \E f : Follows(Dumps, n, base, G, f)
  <2> HIDE DEF base, G
  <2> QED BY ONLY n \in Nat, <1>1, <1>2, RecursionExists, Zenon
<1>4. \E f : Sol(f)
  <2>1. PICK f : Follows(Dumps, n, base, G, f) BY <1>3, Zenon
  <2>2. f \in [0..n -> Dumps] /\ f[0] = base /\ \A i \in 1..n : f[i] = G[i][f[i - 1]]
    BY <2>1 DEF Follows
  <2> HIDE DEF base
  <2>3. \A i \in 1..n : f[i] = Turn(o, n, i, f[i - 1])
    <3> TAKE i \in 1..n
    <3>1. f[i - 1] \in Dumps BY <2>2
    <3> QED BY <2>2, <3>1
  <2>4. f = [i \in 0..n |-> IF i = 0 THEN base ELSE Turn(o, n, i, f[i - 1])]
    <3> HIDE DEF G
    <3> QED BY <2>2, <2>3
  <2> QED BY <2>4
<1>5. PrintData(o, n) = upto[n].out
  <2>1. ~ (n <= 0) OBVIOUS
  <2> QED BY <2>1, Zenon DEF PrintData, Turn
<1>6. Sol(upto)
  <2> HIDE DEF Sol
  <2> QED BY <1>4
<1> HIDE DEF upto
<1>7. upto[0] = base /\ \A i \in 1..n : upto[i] = Turn(o, n, i, upto[i - 1])
  <2> HIDE DEF base
  <2> QED BY <1>6
<1> QED BY <1>5, <1>7, Zenon DEF DataLoop

\* After i bytes, i >= 1: q lines are full, and r + 1 bytes are in the next.
Dumped(o, n, i, q, r, f) ==
  /\ q \in Nat /\ r \in 0..(Width - 1) /\ i = q * Width + r + 1
  /\ f.hex = Line(o + q * Width, r + 1)
  /\ f.out = IF i = n THEN Append(FullLines(o, q), Both(o + q * Width, r + 1)) ELSE FullLines(o, q)

\* One turn of the loop, when what it holds back and has printed is known.
LEMMA TurnDumps ==
  ASSUME NEW o \in Int, NEW n \in Nat, NEW i \in Nat, NEW prev,
         NEW q \in Nat, NEW r \in 0..(Width - 1), i = q * Width + r + 1, i <= n,
         LET k    == i - 1
             full == k # 0 /\ k % Width = 0
         IN  /\ Append(IF full THEN <<>> ELSE prev.hex, o + k) = Line(o + q * Width, r + 1)
             /\ (IF full THEN Append(prev.out, <<prev.hex, Line(o + k - Width, Width)>>)
                 ELSE prev.out) = FullLines(o, q)
  PROVE  Dumped(o, n, i, q, r, Turn(o, n, i, prev))
<1> DEFINE k    == i - 1
           full == k # 0 /\ k % Width = 0
           hex  == Append(IF full THEN <<>> ELSE prev.hex, o + k)
           out  == IF full THEN Append(prev.out, <<prev.hex, Line(o + k - Width, Width)>>)
                   ELSE prev.out
           e2   == <<hex, Line(o + k - (k % Width), (k % Width) + 1)>>
<1>1. hex = Line(o + q * Width, r + 1) /\ out = FullLines(o, q) OBVIOUS
<1>2. Turn(o, n, i, prev) = [hex |-> hex, out |-> IF k = n - 1 THEN Append(out, e2) ELSE out]
  BY Zenon DEF Turn, Line
<1>3. k % Width = r /\ o + k - (k % Width) = o + q * Width
  <2> DEFINE z == q * Width
  <2>1. z \in Int BY SnifferConstants
  <2>2. k \in Int /\ k = q * Width + r /\ q \in Int
    <3> HIDE DEF z
    <3> QED BY <2>1, SMTT(30) DEF z
  <2>3. k % Width = r
    <3> HIDE DEF k
    <3> QED BY <2>2, RemUnique
  <2> HIDE DEF k, z
  <2> QED BY <2>1, <2>2, <2>3 DEF z
<1>4. e2 = Both(o + q * Width, r + 1)
  <2> HIDE DEF hex, k
  <2> QED BY <1>1, <1>3 DEF Both
<1>5. (k = n - 1) <=> (i = n) BY SMTT(30)
<1> HIDE DEF hex, out, e2, k
<1> DEFINE last == IF k = n - 1 THEN Append(out, e2) ELSE out
<1>6. Turn(o, n, i, prev).hex = hex /\ Turn(o, n, i, prev).out = last
  <2>1. Turn(o, n, i, prev) = [hex |-> hex, out |-> last] BY <1>2
  <2> HIDE DEF last
  <2> QED BY <2>1
<1>7. last = IF i = n THEN Append(out, e2) ELSE out BY <1>5
<1> HIDE DEF last
<1> QED BY <1>1, <1>4, <1>6, <1>7 DEF Dumped

LEMMA PrintDataLines ==
  ASSUME NEW o \in Int, NEW n \in Nat, n >= 1
  PROVE  PrintData(o, n) = Lines(o, n)
<1>f. PICK f : DataLoop(o, n, f) BY PrintDataLoop, Zenon
<1>1. /\ PrintData(o, n) = f[n].out /\ f[0] = [hex |-> <<>>, out |-> <<>>]
      /\ \A i \in 1..n : f[i] = Turn(o, n, i, f[i - 1])
  BY ONLY <1>f, Zenon DEF DataLoop
<1>0. Width \in Nat /\ Width > 0 BY SnifferConstants
<1> DEFINE Good == {m \in Nat : m + 1 <= n => \E q, r : Dumped(o, n, m + 1, q, r, f[m + 1])}
<1>2. 0 \in Good
  <2>1. f[1] = Turn(o, n, 1, f[0])
    <3>1. 1 \in 1..n /\ 1 - 1 = 0 OBVIOUS
    <3> QED BY <1>1, <3>1
  <2>2. Append(<<>>, o) = Line(o + 0 * Width, 0 + 1)
    <3>1. 0 * Width = 0 BY <1>0
    <3>2. o + 0 * Width = o /\ 0 + 1 = 1 BY <3>1
    <3>3. /\ Line(o, 1) \in Seq(Int) /\ Len(Line(o, 1)) = 1
          /\ \A j \in 1..1 : Line(o, 1)[j] = o + j - 1
      BY LineType
    <3>4. Append(<<>>, o) \in Seq(Int) /\ Len(Append(<<>>, o)) = 1 /\ Append(<<>>, o)[1] = o OBVIOUS
    <3>5. Line(o, 1)[1] = o BY <3>3
    <3>6. Append(<<>>, o) = Line(o, 1) BY <3>3, <3>4, <3>5
    <3> QED BY <3>2, <3>6
  <2>3. FullLines(o, 0) = <<>>
    <3>1. FullLines(o, 0) \in Seq(Rows) /\ Len(FullLines(o, 0)) = 0 BY FullLinesType
    <3> QED BY <3>1
  <2>4. f[0].hex = <<>> /\ f[0].out = <<>> BY <1>1
  <2>5. Dumped(o, n, 1, 0, 0, Turn(o, n, 1, f[0]))
    <3>1. 1 \in Nat /\ 0 \in Nat /\ 0 \in 0..(Width - 1) /\ 1 = 0 * Width + 0 + 1 /\ 1 <= n
          /\ o + (1 - 1) = o /\ 1 - 1 = 0
      BY <1>0
    <3>2. LET k    == 1 - 1
              full == k # 0 /\ k % Width = 0
          IN  /\ Append(IF full THEN <<>> ELSE f[0].hex, o + k) = Line(o + 0 * Width, 0 + 1)
              /\ (IF full THEN Append(f[0].out, <<f[0].hex, Line(o + k - Width, Width)>>)
                  ELSE f[0].out) = FullLines(o, 0)
      BY <2>2, <2>3, <2>4, <3>1
    <3> QED BY <3>1, <3>2, TurnDumps
  <2> QED BY <2>1, <2>5
<1>3. ASSUME NEW m \in Nat, m \in Good PROVE m + 1 \in Good
  <2> SUFFICES ASSUME (m + 1) + 1 <= n
               PROVE  \E q, r : Dumped(o, n, (m + 1) + 1, q, r, f[(m + 1) + 1])
    OBVIOUS
  <2> DEFINE i == m + 1
             prev == f[i]
             k == (i + 1) - 1
  <2>1. PICK q, r : Dumped(o, n, i, q, r, prev) BY <1>3
  <2>2. f[i + 1] = Turn(o, n, i + 1, prev)
    <3>1. i + 1 \in 1..n /\ (i + 1) - 1 = i OBVIOUS
    <3> QED BY <1>1, <3>1
  <2> DEFINE z == q * Width
  <2>3. /\ q \in Nat /\ r \in 0..(Width - 1) /\ z \in Nat /\ i = z + r + 1 /\ i \in Nat
        /\ i + 1 <= n /\ i # n /\ k = i
    <3>1. q \in Nat /\ r \in 0..(Width - 1) /\ i = q * Width + r + 1 BY <2>1 DEF Dumped
    <3>2. z \in Nat BY <1>0, <3>1
    <3> QED BY <3>1, <3>2
  <2>4. prev.hex = Line(o + z, r + 1) /\ prev.out = FullLines(o, q) BY <2>1, <2>3 DEF Dumped
  <2> HIDE DEF z, i, prev
  <2>5. o + z \in Int /\ r + 1 \in Nat BY <1>0, <2>3
  <2>6. CASE r + 1 = Width
    <3> DEFINE y == (q + 1) * Width
    <3>1. y = z + Width /\ y \in Int BY <1>0, <2>3 DEF z
    <3>2. k = (q + 1) * Width + 0 /\ k # 0 /\ k \in Int
      <4>1. k = y + 0 /\ k # 0 /\ k \in Int
        <5> HIDE DEF y, k
        <5> QED BY <1>0, <2>3, <2>6, <3>1
      <4> HIDE DEF k
      <4> QED BY <4>1
    <3>3. k % Width = 0
      <4>1. q + 1 \in Int /\ 0 \in 0..(Width - 1) BY <1>0, <2>3
      <4> HIDE DEF k
      <4> QED BY <3>2, <4>1, RemUnique
    <3>4. Append(<<>>, o + k) = Line(o + y, 0 + 1)
      <4>1. o + k = o + y /\ o + y \in Int
        <5> HIDE DEF y, k
        <5> QED BY <3>1, <3>2 DEF y
      <4> HIDE DEF y, k
      <4>2. /\ Line(o + y, 1) \in Seq(Int) /\ Len(Line(o + y, 1)) = 1
            /\ \A j \in 1..1 : Line(o + y, 1)[j] = o + y + j - 1
        BY <4>1, LineType
      <4>3. Line(o + y, 1)[1] = o + y BY <4>1, <4>2
      <4>4. /\ Append(<<>>, o + y) \in Seq(Int) /\ Len(Append(<<>>, o + y)) = 1
            /\ Append(<<>>, o + y)[1] = o + y
        BY <4>1
      <4>5. Append(<<>>, o + y) = Line(o + y, 1) BY <4>2, <4>3, <4>4
      <4> QED BY <4>1, <4>5
    <3>5. Append(prev.out, <<prev.hex, Line(o + k - Width, Width)>>) = FullLines(o, q + 1)
      <4>1. o + k - Width = o + z
        <5> HIDE DEF y, k
        <5> QED BY <1>0, <2>3, <3>1, <3>2 DEF y
      <4>2. <<prev.hex, Line(o + k - Width, Width)>> = Both(o + z, Width)
        BY <2>4, <2>6, <4>1 DEF Both
      <4>3. FullLines(o, q + 1) = Append(FullLines(o, q), Both(o + z, Width))
        BY <2>3, FullLinesNext DEF z
      <4> QED BY <2>4, <4>2, <4>3
    <3>6. Dumped(o, n, i + 1, q + 1, 0, Turn(o, n, i + 1, prev))
      <4>1. /\ i + 1 \in Nat /\ q + 1 \in Nat /\ 0 \in 0..(Width - 1)
            /\ i + 1 = (q + 1) * Width + 0 + 1 /\ i + 1 <= n
        <5>1. i = y + 0 BY <2>3, <3>2
        <5> QED BY <1>0, <2>3, <3>1, <5>1
      <4>2. LET kk   == (i + 1) - 1
                full == kk # 0 /\ kk % Width = 0
            IN  /\ Append(IF full THEN <<>> ELSE prev.hex, o + kk) = Line(o + (q + 1) * Width, 0 + 1)
                /\ (IF full THEN Append(prev.out, <<prev.hex, Line(o + kk - Width, Width)>>)
                    ELSE prev.out) = FullLines(o, q + 1)
        BY <3>2, <3>3, <3>4, <3>5, Zenon
      <4> QED BY <4>1, <4>2, TurnDumps
    <3> QED BY <2>2, <3>6 DEF i
  <2>7. CASE r + 1 # Width
    <3>1. r + 1 \in 0..(Width - 1) BY <1>0, <2>3, <2>7
    <3>2. k = q * Width + (r + 1) /\ k \in Int
      <4> HIDE DEF k
      <4> QED BY <1>0, <2>3 DEF z
    <3>3. k % Width = r + 1
      <4> HIDE DEF k
      <4> QED BY <2>3, <3>1, <3>2, RemUnique
    <3>4. ~ (k # 0 /\ k % Width = 0)
      <4> HIDE DEF k
      <4> QED BY <2>3, <3>3
    <3>5. Append(prev.hex, o + k) = Line(o + z, (r + 1) + 1)
      <4> DEFINE s == Line(o + z, r + 1)
                 t == Line(o + z, (r + 1) + 1)
      <4>1. s \in Seq(Int) /\ Len(s) = r + 1 /\ \A j \in 1..(r + 1) : s[j] = (o + z) + j - 1
        BY <2>5, LineType
      <4>2. /\ t \in Seq(Int) /\ Len(t) = (r + 1) + 1
            /\ \A j \in 1..((r + 1) + 1) : t[j] = (o + z) + j - 1
        <5>1. (r + 1) + 1 \in Nat BY <2>5
        <5> QED BY <2>5, <5>1, LineType
      <4>3. o + k = (o + z) + ((r + 1) + 1) - 1 /\ o + k \in Int
        <5> HIDE DEF k
        <5> QED BY <2>3
      <4> HIDE DEF s, t, k
      <4>4. t[(r + 1) + 1] = o + k BY <2>5, <4>2, <4>3
      <4>5. \A j \in 1..(r + 1) : t[j] = s[j] BY <2>5, <4>1, <4>2
      <4>6. Append(s, o + k) = t BY <2>5, <4>1, <4>2, <4>3, <4>4, <4>5
      <4> QED BY <2>4, <4>6 DEF s, t
    <3>6. Dumped(o, n, i + 1, q, r + 1, Turn(o, n, i + 1, prev))
      <4>1. /\ i + 1 \in Nat /\ q \in Nat /\ r + 1 \in 0..(Width - 1)
            /\ i + 1 = q * Width + (r + 1) + 1 /\ i + 1 <= n
        BY <1>0, <2>3, <3>1 DEF z
      <4>2. LET kk   == (i + 1) - 1
                full == kk # 0 /\ kk % Width = 0
            IN  /\ Append(IF full THEN <<>> ELSE prev.hex, o + kk) = Line(o + q * Width, (r + 1) + 1)
                /\ (IF full THEN Append(prev.out, <<prev.hex, Line(o + kk - Width, Width)>>)
                    ELSE prev.out) = FullLines(o, q)
        BY <2>4, <3>4, <3>5, Zenon DEF z
      <4> QED BY <4>1, <4>2, TurnDumps
    <3> QED BY <2>2, <3>6 DEF i
  <2> QED BY <2>6, <2>7
<1>4. \A m \in Nat : m \in Good
  <2> HIDE DEF Good
  <2> QED BY <1>2, <1>3, NatSetInduction, Zenon
<1>5. PICK q, r : Dumped(o, n, n, q, r, f[n])
  <2>1. n - 1 \in Nat /\ (n - 1) + 1 = n OBVIOUS
  <2>2. n - 1 \in Good
    <3> HIDE DEF Good
    <3> QED BY <1>4, <2>1
  <2> QED BY <2>1, <2>2
<1>6. /\ q \in Nat /\ r \in 0..(Width - 1) /\ n = q * Width + r + 1
      /\ f[n].out = Append(FullLines(o, q), Both(o + q * Width, r + 1))
  BY <1>5 DEF Dumped
<1>7. Lines(o, n) = Append(FullLines(o, q), Both(o + q * Width, r + 1)) BY <1>6, LinesSplit
<1> QED BY <1>1, <1>6, <1>7

LEMMA LinesOf ==
  ASSUME NEW o \in Int, NEW q \in Nat, NEW r \in 0..(Width - 1)
  PROVE  Lines(o, q * Width + r + 1) = Append(FullLines(o, q), Both(o + q * Width, r + 1))
<1> DEFINE n == q * Width + r + 1
<1>1. n \in Int /\ n = q * Width + r + 1
  <2>1. q * Width \in Int BY SnifferConstants
  <2> QED BY <2>1, SnifferConstants
<1> HIDE DEF n
<1>2. Lines(o, n) = Append(FullLines(o, q), Both(o + q * Width, r + 1)) BY <1>1, LinesSplit
<1> QED BY <1>2 DEF n

-----------------------------------------------------------------------------
(***************************************************************************)
(* print_payload.                                                          *)
(***************************************************************************)
\* A positive number in whole lines and a rest.
LEMMA InLines ==
  ASSUME NEW n \in Nat, n >= 1
  PROVE  \E q \in Nat : \E r \in 0..(Width - 1) : n = q * Width + r + 1
<1> DEFINE q == (n - 1) \div Width
           r == (n - 1) % Width
<1>0. Width \in Nat /\ Width > 0 BY SnifferConstants
<1>1. n - 1 \in Int /\ r \in 0..(Width - 1) /\ q \in Int /\ n - 1 = q * Width + r BY RemWidth
<1> HIDE DEF q, r
<1>2. q \in Nat
  <2>1. ASSUME NEW x \in Int, NEW y \in 0..(Width - 1), x * Width + y >= 0 PROVE x >= 0
    BY <1>0, <2>1
  <2>2. q * Width + r >= 0 BY <1>1
  <2> QED BY <1>1, <2>1, <2>2
<1>3. n = q * Width + r + 1
  <2>1. q * Width \in Int BY <1>0, <1>1
  <2> QED BY <1>1, <2>1
<1> QED BY <1>1, <1>2, <1>3

LEMMA LinesType ==
  ASSUME NEW o \in Int, NEW n \in Nat, n >= 1
  PROVE  Lines(o, n) \in Seq(Rows) /\ Len(Lines(o, n)) >= 1
<1>1. PICK q \in Nat : \E r \in 0..(Width - 1) : n = q * Width + r + 1 BY InLines
<1>2. PICK r \in 0..(Width - 1) : n = q * Width + r + 1 BY <1>1
<1>3. Lines(o, n) = Append(FullLines(o, q), Both(o + q * Width, r + 1))
  <2>1. n \in Int /\ n = q * Width + r + 1 BY <1>2
  <2>2. Lines(o, q * Width + r + 1) = Append(FullLines(o, q), Both(o + q * Width, r + 1))
    BY ONLY o \in Int, q \in Nat, r \in 0..(Width - 1), LinesOf, Zenon
  <2> QED BY ONLY <2>1, <2>2
<1>4. FullLines(o, q) \in Seq(Rows) /\ Len(FullLines(o, q)) = q BY FullLinesType
<1>5. Both(o + q * Width, r + 1) \in Rows
  <2>1. q * Width \in Int /\ r + 1 \in Nat BY SnifferConstants
  <2>2. o + q * Width \in Int BY <2>1
  <2> QED BY <2>1, <2>2, LineType
<1> QED BY <1>3, <1>4, <1>5

\* At most a line is one line.
LEMMA LinesOne ==
  ASSUME NEW o \in Int, NEW n \in 1..Width
  PROVE  Lines(o, n) = <<Both(o, n)>>
<1>0. Width \in Nat /\ Width > 0 BY SnifferConstants
<1>1. n - 1 \in 0..(Width - 1) /\ n = 0 * Width + (n - 1) + 1 /\ n \in Int /\ (n - 1) + 1 = n
      /\ o + 0 * Width = o
  BY <1>0
<1>2. Lines(o, n) = Append(FullLines(o, 0), Both(o + 0 * Width, (n - 1) + 1)) BY <1>1, LinesSplit
<1>3. FullLines(o, 0) = <<>>
  <2>1. FullLines(o, 0) \in Seq(Rows) /\ Len(FullLines(o, 0)) = 0 BY FullLinesType
  <2> QED BY <2>1
<1>4. \A e : Append(<<>>, e) = <<e>> OBVIOUS
<1> QED BY <1>1, <1>2, <1>3, <1>4

\* More than a line is a line and the rest.
LEMMA LinesCons ==
  ASSUME NEW o \in Int, NEW n \in Nat, n > Width
  PROVE  Lines(o, n) = <<Both(o, Width)>> \o Lines(o + Width, n - Width)
<1>0. Width \in Nat /\ Width > 0 BY SnifferConstants
<1>1. PICK q \in Nat : \E r \in 0..(Width - 1) : n - Width = q * Width + r + 1
  <2>1. n - Width \in Nat /\ n - Width >= 1 BY <1>0
  <2> QED BY ONLY <2>1, InLines, Zenon
<1>2. PICK r \in 0..(Width - 1) : n - Width = q * Width + r + 1 BY <1>1
<1> DEFINE z == q * Width
           last == Both(o + Width + z, r + 1)
           s == FullLines(o + Width, q)
           t == FullLines(o, q + 1)
<1>3. z \in Nat /\ (q + 1) * Width = z + Width BY <1>0
<1>4. Lines(o, n) = Append(t, last)
  <2>1. n = (q + 1) * Width + r + 1
    <3> HIDE DEF z
    <3>1. n - Width = z + r + 1 BY <1>2 DEF z
    <3> QED BY <1>0, <1>3, <3>1
  <2>2. o + (q + 1) * Width = o + Width + z
    <3> HIDE DEF z
    <3> QED BY <1>0, <1>3
  <2>3. Lines(o, n) = Append(FullLines(o, q + 1), Both(o + (q + 1) * Width, r + 1))
    <3>1. q + 1 \in Nat /\ n \in Int OBVIOUS
    <3> QED BY ONLY o \in Int, r \in 0..(Width - 1), <2>1, <3>1, LinesSplit, Zenon
  <2> QED BY <2>2, <2>3
<1>5. Lines(o + Width, n - Width) = Append(s, last)
  <2>1. o + Width \in Int /\ n - Width \in Int /\ n - Width = q * Width + r + 1 BY <1>0, <1>2
  <2>2. Lines(o + Width, n - Width)
          = Append(FullLines(o + Width, q), Both((o + Width) + q * Width, r + 1))
    <3>1. Lines(o + Width, q * Width + r + 1)
            = Append(FullLines(o + Width, q), Both((o + Width) + q * Width, r + 1))
      BY ONLY q \in Nat, r \in 0..(Width - 1), <2>1, LinesOf, Zenon
    <3> QED BY ONLY <2>1, <3>1
  <2> QED BY <2>2
<1>6. last \in Rows
  <2>1. o + Width + z \in Int /\ r + 1 \in Nat
    <3> HIDE DEF z
    <3> QED BY <1>0, <1>3
  <2> HIDE DEF z
  <2> QED BY <2>1, LineType
<1>7. /\ s \in Seq(Rows) /\ Len(s) = q
      /\ \A l \in 1..q : s[l] = Both(o + Width + (l - 1) * Width, Width)
  <2>1. o + Width \in Int BY <1>0
  <2> QED BY <2>1, FullLinesType
<1>8. /\ t \in Seq(Rows) /\ Len(t) = q + 1
      /\ \A l \in 1..(q + 1) : t[l] = Both(o + (l - 1) * Width, Width)
  <2>1. q + 1 \in Nat OBVIOUS
  <2> QED BY ONLY o \in Int, <2>1, FullLinesType
<1>9. Both(o, Width) \in Rows BY <1>0, LineType
<1>10. t[1] = Both(o, Width)
  <2>1. 1 \in 1..(q + 1) /\ o + (1 - 1) * Width = o BY <1>0
  <2> HIDE DEF t
  <2> QED BY <1>8, <2>1
<1>11. \A l \in 1..q : t[1 + l] = s[l]
  <2> TAKE l \in 1..q
  <2>1. 1 + l \in 1..(q + 1) OBVIOUS
  <2>2. o + ((1 + l) - 1) * Width = o + Width + (l - 1) * Width
    <3>1. ((1 + l) - 1) * Width = Width + (l - 1) * Width /\ (l - 1) * Width \in Int BY <1>0
    <3> QED BY <1>0, <3>1
  <2> HIDE DEF t, s
  <2>3. t[1 + l] = Both(o + ((1 + l) - 1) * Width, Width) BY <1>8, <2>1
  <2>4. s[l] = Both(o + Width + (l - 1) * Width, Width) BY <1>7
  <2> QED BY <2>2, <2>3, <2>4
<1> DEFINE e == Both(o, Width)
           u == Append(s, last)
<1> HIDE DEF s, t, last, z, e
<1>12. u \in Seq(Rows) /\ Len(u) = q + 1 /\ u[q + 1] = last /\ \A l \in 1..q : u[l] = s[l]
  BY <1>6, <1>7
<1> DEFINE v == Append(t, last)
           w == <<e>> \o u
<1>13. /\ v \in Seq(Rows) /\ Len(v) = q + 2 /\ v[q + 2] = last
       /\ \A l \in 1..(q + 1) : v[l] = t[l]
  BY <1>6, <1>8
<1> HIDE DEF u, v
<1>14. w \in Seq(Rows) /\ Len(w) = q + 2 /\ w[1] = e /\ \A l \in 1..(q + 1) : w[1 + l] = u[l]
  <2>1. Len(w) = 1 + Len(u) /\ w[1] = e /\ \A l \in 1..Len(u) : w[1 + l] = u[l]
    BY <1>12, ConsFacts
  <2>2. w \in Seq(Rows) BY <1>9, <1>12 DEF e
  <2> HIDE DEF w
  <2> QED BY <1>12, <2>1, <2>2
<1> HIDE DEF w
<1>15. \A i \in 1..(q + 2) : v[i] = w[i]
  <2> TAKE i \in 1..(q + 2)
  <2>1. CASE i = 1 BY <1>10, <1>13, <1>14, <2>1 DEF e
  <2>2. CASE i \in 2..(q + 1)
    <3>1. i - 1 \in 1..q /\ 1 + (i - 1) = i /\ i - 1 \in 1..(q + 1) /\ i \in 1..(q + 1) BY <2>2
    <3>2. v[i] = t[i] BY <1>13, <3>1
    <3>3. t[i] = s[i - 1] BY <1>11, <3>1
    <3>4. w[i] = u[i - 1] BY <1>14, <3>1
    <3>5. u[i - 1] = s[i - 1] BY <1>12, <3>1
    <3> QED BY <3>2, <3>3, <3>4, <3>5
  <2>3. CASE i = q + 2
    <3>1. q + 1 \in 1..(q + 1) /\ 1 + (q + 1) = q + 2 OBVIOUS
    <3>2. w[q + 2] = u[q + 1] BY <1>14, <3>1
    <3> QED BY <1>12, <1>13, <2>3, <3>2
  <2> QED BY <2>1, <2>2, <2>3
<1>16. v = w BY <1>13, <1>14, <1>15
<1> QED BY <1>4, <1>5, <1>16 DEF v, w, u, e

\* The definition of print_payload's loop has a solution, which is Lines.
PayloadLines(o, n, rem) == IF rem = 0 THEN <<Both(o + n, 0)>> ELSE Lines(o + n - rem, rem)

LEMMA PrintPayloadLines ==
  ASSUME NEW o \in Int, NEW n \in Nat, n >= 1
  PROVE  PrintPayload(o, n) = Lines(o, n)
<1> DEFINE From(f, rem) ==
             IF rem <= Width THEN <<PrintHexAsciiLine(o + n - rem, rem)>>
             ELSE LET len == Width % rem
                  IN  <<PrintHexAsciiLine(o + n - rem, len)>> \o f[rem - len]
           Sol(f) == f = [rem \in 0..n |-> From(f, rem)]
           from == CHOOSE f : Sol(f)
<1>0. Width \in Nat /\ Width > 0 BY SnifferConstants
<1>1. \A x, y : PrintHexAsciiLine(x, y) = Both(x, y) BY DEF PrintHexAsciiLine, Both, Line
\* What the loop does with rem bytes left, when the rest is printed as it should.
<1>2. ASSUME NEW f, NEW rem \in 1..n,
             rem > Width => f[rem - Width] = Lines(o + n - (rem - Width), rem - Width)
      PROVE  From(f, rem) = Lines(o + n - rem, rem)
  <2>0. rem \in Nat /\ o + n - rem \in Int OBVIOUS
  <2>1. CASE rem <= Width
    <3>1. Lines(o + n - rem, rem) = <<Both(o + n - rem, rem)>>
      <4>1. rem \in 1..Width BY <1>0, <2>1
      <4> QED BY ONLY <2>0, <4>1, LinesOne, Zenon
    <3> QED BY <1>1, <2>1, <3>1
  <2>2. CASE ~ (rem <= Width)
    <3>1. rem > Width BY <1>0, <2>2
    <3>2. Width % rem = Width BY <1>0, <2>0, <3>1
    <3>3. From(f, rem) = <<Both(o + n - rem, Width)>> \o f[rem - Width]
      BY <1>1, <2>2, <3>2
    <3>4. Lines(o + n - rem, rem)
            = <<Both(o + n - rem, Width)>> \o Lines((o + n - rem) + Width, rem - Width)
      BY ONLY <2>0, <3>1, LinesCons, Zenon
    <3>5. (o + n - rem) + Width = o + n - (rem - Width) BY <1>0
    <3> HIDE DEF From
    <3> QED BY <1>2, <3>1, <3>3, <3>4, <3>5
  <2> QED BY <2>1, <2>2
<1>3. \E f : Sol(f)
  <2> DEFINE f == [rem \in 0..n |-> PayloadLines(o, n, rem)]
  <2>1. ASSUME NEW rem \in 0..n PROVE From(f, rem) = PayloadLines(o, n, rem)
    <3>1. CASE rem = 0
      <4>1. rem <= Width /\ o + n - 0 = o + n BY <1>0, <3>1
      <4> HIDE DEF f
      <4>2. From(f, rem) = <<Both(o + n - 0, 0)>> BY <1>1, <3>1, <4>1
      <4> HIDE DEF From
      <4> QED BY <3>1, <4>1, <4>2 DEF PayloadLines
    <3>2. CASE rem # 0
      <4>1. rem \in 1..n BY <3>2
      <4>2. rem > Width => f[rem - Width] = Lines(o + n - (rem - Width), rem - Width)
        <5> SUFFICES ASSUME rem > Width
                     PROVE  f[rem - Width] = Lines(o + n - (rem - Width), rem - Width)
          OBVIOUS
        <5>1. rem - Width \in 0..n /\ rem - Width # 0 BY <1>0, <4>1
        <5>2. f[rem - Width] = PayloadLines(o, n, rem - Width) BY <5>1
        <5> HIDE DEF f
        <5> QED BY <5>1, <5>2 DEF PayloadLines
      <4> HIDE DEF f, From
      <4>3. From(f, rem) = Lines(o + n - rem, rem) BY <1>2, <4>1, <4>2
      <4> QED BY <3>2, <4>3 DEF PayloadLines
    <3> QED BY <3>1, <3>2
  <2> HIDE DEF From
  <2>2. f = [rem \in 0..n |-> From(f, rem)] BY <2>1
  <2> HIDE DEF f
  <2> QED BY <2>2
<1>4. PrintPayload(o, n) = from[n]
  <2>1. ~ (n <= 0) OBVIOUS
  <2> QED BY <2>1, Zenon DEF PrintPayload
<1>5. \A rem \in 0..n : from[rem] = From(from, rem)
  <2>1. Sol(from)
    <3> HIDE DEF Sol
    <3> QED BY <1>3
  <2> HIDE DEF from, From
  <2> QED BY <2>1
<1> HIDE DEF From, from
<1> DEFINE Good == {m \in Nat : \A rem \in 1..n :
                      rem <= m => from[rem] = Lines(o + n - rem, rem)}
<1>6. 0 \in Good OBVIOUS
<1>7. ASSUME NEW m \in Nat, m \in Good PROVE m + 1 \in Good
  <2> SUFFICES ASSUME NEW rem \in 1..n, rem <= m + 1
               PROVE  from[rem] = Lines(o + n - rem, rem)
    OBVIOUS
  <2>1. rem > Width => from[rem - Width] = Lines(o + n - (rem - Width), rem - Width)
    BY <1>0, <1>7
  <2>2. From(from, rem) = Lines(o + n - rem, rem) BY <1>2, <2>1
  <2> QED BY <1>5, <2>2
<1>8. \A m \in Nat : m \in Good
  <2> HIDE DEF Good
  <2> QED BY <1>6, <1>7, NatSetInduction, Zenon
<1>9. from[n] = Lines(o + n - n, n) BY <1>8
<1>10. o + n - n = o OBVIOUS
<1> QED BY <1>4, <1>9, <1>10

-----------------------------------------------------------------------------
(***************************************************************************)
(* The programs.                                                           *)
(***************************************************************************)
\* The offsets of a dump of n bytes are those of the n bytes.
LEMMA LinesWithin ==
  ASSUME NEW o \in Int, NEW n \in Nat, n >= 1,
         NEW k \in 1..Len(Lines(o, n)), NEW j \in 1..2, NEW x \in ToSet(Lines(o, n)[k][j])
  PROVE  x \in Int /\ x < o + n
<1>0. Width \in Nat /\ Width > 0 BY SnifferConstants
<1>1. PICK q \in Nat : \E r \in 0..(Width - 1) : n = q * Width + r + 1 BY InLines
<1>2. PICK r \in 0..(Width - 1) : n = q * Width + r + 1 BY <1>1
<1> DEFINE z == q * Width
           last == Both(o + z, r + 1)
           s == FullLines(o, q)
<1>3. Lines(o, n) = Append(s, last)
  <2>1. n \in Int /\ n = q * Width + r + 1 BY <1>2
  <2>2. Lines(o, n) = Append(FullLines(o, q), Both(o + q * Width, r + 1))
    BY ONLY o \in Int, q \in Nat, r \in 0..(Width - 1), <2>1, LinesSplit
  <2> QED BY <2>2
<1>4. s \in Seq(Rows) /\ Len(s) = q /\ \A l \in 1..q : s[l] = Both(o + (l - 1) * Width, Width)
  BY FullLinesType
<1>5. z \in Nat /\ n = z + r + 1 BY <1>0, <1>2
<1>6. ASSUME NEW a \in Int, NEW c \in Nat, a + c <= o + n, x \in ToSet(Both(a, c)[j])
      PROVE  x \in Int /\ x < o + n
  <2>1. Both(a, c)[j] = Line(a, c) BY DEF Both
  <2>2. /\ Line(a, c) \in Seq(Int) /\ Len(Line(a, c)) = c
        /\ \A i \in 1..c : Line(a, c)[i] = a + i - 1
    BY <1>6, LineType
  <2>3. PICK i \in 1..c : x = Line(a, c)[i] BY <1>6, <2>1, <2>2 DEF ToSet
  <2> QED BY <1>6, <2>2, <2>3
<1>7. last \in Rows
  <2>1. o + z \in Int /\ r + 1 \in Nat
    <3> HIDE DEF z
    <3> QED BY <1>0, <1>5
  <2> HIDE DEF z
  <2> QED BY <2>1, LineType
<1>8. CASE k = q + 1
  <2>1. Lines(o, n)[k] = Both(o + z, r + 1)
    <3> HIDE DEF s, last
    <3>1. Append(s, last)[q + 1] = last BY <1>4, <1>7
    <3> QED BY <1>3, <1>8, <3>1 DEF last
  <2>2. o + z \in Int /\ r + 1 \in Nat /\ (o + z) + (r + 1) <= o + n
    <3> HIDE DEF z
    <3> QED BY <1>0, <1>5
  <2> HIDE DEF z
  <2> QED BY <1>6, <2>1, <2>2
<1>9. CASE k # q + 1
  <2>1. k \in 1..q
    <3> HIDE DEF s, last
    <3>0. s \in Seq(Rows) /\ Len(s) = q BY <1>4
    <3>1. Len(Append(s, last)) = q + 1 BY ONLY <1>7, <3>0
    <3> QED BY <1>3, <1>9, <3>1
  <2> DEFINE y == (k - 1) * Width
  <2>2. Lines(o, n)[k] = Both(o + y, Width)
    <3> HIDE DEF s, last
    <3>1. Append(s, last)[k] = s[k] BY <1>4, <1>7, <2>1
    <3> QED BY <1>3, <1>4, <2>1, <3>1
  <2>3. y \in Int /\ y + Width <= z
    <3>1. y + Width = k * Width BY <1>0
    <3>2. ASSUME NEW u \in Nat, NEW v \in Nat, u <= v PROVE u * Width <= v * Width
      BY <1>0, <3>2
    <3>3. k * Width <= q * Width BY <2>1, <3>2
    <3>4. y \in Int BY <1>0
    <3> QED BY <3>1, <3>3, <3>4
  <2> HIDE DEF y, z
  <2>4. o + y \in Int /\ (o + y) + Width <= o + n BY <1>0, <1>5, <2>3
  <2> QED BY <1>0, <1>6, <2>2, <2>4
<1> QED BY <1>8, <1>9

\* The n bytes at o, or none: what either dump prints of them.
Shows(o, n) == IF n <= 0 THEN <<>> ELSE Lines(o, n)

LEMMA DumpsShow ==
  ASSUME NEW o \in Int, NEW n \in Int
  PROVE  PrintData(o, n) = Shows(o, n) /\ PrintPayload(o, n) = Shows(o, n)
<1>1. CASE n <= 0 BY <1>1, Zenon DEF PrintData, PrintPayload, Shows
<1>2. CASE ~ (n <= 0)
  <2>1. n \in Nat /\ n >= 1 BY <1>2
  <2>2. PrintData(o, n) = Lines(o, n) BY <2>1, PrintDataLines
  <2>3. PrintPayload(o, n) = Lines(o, n) BY <2>1, PrintPayloadLines
  <2> QED BY <1>2, <2>2, <2>3 DEF Shows
<1> QED BY <1>1, <1>2

LEMMA ShowsWithin ==
  ASSUME NEW o \in Int, NEW n \in Int, NEW m \in Int, o + n <= m
  PROVE  \A k \in 1..Len(Shows(o, n)) : \A j \in 1..2 :
           \A x \in ToSet(Shows(o, n)[k][j]) : x < m
<1>1. CASE n <= 0 BY <1>1 DEF Shows
<1>2. CASE ~ (n <= 0)
  <2>1. n \in Nat /\ n >= 1 BY <1>2
  <2>2. Shows(o, n) = Lines(o, n) BY <1>2 DEF Shows
  <2>3. ASSUME NEW k \in 1..Len(Lines(o, n)), NEW j \in 1..2, NEW x \in ToSet(Lines(o, n)[k][j])
        PROVE  x < m
    <3>1. x \in Int /\ x < o + n BY <2>1, LinesWithin
    <3> QED BY <3>1
  <2> QED BY <2>2, <2>3
<1> QED BY <1>1, <1>2

LEMMA ShowsEmpty ==
  ASSUME NEW o \in Int, NEW n \in Int
  PROVE  (Shows(o, n) = <<>>) <=> (n <= 0)
<1>1. CASE n <= 0 BY <1>1 DEF Shows
<1>2. CASE ~ (n <= 0)
  <2>1. n \in Nat /\ n >= 1 BY <1>2
  <2>2. Shows(o, n) = Lines(o, n) BY <1>2 DEF Shows
  <2>3. Lines(o, n) \in Seq(Rows) /\ Len(Lines(o, n)) >= 1 BY <2>1, LinesType
  <2> QED BY <1>2, <2>2, <2>3
<1> QED BY <1>1, <1>2

Buffers == [1..(2 * Capacity + 1) -> Cells]

\* Where the headers end that the buffer shows.
LEMMA Headers ==
  ASSUME NEW b \in Buffers
  PROVE  /\ At(b, 1) \in Cells /\ IpEnd(b) \in 1..(Capacity + 1) /\ At(b, IpEnd(b)) \in Cells
         /\ TcpHeader(b) \in Nat /\ UdpHeader(b) \in Nat /\ IcmpHeader(b) = UdpHeader(b)
<1>0. Capacity \in Nat /\ Capacity > 0 BY SnifferConstants
<1>1. At(b, 1) \in Cells
  <2>1. 1 + 1 \in 1..(2 * Capacity + 1) BY <1>0
  <2> QED BY <2>1 DEF At, Buffers
<1>2. At(b, 1).n \in 0..Capacity BY <1>1, SnifferConstants
<1>3. IpEnd(b) \in 1..(Capacity + 1) BY <1>0, <1>2 DEF IpEnd
<1>4. At(b, IpEnd(b)) \in Cells
  <2>1. IpEnd(b) + 1 \in 1..(2 * Capacity + 1) BY <1>0, <1>3
  <2> QED BY <2>1 DEF At, Buffers
<1>5. At(b, IpEnd(b)).n \in 0..Capacity BY <1>4, SnifferConstants
<1> QED BY <1>0, <1>1, <1>3, <1>4, <1>5 DEF TcpHeader, UdpHeader, IcmpHeader

\* A packet that has its headers has those the buffer shows.
LEMMA StartInBuffer ==
  ASSUME NEW b \in Buffers, NEW pk \in Seq(Cells),
         \A i \in 1..Len(pk) : b[i] = pk[i], PayloadStart(pk) # 0
  PROVE  /\ pk[2] = At(b, 1) /\ PayloadStart(pk) \in Nat /\ PayloadStart(pk) <= Len(pk)
         /\ PayloadStart(pk) = IF At(b, 1).p = "tcp" THEN TcpHeader(b) ELSE UdpHeader(b)
<1> DEFINE t == 1 + pk[2].n
           h == t + IF pk[2].p = "tcp" THEN pk[t + 1].n ELSE 1
<1>0. Len(pk) \in Nat OBVIOUS
<1>1. Len(pk) >= 2 BY <1>0 DEF PayloadStart
<1>2. pk[2] = At(b, 1)
  <2>1. 2 \in 1..Len(pk) /\ 1 + 1 = 2 BY <1>0, <1>1
  <2> QED BY <2>1 DEF At
<1>3. t = IpEnd(b) BY <1>2 DEF IpEnd
<1>4. t \in 1..(Capacity + 1) BY <1>3, Headers
<1>5. Len(pk) > t
  <2> HIDE DEF t
  <2>1. ~ (Len(pk) <= t)
    <3> SUFFICES ASSUME Len(pk) <= t PROVE PayloadStart(pk) = 0 OBVIOUS
    <3> QED BY <1>0, <1>1 DEF PayloadStart, t
  <2> QED BY <1>0, <1>4, <2>1, SnifferConstants
<1>6. pk[t + 1] = At(b, IpEnd(b))
  <2>1. t + 1 \in 1..Len(pk)
    <3> HIDE DEF t
    <3> QED BY <1>0, <1>4, <1>5, SnifferConstants
  <2> HIDE DEF t
  <2> QED BY <1>3, <2>1 DEF At
<1>7. h = IF At(b, 1).p = "tcp" THEN TcpHeader(b) ELSE UdpHeader(b)
  <2> HIDE DEF t
  <2>1. CASE pk[2].p = "tcp"
    <3>1. h = t + pk[t + 1].n BY <2>1
    <3> QED BY <1>2, <1>3, <1>6, <2>1, <3>1 DEF TcpHeader
  <2>2. CASE pk[2].p # "tcp"
    <3>1. h = t + 1 BY <2>2
    <3> QED BY <1>2, <1>3, <2>2, <3>1 DEF UdpHeader
  <2> QED BY <2>1, <2>2
<1>8. PayloadStart(pk) = IF h > Len(pk) THEN 0 ELSE h
  <2>1. ~ (Len(pk) < 2) /\ ~ (Len(pk) <= t)
    <3> HIDE DEF t
    <3> QED BY <1>0, <1>1, <1>4, <1>5, SnifferConstants
  <2> QED BY <2>1, Zenon DEF PayloadStart
<1>9. h \in Nat BY <1>7, Headers
<1> HIDE DEF h
<1>10. PayloadStart(pk) = h /\ h <= Len(pk) BY <1>0, <1>8, <1>9
<1> QED BY <1>2, <1>7, <1>9, <1>10

\* What PayloadShown says of one packet that ends at en and its dump.
Right(sn, pk, en, sh) ==
  /\ en <= Len(pk) =>
       \A k \in 1..Len(sh) : \A j \in 1..2 : \A o \in ToSet(sh[k][j]) : o < Len(pk)
  /\ sn # "dgram" /\ PayloadStart(pk) # 0 /\ sh # <<>> =>
       sh = Lines(PayloadStart(pk), en - PayloadStart(pk))
  /\ sn = "raw" /\ PayloadStart(pk) # 0 /\ pk[2].p # "other" =>
       ((sh = <<>>) <=> (PayloadStart(pk) = Len(pk)))

LEMMA PayloadShownIsRight ==
  PayloadShown <=>
    (where = "recv" /\ packet # <<>> => Right(sniffer, packet, End, shown))
BY DEF PayloadShown, Right, Within

\* ProcessPacket and got_packet.
LEMMA DumpRight ==
  ASSUME NEW b \in Buffers, NEW pk \in Seq(Cells), \A i \in 1..Len(pk) : b[i] = pk[i],
         NEW sn, NEW en \in Int, NEW sh, sn = "raw" => en = Len(pk),
         \/ sh = <<>> /\ (sn = "raw" => At(b, 1).p = "other")
         \/ /\ At(b, 1).p = "tcp"
            /\ sh = Shows(TcpHeader(b), en - TcpHeader(b))
         \/ /\ At(b, 1).p \in {"udp", "icmp"}
            /\ sh = Shows(UdpHeader(b), en - UdpHeader(b))
  PROVE  Right(sn, pk, en, sh)
<1>0. Len(pk) \in Nat /\ TcpHeader(b) \in Nat /\ UdpHeader(b) \in Nat BY Headers
<1>1. CASE sh = <<>> /\ (sn = "raw" => At(b, 1).p = "other")
  <2>1. sn = "raw" /\ PayloadStart(pk) # 0 => pk[2].p = "other" BY <1>1, StartInBuffer
  <2> QED BY <1>1, <2>1 DEF Right
<1>2. ASSUME NEW h \in Nat, sh = Shows(h, en - h),
             PayloadStart(pk) # 0 => PayloadStart(pk) = h /\ h <= Len(pk)
      PROVE  Right(sn, pk, en, sh)
  <2> DEFINE n == en - h
  <2>1. n \in Int /\ h \in Int /\ Len(pk) \in Int /\ h + n = en BY <1>0
  <2> HIDE DEF n
  <2>2. ASSUME en <= Len(pk)
        PROVE  \A k \in 1..Len(Shows(h, n)) : \A j \in 1..2 :
                 \A x \in ToSet(Shows(h, n)[k][j]) : x < Len(pk)
    <3>1. h + n <= Len(pk) BY <2>1, <2>2
    <3> QED BY <2>1, <3>1, ShowsWithin
  <2>3. (Shows(h, n) = <<>>) <=> (n <= 0) BY <2>1, ShowsEmpty
  <2>4. sh = Shows(h, n) BY <1>2 DEF n
  <2>5. sh # <<>> => sh = Lines(h, n) BY <2>3, <2>4 DEF Shows
  <2>6. sn = "raw" /\ PayloadStart(pk) # 0 => ((n <= 0) <=> (h = Len(pk)))
    BY <1>0, <1>2 DEF n
  <2>7. PayloadStart(pk) # 0 => en - PayloadStart(pk) = n BY <1>2 DEF n
  <2> QED BY <1>2, <2>2, <2>3, <2>4, <2>5, <2>6, <2>7 DEF Right
<1>3. CASE At(b, 1).p = "tcp" /\ sh = Shows(TcpHeader(b), en - TcpHeader(b))
  <2>1. PayloadStart(pk) # 0 => PayloadStart(pk) = TcpHeader(b) /\ TcpHeader(b) <= Len(pk)
    BY <1>3, StartInBuffer
  <2> QED BY <1>0, <1>2, <1>3, <2>1
<1>4. CASE At(b, 1).p \in {"udp", "icmp"} /\ sh = Shows(UdpHeader(b), en - UdpHeader(b))
  <2>1. At(b, 1).p # "tcp" BY <1>4
  <2>2. PayloadStart(pk) # 0 => PayloadStart(pk) = UdpHeader(b) /\ UdpHeader(b) <= Len(pk)
    BY <2>1, StartInBuffer
  <2> QED BY <1>0, <1>2, <1>4, <2>2
<1> QED BY <1>1, <1>3, <1>4

\* The buffer begins with the packet that is to be shown.
SniffInv ==
  /\ buffer \in Buffers /\ packet \in Seq(Cells) /\ ip_len \in Nat
  /\ where = "setup" => packet = <<>>
  /\ where = "show" => \A i \in 1..Len(packet) : buffer[i] = packet[i]
  /\ PayloadShown

LEMMA SniffInitInv == SniffInit => SniffInv
<1> SUFFICES ASSUME SniffInit PROVE SniffInv OBVIOUS
<1>1. buffer \in Buffers BY DEF SniffInit, Buffers
<1>2. packet \in Seq(Cells) /\ packet = <<>> BY DEF SniffInit
<1>3. PayloadShown BY <1>2, PayloadShownIsRight
<1> QED BY <1>1, <1>2, <1>3 DEF SniffInit, SniffInv

\* A packet arrives.
LEMMA SniffArrives ==
  ASSUME SniffInv, Recvfrom \/ PcapLoop
  PROVE  SniffInv'
<1>0. Capacity \in Nat /\ SnapLen \in Nat /\ MaxLen \in Nat BY SnifferConstants
<1>1. CASE where' = "exit"
  <2>1. UNCHANGED <<sniffer, buffer, packet, ip_len>> BY <1>1 DEF Recvfrom, PcapLoop
  <2>2. PayloadShown' BY <1>1 DEF PayloadShown
  <2> QED BY <1>1, <2>1, <2>2 DEF SniffInv
<1>2. CASE where' = "show"
  <2> DEFINE m == Min({Capacity, SnapLen})
  <2>0. m \in Nat /\ m <= Capacity
    <3>1. m \in Int /\ m <= Capacity /\ m \in {Capacity, SnapLen}
      <4>1. Capacity \in Int /\ SnapLen \in Int BY <1>0
      <4> QED BY ONLY <4>1, Min2, Zenon
    <3> HIDE DEF m
    <3> QED BY <1>0, <3>1
  <2>1. \E s \in SeqOf(Cells, Capacity) \cup SeqOf(Cells, m) :
          /\ packet' = s /\ (ip_len' = ip_len \/ ip_len' \in 0..MaxLen)
          /\ \/ buffer' = [i \in DOMAIN buffer |-> IF i <= Len(s) THEN s[i] ELSE buffer[i]]
             \/ \E junk \in Cells :
                  buffer' = [i \in DOMAIN buffer |-> IF i <= Len(s) THEN s[i] ELSE junk]
    BY <1>2 DEF Recvfrom, PcapLoop
  <2> HIDE DEF m
  <2>2. PICK s \in SeqOf(Cells, Capacity) \cup SeqOf(Cells, m) :
          /\ packet' = s /\ (ip_len' = ip_len \/ ip_len' \in 0..MaxLen)
          /\ \/ buffer' = [i \in DOMAIN buffer |-> IF i <= Len(s) THEN s[i] ELSE buffer[i]]
             \/ \E junk \in Cells :
                  buffer' = [i \in DOMAIN buffer |-> IF i <= Len(s) THEN s[i] ELSE junk]
    BY <2>1
  <2>3. s \in Seq(Cells) /\ Len(s) \in Nat /\ Len(s) <= Capacity
    <3>1. CASE s \in SeqOf(Cells, Capacity) BY <1>0, <3>1, SeqOfIsSeq
    <3>2. CASE s \in SeqOf(Cells, m)
      <4>1. s \in Seq(Cells) /\ Len(s) <= m BY <2>0, <3>2, SeqOfIsSeq
      <4> QED BY <1>0, <2>0, <4>1
    <3> QED BY <3>1, <3>2
  <2>4. /\ DOMAIN buffer = 1..(2 * Capacity + 1)
        /\ \A i \in 1..(2 * Capacity + 1) : buffer[i] \in Cells
    BY DEF SniffInv, Buffers
  <2>5. \A i \in 1..Len(s) : s[i] \in Cells /\ i \in 1..(2 * Capacity + 1) BY <1>0, <2>3
  \* rest is what lies behind the packet.
  <2>6. \E rest \in [1..(2 * Capacity + 1) -> Cells] :
          buffer' = [i \in 1..(2 * Capacity + 1) |-> IF i <= Len(s) THEN s[i] ELSE rest[i]]
    <3>1. CASE buffer' = [i \in DOMAIN buffer |-> IF i <= Len(s) THEN s[i] ELSE buffer[i]]
      <4>1. buffer \in [1..(2 * Capacity + 1) -> Cells] BY DEF SniffInv, Buffers
      <4> QED BY <2>4, <3>1, <4>1
    <3>2. ASSUME NEW junk \in Cells,
                 buffer' = [i \in DOMAIN buffer |-> IF i <= Len(s) THEN s[i] ELSE junk]
          PROVE  \E rest \in [1..(2 * Capacity + 1) -> Cells] :
                   buffer' = [i \in 1..(2 * Capacity + 1) |-> IF i <= Len(s) THEN s[i] ELSE rest[i]]
      <4> DEFINE rest == [i \in 1..(2 * Capacity + 1) |-> junk]
      <4>1. rest \in [1..(2 * Capacity + 1) -> Cells] OBVIOUS
      <4>2. buffer' = [i \in 1..(2 * Capacity + 1) |-> IF i <= Len(s) THEN s[i] ELSE rest[i]]
        BY <2>4, <3>2
      <4> HIDE DEF rest
      <4> QED BY <4>1, <4>2
    <3> QED BY <2>2, <3>1, <3>2
  <2>7. PICK rest \in [1..(2 * Capacity + 1) -> Cells] :
          buffer' = [i \in 1..(2 * Capacity + 1) |-> IF i <= Len(s) THEN s[i] ELSE rest[i]]
    BY <2>6
  <2>8. \A i \in 1..(2 * Capacity + 1) : (IF i <= Len(s) THEN s[i] ELSE rest[i]) \in Cells
    BY <1>0, <2>3, <2>7
  <2>9. buffer' \in Buffers BY <2>7, <2>8 DEF Buffers
  <2>10. \A i \in 1..Len(s) : buffer'[i] = s[i] BY <2>3, <2>5, <2>7
  <2>11. ip_len' \in Nat BY <1>0, <2>2 DEF SniffInv
  <2>12. PayloadShown' BY <1>2 DEF PayloadShown
  <2> QED BY <1>2, <2>2, <2>3, <2>9, <2>10, <2>11, <2>12 DEF SniffInv
<1> QED BY <1>1, <1>2 DEF Recvfrom, PcapLoop

\* It is dissected and dumped.
LEMMA SniffDumps ==
  ASSUME SniffInv, ProcessPacket \/ GotPacket
  PROVE  SniffInv'
<1>1. /\ where = "show" /\ where' = "recv" /\ UNCHANGED <<sniffer, buffer, packet, ip_len>>
  BY DEF ProcessPacket, GotPacket
<1>2. buffer \in Buffers /\ packet \in Seq(Cells) /\ ip_len \in Nat /\ Len(packet) \in Nat
  BY DEF SniffInv
<1>3. At(buffer, 1).p \in {"tcp", "udp", "icmp", "other"}
  <2>1. At(buffer, 1) \in Cells BY <1>2, Headers
  <2> QED BY <2>1, SnifferConstants
<1> DEFINE b == buffer
<1>4. /\ TcpHeader(b) \in Nat /\ UdpHeader(b) \in Nat /\ IcmpHeader(b) = UdpHeader(b)
      /\ IpEnd(b) \in 1..(Capacity + 1)
  BY <1>2, Headers
<1>5. Right(sniffer, packet, End, shown')
  <2>1. \A i \in 1..Len(packet) : buffer[i] = packet[i] BY <1>1 DEF SniffInv
  <2>2. End \in Int /\ (sniffer = "raw" => End = Len(packet)) BY <1>2 DEF End
  <2>3. \/ shown' = <<>> /\ (sniffer = "raw" => At(b, 1).p = "other")
        \/ /\ At(b, 1).p = "tcp"
           /\ shown' = Shows(TcpHeader(b), End - TcpHeader(b))
        \/ /\ At(b, 1).p \in {"udp", "icmp"}
           /\ shown' = Shows(UdpHeader(b), End - UdpHeader(b))
    <3>1. CASE ProcessPacket
      <4>1. End = Len(packet) BY <3>1 DEF ProcessPacket, End
      <4>2. ASSUME NEW h \in Nat
            PROVE  PrintData(h, Len(packet) - h) = Shows(h, End - h)
        <5>1. h \in Int /\ Len(packet) - h \in Int BY <1>2, <4>2
        <5> QED BY <4>1, <5>1, DumpsShow
      <4>3. shown' = CASE At(b, 1).p = "tcp"  -> PrintData(TcpHeader(b), Len(packet) - TcpHeader(b))
                       [] At(b, 1).p = "udp"  -> PrintData(UdpHeader(b), Len(packet) - UdpHeader(b))
                       [] At(b, 1).p = "icmp" -> PrintData(IcmpHeader(b), Len(packet) - IcmpHeader(b))
                       [] OTHER -> <<>>
        BY <3>1 DEF ProcessPacket
      <4> HIDE DEF b
      <4>4. CASE At(b, 1).p = "tcp" BY <1>4, <4>2, <4>3, <4>4
      <4>5. CASE At(b, 1).p = "udp" BY <1>4, <4>2, <4>3, <4>5
      <4>6. CASE At(b, 1).p = "icmp" BY <1>4, <4>2, <4>3, <4>6
      <4>7. CASE At(b, 1).p = "other" BY <4>3, <4>7
      <4> QED BY <1>3, <4>4, <4>5, <4>6, <4>7 DEF b
    <3>2. CASE GotPacket
      <4>1. sniffer = "pcap" /\ End = 1 + ip_len BY <3>2 DEF GotPacket, End
      <4> DEFINE h == TcpHeader(b)
                 n == ip_len - (h - 1)
      <4>2. shown' = <<>> \/ (At(b, 1).p = "tcp" /\ shown' = PrintPayload(h, n))
        BY <3>2 DEF GotPacket
      <4>3. h \in Int /\ n \in Int /\ n = End - h
        <5> HIDE DEF b
        <5> QED BY <1>2, <1>4, <4>1
      <4> HIDE DEF h, n, b
      <4>4. PrintPayload(h, n) = Shows(h, n) BY <4>3, DumpsShow
      <4> QED BY <4>1, <4>2, <4>3, <4>4 DEF h
    <3> QED BY <3>1, <3>2
  <2> QED BY <1>2, <2>1, <2>2, <2>3, DumpRight
<1>6. PayloadShown'
  <2> SUFFICES ASSUME packet' # <<>> PROVE Right(sniffer, packet, End, shown)'
    BY DEF PayloadShown, Right, Within
  <2>1. End' = End BY <1>1 DEF End
  <2> QED BY <1>1, <1>5, <2>1
<1> QED BY <1>1, <1>6 DEF SniffInv

LEMMA SniffNextInv == SniffInv /\ [SniffNext]_sniffVars => SniffInv'
<1> SUFFICES ASSUME SniffInv, [SniffNext]_sniffVars PROVE SniffInv'
  OBVIOUS
<1>1. CASE OpenRaw \/ OpenDgram \/ OpenPcap
  <2>1. /\ where = "setup" /\ where' \in {"recv", "exit"}
        /\ UNCHANGED <<sniffer, buffer, packet, ip_len>>
    BY <1>1 DEF OpenRaw, OpenDgram, OpenPcap
  <2>2. packet' = <<>> BY <2>1 DEF SniffInv
  <2>3. PayloadShown' BY <2>2 DEF PayloadShown
  <2> QED BY <2>1, <2>2, <2>3 DEF SniffInv
<1>2. CASE Recvfrom \/ PcapLoop BY <1>2, SniffArrives
<1>3. CASE ProcessPacket \/ GotPacket BY <1>3, SniffDumps
<1>4. CASE PcapClose
  <2>1. where' = "exit" /\ UNCHANGED <<sniffer, buffer, packet, ip_len>> BY <1>4 DEF PcapClose
  <2>2. PayloadShown' BY <2>1 DEF PayloadShown
  <2> QED BY <2>1, <2>2 DEF SniffInv
<1>5. CASE UNCHANGED sniffVars
  <2>1. PayloadShown' BY <1>5 DEF sniffVars, PayloadShown, SniffInv, End, Within
  <2> QED BY <1>5, <2>1 DEF sniffVars, SniffInv
<1> QED BY <1>1, <1>2, <1>3, <1>4, <1>5 DEF SniffNext

\* Whatever is received, in whatever order, with whatever left in the buffer and
\* whatever the headers claim: a dump shows bytes of the packet only, unless the
\* IP header claims more than libpcap captured, and of a packet that has its
\* headers exactly the payload, up to the claimed end, in lines of any width.
THEOREM PayloadAlwaysShown == SniffSpec => []PayloadShown
<1>1. SniffInv => PayloadShown BY DEF SniffInv
<1> QED BY <1>1, SniffInitInv, SniffNextInv, PTL DEF SniffSpec

-----------------------------------------------------------------------------
(***************************************************************************)
(* Enqueue.                                                                *)
(***************************************************************************)
Whole == Meta \o Frame

\* The head of the i-th entry the guest has posted, and the buffer of the i-th
\* entry the thread has used.
D(i) == ring[i % Size]
U(i) == used[i % Size][1]

\* Where the part of the frame that the i-th buffer holds starts, if w tells
\* where those of the buffers end: each frame has NBufs buffers.
Start(w, i) == IF i % NBufs = 0 THEN 0 ELSE w[i - 1]

\* The i-th buffer, the descriptor d of length len, holds m, the part of the
\* frame that ends at w[i], as its used entry u says.
Holds(w, i, d, len, m, u) ==
  /\ Start(w, i) <= w[i] /\ w[i] = Min({Len(Whole), Start(w, i) + len})
  /\ m = SubSeq(Whole, Start(w, i) + 1, w[i]) /\ u = <<d, w[i] - Start(w, i)>>

\* The one chain.
EnqDesc ==
  /\ desc \in [Slots -> [len : BufLens, next : {None, 1}, write : BOOLEAN]]
  /\ \A d \in Slots : desc[d].next # None => d = 0

EnqTypes ==
  /\ ring \in [Slots -> Slots] /\ owned \subseteq Slots
  /\ used \in [Slots -> Slots \X Nat] /\ mem \in [Slots -> Seq(Nat)]
  /\ buf_vec \in Seq(Slots) /\ cursor \in Slots
  /\ taken \in Nat /\ last_used_idx \in Nat /\ avail_idx \in Nat /\ a_idx \in Nat

\* The thread's indices agree, and a frame starts where one does.
EnqIndices ==
  /\ last_avail_idx = last_used_idx /\ used_idx = last_used_idx /\ taken <= last_used_idx
  /\ last_used_idx % NBufs = IF epc = "fill" THEN cnt ELSE 0

\* The next entry that the thread will look at: an entry with a chain is one
\* entry, but the thread counts its buffers.
NextEntry ==
  IF epc = "collect" THEN a_idx + 1
  ELSE IF epc = "fill" THEN last_used_idx + (NBufs - cnt)
  ELSE last_used_idx

\* A descriptor is in one place only: kind and at tell which.  It is the
\* guest's, a used entry, among the collected, posted, what the thread looks
\* at, or what follows one of the last two.
Kinds == {"own", "used", "vec", "ring", "cursor", "tail"}
Continues(kind, ds, d) == ds[d].next # None => ds[d].next \in Slots /\ kind[ds[d].next] = "tail"
OwnPlaced(kind) == \A d \in owned : kind[d] = "own"
UsedPlaced(kind, at) ==
  \A i \in taken..(last_used_idx - 1) : kind[U(i)] = "used" /\ at[U(i)] = i
VecPlaced(kind, at) ==
  epc \in {"collect", "fill"} =>
    \A k \in (cnt + 1)..Len(buf_vec) : kind[buf_vec[k]] = "vec" /\ at[buf_vec[k]] = k
RingPlaced(kind, at) ==
  epc # "aborted" =>
    \A j \in Nat : NextEntry <= j /\ j < avail_idx =>
      kind[D(j)] = "ring" /\ at[D(j)] = j /\ Continues(kind, desc, D(j))
CursorPlaced(kind) == epc = "collect" => kind[cursor] = "cursor" /\ Continues(kind, desc, cursor)

EnqPlaces ==
  \E kind \in [Slots -> Kinds], at \in [Slots -> Int] :
    /\ OwnPlaced(kind) /\ UsedPlaced(kind, at) /\ VecPlaced(kind, at)
    /\ RingPlaced(kind, at) /\ CursorPlaced(kind)

\* What the buffers hold that the guest has yet to take back.
EnqFrames ==
  \E w \in [Nat -> 0..Len(Whole)] :
    /\ \A i \in taken..(last_used_idx - 1) :
         Holds(w, i, U(i), desc[U(i)].len, mem[U(i)], used[i % Size])
    /\ epc = "fill" /\ cnt > 0 => w[last_used_idx - 1] = Len(Meta) + written_len
    /\ taken % NBufs # 0 => w[taken - 1] = Min({Len(Whole), room})

\* What the thread has collected, and what it has written of a frame.
EnqThread ==
  /\ epc = "collect" =>
       /\ Len(buf_vec) < NBufs /\ cnt = 0 /\ written_len = 0
       /\ a_idx <= last_used_idx + Len(buf_vec)
  /\ epc = "fill" =>
       /\ Len(buf_vec) = NBufs /\ cnt \in 0..(NBufs - 1)
       /\ written_len \in Nat /\ (cnt = 0 => written_len = 0)

EnqPart ==
  /\ part \in Seq(Nat) /\ room \in Nat
  /\ part = SubSeq(Whole, 1, Min({Len(Whole), room}))

EnqCore == EnqTypes /\ EnqIndices /\ EnqPlaces /\ EnqFrames /\ EnqThread /\ EnqPart

EnqInv ==
  /\ EnqDesc
  /\ short \in BOOLEAN /\ spilled \in BOOLEAN
  /\ ~ short /\ ~ spilled => EnqCore

LEMMA EnqueueConstants ==
  /\ Size \in Nat /\ Size > 0 /\ NBufs \in Nat /\ NBufs > 0 /\ NBufs <= Size
  /\ Meta \in Seq(Nat) /\ Frame \in Seq(Nat)
  /\ Len(Meta) \in Nat /\ Len(Frame) \in Nat
  /\ \A l \in BufLens : l \in Nat
BY EnqueueAssumption

LEMMA WholeType ==
  /\ Whole \in Seq(Nat) /\ Len(Whole) = Len(Meta) + Len(Frame) /\ Len(Whole) \in Nat
  /\ \A i \in 1..Len(Meta) : Whole[i] = Meta[i]
  /\ \A i \in 1..Len(Frame) : Whole[Len(Meta) + i] = Frame[i]
BY EnqueueConstants DEF Whole

\* Entries of a ring that are less than its size apart are different ones.
LEMMA SlotOf ==
  ASSUME NEW i \in Nat
  PROVE  i % Size \in Slots
BY EnqueueConstants DEF Slots

LEMMA SlotsApart ==
  ASSUME NEW x \in Nat, NEW y \in Nat, x <= y, y - x < Size, x % Size = y % Size
  PROVE  x = y
<1>0. Size \in Nat /\ Size > 0 BY EnqueueConstants
<1> DEFINE p == x \div Size
           q == y \div Size
           r == x % Size
<1>1. p \in Int /\ r \in Int /\ x = Size * p + r BY <1>0
<1>2. q \in Int /\ y = Size * q + r BY <1>0
<1> HIDE DEF p, q, r
<1>3. Size * (q - p) = Size * q - Size * p BY <1>0, <1>1, <1>2
<1>4. Size * (q - p) = y - x
  <2>1. Size * q \in Int /\ Size * p \in Int BY <1>0, <1>1, <1>2
  <2> QED BY <1>1, <1>2, <1>3, <2>1
<1>5. ASSUME NEW d \in Int, 0 <= Size * d, Size * d < Size PROVE d = 0
  BY <1>0, <1>5
<1>6. q - p = 0 BY <1>1, <1>2, <1>4, <1>5
<1>7. Size * (q - p) = 0 BY <1>0, <1>6
<1> QED BY <1>4, <1>7

LEMMA SlotsDiffer ==
  ASSUME NEW x \in Nat, NEW y \in Nat, x # y, x - y < Size, y - x < Size
  PROVE  x % Size # y % Size
BY SlotsApart

-----------------------------------------------------------------------------
(***************************************************************************)
(* Pieces of a sequence.                                                   *)
(***************************************************************************)
LEMMA PieceType ==
  ASSUME NEW s \in Seq(Nat), NEW a \in Nat, NEW b \in Nat, a <= b, b <= Len(s)
  PROVE  /\ SubSeq(s, a + 1, b) \in Seq(Nat) /\ Len(SubSeq(s, a + 1, b)) = b - a
         /\ \A i \in 1..(b - a) : SubSeq(s, a + 1, b)[i] = s[a + i]
<1>1. \A i \in (a + 1)..b : i \in 1..Len(s) OBVIOUS
<1>2. SubSeq(s, a + 1, b) \in Seq(Nat) BY <1>1
<1>3. Len(SubSeq(s, a + 1, b)) = b - a OBVIOUS
<1>4. \A i \in 1..(b - a) : SubSeq(s, a + 1, b)[i] = s[a + i] OBVIOUS
<1> QED BY <1>2, <1>3, <1>4

\* What a concatenation is.
LEMMA ConcatIs ==
  ASSUME NEW x \in Seq(Nat), NEW y \in Seq(Nat), NEW z \in Seq(Nat), Len(z) = Len(x) + Len(y),
         \A i \in 1..Len(x) : z[i] = x[i], \A i \in 1..Len(y) : z[Len(x) + i] = y[i]
  PROVE  x \o y = z
<1> DEFINE u == x \o y
<1>1. u \in Seq(Nat) /\ Len(u) = Len(x) + Len(y) OBVIOUS
<1>2. \A i \in 1..Len(x) : u[i] = x[i] OBVIOUS
<1>3. \A i \in 1..Len(y) : u[Len(x) + i] = y[i] OBVIOUS
<1>4. Len(x) \in Nat /\ Len(y) \in Nat OBVIOUS
<1> HIDE DEF u
<1>5. ASSUME NEW i \in 1..Len(u) PROVE u[i] = z[i]
  <2>1. CASE i <= Len(x)
    <3>1. i \in 1..Len(x) BY <1>1, <1>4, <2>1
    <3> QED BY <1>2, <3>1
  <2>2. CASE i > Len(x)
    <3>1. i - Len(x) \in 1..Len(y) /\ Len(x) + (i - Len(x)) = i BY <1>1, <1>4, <2>2
    <3> DEFINE j == i - Len(x)
    <3> HIDE DEF j
    <3>2. u[Len(x) + j] = y[j] BY <1>3, <3>1 DEF j
    <3>3. z[Len(x) + j] = y[j] BY <3>1 DEF j
    <3>4. Len(x) + j = i BY <3>1 DEF j
    <3> QED BY <3>2, <3>3, <3>4
  <2> QED BY <1>1, <1>4, <2>1, <2>2
<1>6. u = z
  <2>1. Len(u) = Len(z) BY <1>1
  <2>2. u = [i \in 1..Len(u) |-> u[i]] BY <1>1, SeqIsFunction
  <2>3. z = [i \in 1..Len(z) |-> z[i]] BY SeqIsFunction
  <2> QED BY <1>5, <2>1, <2>2, <2>3
<1> QED BY <1>6 DEF u

\* Two pieces that meet.
LEMMA PiecesMeet ==
  ASSUME NEW s \in Seq(Nat), NEW a \in Nat, NEW b \in Nat, a <= b, b <= Len(s)
  PROVE  SubSeq(s, 1, a) \o SubSeq(s, a + 1, b) = SubSeq(s, 1, b)
<1> DEFINE x == SubSeq(s, 0 + 1, a)
           y == SubSeq(s, a + 1, b)
           z == SubSeq(s, 0 + 1, b)
<1>1. x \in Seq(Nat) /\ Len(x) = a - 0 /\ \A i \in 1..(a - 0) : x[i] = s[0 + i] BY PieceType
<1>2. y \in Seq(Nat) /\ Len(y) = b - a /\ \A i \in 1..(b - a) : y[i] = s[a + i] BY PieceType
<1>3. z \in Seq(Nat) /\ Len(z) = b - 0 /\ \A i \in 1..(b - 0) : z[i] = s[0 + i] BY PieceType
<1> HIDE DEF x, y, z
<1>4. Len(x) = a /\ Len(y) = b - a /\ Len(z) = b BY <1>1, <1>2, <1>3
<1>5. Len(z) = Len(x) + Len(y) BY <1>4
<1>6. ASSUME NEW i \in 1..Len(x) PROVE z[i] = x[i]
  <2>1. i \in 1..(a - 0) /\ i \in 1..(b - 0) /\ 0 + i = i BY <1>4
  <2> QED BY <1>1, <1>3, <2>1
<1>7. ASSUME NEW i \in 1..Len(y) PROVE z[Len(x) + i] = y[i]
  <2>1. i \in 1..(b - a) /\ a + i \in 1..(b - 0) /\ 0 + (a + i) = a + i BY <1>4
  <2>2. z[a + i] = s[a + i] BY <1>3, <2>1
  <2> QED BY <1>2, <1>4, <2>1, <2>2
<1>8. x \o y = z BY <1>1, <1>2, <1>3, <1>5, <1>6, <1>7, ConcatIs
<1>9. 0 + 1 = 1 OBVIOUS
<1> QED BY <1>8, <1>9 DEF x, y, z

LEMMA WholePiece ==
  ASSUME NEW s \in Seq(Nat)
  PROVE  SubSeq(s, 1, Len(s)) = s
OBVIOUS

\* What the thread writes, as pieces of metadata and frame together.
LEMMA FirstPiece ==
  ASSUME NEW c \in Nat, c <= Len(Frame)
  PROVE  Meta \o SubSeq(Frame, 0 + 1, 0 + c) = SubSeq(Whole, 0 + 1, Len(Meta) + c)
<1> DEFINE m == Len(Meta)
           y == SubSeq(Frame, 0 + 1, c)
           z == SubSeq(Whole, 0 + 1, m + c)
<1>0. Meta \in Seq(Nat) /\ Frame \in Seq(Nat) /\ m \in Nat BY EnqueueConstants
<1>1. y \in Seq(Nat) /\ Len(y) = c - 0 /\ \A i \in 1..(c - 0) : y[i] = Frame[0 + i]
  BY <1>0, PieceType
<1>2. /\ z \in Seq(Nat) /\ Len(z) = (m + c) - 0
      /\ \A i \in 1..((m + c) - 0) : z[i] = Whole[0 + i]
  <2>1. m + c \in Nat /\ 0 <= m + c /\ m + c <= Len(Whole) BY <1>0, WholeType, EnqueueConstants
  <2> HIDE DEF m
  <2> QED BY <2>1, WholeType, PieceType
<1> HIDE DEF y, z
<1>3. Len(y) = c /\ Len(z) = m + c /\ Len(Meta) = m BY <1>0, <1>1, <1>2
<1>4. ASSUME NEW i \in 1..Len(Meta) PROVE z[i] = Meta[i]
  <2>1. i \in 1..((m + c) - 0) /\ 0 + i = i BY <1>0
  <2>2. z[i] = Whole[i] BY <1>2, <2>1
  <2> QED BY <2>2, WholeType
<1>5. ASSUME NEW i \in 1..Len(y) PROVE z[Len(Meta) + i] = y[i]
  <2>1. /\ i \in 1..(c - 0) /\ m + i \in 1..((m + c) - 0) /\ 0 + (m + i) = m + i
        /\ i \in 1..Len(Frame) /\ 0 + i = i
    BY <1>0, <1>3, EnqueueConstants
  <2>2. z[m + i] = Whole[m + i] BY <1>2, <2>1
  <2>3. y[i] = Frame[i] BY <1>1, <2>1
  <2>4. Whole[Len(Meta) + i] = Frame[i] BY <2>1, WholeType
  <2> QED BY <2>2, <2>3, <2>4
<1>7. Meta \o y = z
  <2>1. Len(z) = Len(Meta) + Len(y) BY <1>3
  <2> HIDE DEF m
  <2> QED BY <1>0, <1>1, <1>2, <1>4, <1>5, <2>1, ConcatIs
<1>6. 0 + c = c OBVIOUS
<1> QED BY <1>6, <1>7 DEF y, z

LEMMA LaterPiece ==
  ASSUME NEW a \in Nat, NEW c \in Nat, a + c <= Len(Frame)
  PROVE  SubSeq(Frame, a + 1, a + c)
           = SubSeq(Whole, (Len(Meta) + a) + 1, Len(Meta) + (a + c))
<1> DEFINE m == Len(Meta)
           y == SubSeq(Frame, a + 1, a + c)
           z == SubSeq(Whole, (m + a) + 1, m + (a + c))
<1>0. Meta \in Seq(Nat) /\ Frame \in Seq(Nat) /\ m \in Nat BY EnqueueConstants
<1>1. /\ y \in Seq(Nat) /\ Len(y) = (a + c) - a
      /\ \A i \in 1..((a + c) - a) : y[i] = Frame[a + i]
  <2>1. a + c \in Nat /\ a <= a + c OBVIOUS
  <2> QED BY <1>0, <2>1, PieceType
<1>2. /\ z \in Seq(Nat) /\ Len(z) = (m + (a + c)) - (m + a)
      /\ \A i \in 1..((m + (a + c)) - (m + a)) : z[i] = Whole[(m + a) + i]
  <2>1. /\ m + a \in Nat /\ m + (a + c) \in Nat /\ m + a <= m + (a + c)
        /\ m + (a + c) <= Len(Whole)
    BY <1>0, WholeType, EnqueueConstants
  <2> HIDE DEF m
  <2> QED BY <2>1, WholeType, PieceType
<1> HIDE DEF y, z
<1>3. Len(y) = c /\ Len(z) = c BY <1>0, <1>1, <1>2
<1>4. \A i \in 1..c : y[i] = z[i]
  <2> TAKE i \in 1..c
  <2>1. a + i \in 1..Len(Frame) /\ (m + a) + i = m + (a + i) BY <1>0, EnqueueConstants
  <2>2. y[i] = Frame[a + i] BY <1>1
  <2>3. z[i] = Whole[m + (a + i)] BY <1>0, <1>2, <2>1
  <2>4. Whole[m + (a + i)] = Frame[a + i] BY <2>1, WholeType
  <2> QED BY <2>2, <2>3, <2>4
<1>5. y = z BY <1>1, <1>2, <1>3, <1>4
<1> QED BY <1>5 DEF y, z

\* Frames start NBufs buffers apart.
LEMMA RemFrame ==
  ASSUME NEW q \in Int, NEW r \in 0..(NBufs - 1), NEW x \in Int, x = q * NBufs + r
  PROVE  x % NBufs = r
BY EnqueueConstants

LEMMA RemOf ==
  ASSUME NEW x \in Nat
  PROVE  /\ x % NBufs \in 0..(NBufs - 1) /\ x \div NBufs \in Int
         /\ x = (x \div NBufs) * NBufs + (x % NBufs)
BY EnqueueConstants

LEMMA FrameAdd ==
  ASSUME NEW x \in Nat, NEW k \in Nat, (x % NBufs) + k < NBufs
  PROVE  (x + k) % NBufs = (x % NBufs) + k
<1> DEFINE q == x \div NBufs
           r == x % NBufs
<1>1. q \in Int /\ r \in Nat /\ x = q * NBufs + r BY RemOf, EnqueueConstants
<1> HIDE DEF q, r
<1>2. r + k \in 0..(NBufs - 1) BY <1>1, EnqueueConstants DEF r
<1>3. x + k = q * NBufs + (r + k)
  <2>1. q * NBufs \in Int BY <1>1, EnqueueConstants
  <2> QED BY <1>1, <2>1
<1>4. x + k \in Int OBVIOUS
<1>5. (x + k) % NBufs = r + k BY ONLY <1>1, <1>2, <1>3, <1>4, RemFrame
<1> QED BY <1>5 DEF r

LEMMA FrameNext ==
  ASSUME NEW x \in Nat, NEW k \in Nat, (x % NBufs) + k = NBufs
  PROVE  (x + k) % NBufs = 0
<1> DEFINE q == x \div NBufs
           r == x % NBufs
<1>1. q \in Int /\ r \in Nat /\ x = q * NBufs + r BY RemOf, EnqueueConstants
<1> HIDE DEF q, r
<1>2. x + k = (q + 1) * NBufs + 0
  <2>1. q * NBufs \in Int /\ (q + 1) * NBufs = q * NBufs + NBufs BY <1>1, EnqueueConstants
  <2>2. r + k = NBufs BY DEF r
  <2> QED BY <1>1, <2>1, <2>2, EnqueueConstants
<1>3. x + k \in Int /\ q + 1 \in Int /\ 0 \in 0..(NBufs - 1) BY <1>1, EnqueueConstants
<1> QED BY ONLY <1>2, <1>3, RemFrame

LEMMA MinIs ==
  ASSUME NEW a \in Nat, NEW b \in Nat
  PROVE  Min({a, b}) = IF a <= b THEN a ELSE b
<1>1. a \in Int /\ b \in Int OBVIOUS
<1>2. /\ Min({a, b}) \in Int /\ Min({a, b}) <= a /\ Min({a, b}) <= b
      /\ Min({a, b}) \in {a, b}
  BY ONLY <1>1, Min2, Zenon
<1> QED BY <1>2


\* What one turn of the loop writes into the x-th buffer, of length n, when wl
\* of the frame is written: the part that starts at st.
MetaOf(x) == IF x = 0 THEN Meta ELSE <<>>
ChunkOf(x, wl, n) == Min({Len(Frame) - wl, n - Len(MetaOf(x))})
Writes(x, wl, n) == MetaOf(x) \o SubSeq(Frame, wl + 1, wl + ChunkOf(x, wl, n))

Filled(x, wl, n, st) ==
  LET c == ChunkOf(x, wl, n)
      e == Min({Len(Whole), st + n})
  IN  /\ c \in Nat /\ e \in 0..Len(Whole) /\ st <= e
      /\ Writes(x, wl, n) = SubSeq(Whole, st + 1, e)
      /\ c + Len(MetaOf(x)) = e - st /\ e = Len(Meta) + (wl + c)

LEMMA FillsFirst ==
  ASSUME NEW n \in Nat, n >= Len(Meta)
  PROVE  Filled(0, 0, n, 0)
<1> DEFINE c == ChunkOf(0, 0, n)
           e == Min({Len(Whole), 0 + n})
           m == Len(Meta)
           f == Len(Frame)
<1>0. MetaOf(0) = Meta BY DEF MetaOf
<1>1. m \in Nat /\ f \in Nat /\ Len(Whole) = m + f /\ n >= m BY EnqueueConstants, WholeType
<1>2. c = Min({f - 0, n - m}) BY <1>0 DEF ChunkOf
<1> HIDE DEF c, e, m, f
<1>3. f - 0 \in Nat /\ n - m \in Nat /\ m + f \in Nat /\ 0 + n \in Nat BY <1>1
<1>4. c = IF f - 0 <= n - m THEN f - 0 ELSE n - m BY ONLY <1>2, <1>3, MinIs
<1>5. e = IF m + f <= 0 + n THEN m + f ELSE 0 + n
  <2>1. e = Min({m + f, 0 + n}) BY <1>1 DEF e
  <2> QED BY ONLY <1>3, <2>1, MinIs
<1>6. c \in Nat /\ e \in Nat /\ e = m + c /\ c <= f /\ e <= m + f BY ONLY <1>1, <1>4, <1>5
<1>7. Meta \o SubSeq(Frame, 0 + 1, 0 + c) = SubSeq(Whole, 0 + 1, m + c)
  BY <1>6, FirstPiece DEF m, f
<1>8. Writes(0, 0, n) = SubSeq(Whole, 0 + 1, e) BY <1>0, <1>6, <1>7 DEF Writes, c
<1>9. e \in 0..Len(Whole) BY <1>1, <1>6
<1>10. c + Len(MetaOf(0)) = e - 0 /\ e = Len(Meta) + (0 + c) BY <1>0, <1>1, <1>6 DEF m
<1>11. 0 <= e BY <1>6
<1> QED BY ONLY <1>6, <1>8, <1>9, <1>10, <1>11, Zenon DEF c, e, Filled

LEMMA FillsLater ==
  ASSUME NEW x \in Nat, x > 0, NEW n \in Nat, NEW wl \in Nat, Len(Meta) + wl <= Len(Whole)
  PROVE  Filled(x, wl, n, Len(Meta) + wl)
<1> DEFINE c == ChunkOf(x, wl, n)
           st == Len(Meta) + wl
           e == Min({Len(Whole), st + n})
           m == Len(Meta)
           f == Len(Frame)
<1>0. MetaOf(x) = <<>> /\ Len(MetaOf(x)) = 0 BY DEF MetaOf
<1>1. m \in Nat /\ f \in Nat /\ Len(Whole) = m + f /\ m + wl <= m + f BY EnqueueConstants, WholeType
<1>2. c = Min({f - wl, n - 0}) BY <1>0 DEF ChunkOf
<1>3. st = m + wl OBVIOUS
<1>4. e = Min({m + f, st + n}) BY <1>1
<1> HIDE DEF c, e, m, f, st
<1>5. f - wl \in Nat /\ n - 0 \in Nat /\ m + f \in Nat /\ st + n \in Nat BY <1>1, <1>3
<1>6. c = IF f - wl <= n - 0 THEN f - wl ELSE n - 0 BY ONLY <1>2, <1>5, MinIs
<1>7. e = IF m + f <= st + n THEN m + f ELSE st + n BY ONLY <1>4, <1>5, MinIs
<1>8. /\ c \in Nat /\ e \in Nat /\ e = m + (wl + c) /\ wl + c <= f /\ e <= m + f /\ st <= e
      /\ c + 0 = e - st
  BY <1>1, <1>3, <1>6, <1>7
<1>9. SubSeq(Frame, wl + 1, wl + c) = SubSeq(Whole, (m + wl) + 1, m + (wl + c))
  <2>1. wl + c <= Len(Frame) BY <1>8 DEF f
  <2> QED BY <1>8, <2>1, LaterPiece DEF m
<1>10. SubSeq(Frame, wl + 1, wl + c) \in Seq(Nat)
  <2>1. wl + c \in Nat /\ wl <= wl + c /\ wl + c <= Len(Frame) BY <1>8 DEF f
  <2>2. Frame \in Seq(Nat) BY EnqueueConstants
  <2> QED BY <2>1, <2>2, PieceType
<1>11. Writes(x, wl, n) = SubSeq(Whole, st + 1, e)
  <2> DEFINE s == SubSeq(Frame, wl + 1, wl + c)
  <2>1. Writes(x, wl, n) = <<>> \o s BY <1>0 DEF Writes, c
  <2>2. s \in Seq(Nat) BY <1>10
  <2> HIDE DEF s
  <2>3. <<>> \o s = s
    <3>1. <<>> \in Seq(Nat) /\ Len(<<>>) = 0 OBVIOUS
    <3>2. Len(s) = Len(<<>>) + Len(s) /\ \A i \in 1..Len(s) : s[Len(<<>>) + i] = s[i]
      <4>1. Len(s) \in Nat BY <2>2
      <4>2. \A i \in 1..Len(s) : 0 + i = i BY <4>1
      <4> QED BY ONLY <3>1, <4>1, <4>2
    <3>3. \A i \in 1..Len(<<>>) : s[i] = <<>>[i] BY <3>1
    <3> QED BY <2>2, <3>1, <3>2, <3>3, ConcatIs
  <2> QED BY <1>3, <1>8, <1>9, <2>1, <2>3 DEF s
<1>12. e \in 0..Len(Whole) BY <1>1, <1>8
<1>13. c + Len(MetaOf(x)) = e - st BY <1>0, <1>8
<1>14. e = Len(Meta) + (wl + c) BY <1>8 DEF m
<1>15. c \in Nat /\ st <= e BY <1>8
<1> QED BY ONLY <1>11, <1>12, <1>13, <1>14, <1>15, Zenon DEF c, e, st, Filled

LEMMA Fills ==
  ASSUME NEW x \in Nat, NEW n \in Nat, n >= Len(MetaOf(x)), NEW wl \in Nat, NEW st \in 0..Len(Whole),
         IF x = 0 THEN st = 0 /\ wl = 0 ELSE st = Len(Meta) + wl
  PROVE  Filled(x, wl, n, st)
<1>1. CASE x = 0
  <2>1. st = 0 /\ wl = 0 BY <1>1
  <2>2. Filled(0, 0, n, 0) BY <1>1, FillsFirst DEF MetaOf
  <2> QED BY ONLY <1>1, <2>1, <2>2, Zenon
<1>2. CASE x # 0
  <2>1. Len(Meta) + wl <= Len(Whole) /\ x > 0 /\ st = Len(Meta) + wl BY <1>2, WholeType
  <2>2. Filled(x, wl, n, Len(Meta) + wl) BY <2>1, FillsLater
  <2> QED BY ONLY <2>1, <2>2, Zenon
<1> QED BY <1>1, <1>2

\* A buffer given back before holds what it held.
LEMMA HoldsOther ==
  ASSUME NEW w \in [Nat -> 0..Len(Whole)], NEW l \in Nat, NEW e \in 0..Len(Whole),
         NEW i \in Nat, i < l, NEW d, NEW len, NEW m, NEW u, Holds(w, i, d, len, m, u)
  PROVE  Holds([w EXCEPT ![l] = e], i, d, len, m, u)
<1> DEFINE v == [w EXCEPT ![l] = e]
<1>1. v[i] = w[i] OBVIOUS
<1>2. Start(v, i) = Start(w, i)
  <2>1. CASE i % NBufs = 0 BY <2>1 DEF Start
  <2>2. CASE i % NBufs # 0
    <3>1. v[i - 1] = w[i - 1]
      <4>1. i - 1 # l OBVIOUS
      <4> QED BY <4>1
    <3> HIDE DEF v
    <3> QED BY <2>2, <3>1 DEF Start
  <2> QED BY <2>1, <2>2
<1> HIDE DEF v
<1>3. Holds(v, i, d, len, m, u) BY <1>1, <1>2, Zenon DEF Holds
<1> QED BY <1>3 DEF v

\* The ring has an entry for every buffer.
LEMMA EntryLeft ==
  ASSUME NEW t \in Nat, NEW a \in Nat, t <= a, NEW g \in [t..(a - 1) -> Slots], NEW d \in Slots,
         \A i \in t..(a - 1) : g[i] # d,
         \A i, j \in t..(a - 1) : g[i] = g[j] => i = j
  PROVE  a - t < Size
<1> SUFFICES ASSUME a - t >= Size PROVE FALSE BY EnqueueConstants
<1> DEFINE S == t..(a - 1)
           T == Slots \ {d}
<1>0. Size \in Nat /\ Size > 0 BY EnqueueConstants
<1>1. IsFiniteSet(Slots) /\ Cardinality(Slots) = Size
  <2>1. 0 \in Int /\ Size - 1 \in Int BY <1>0
  <2>2. /\ IsFiniteSet(0..(Size - 1))
        /\ Cardinality(0..(Size - 1)) = IF 0 > Size - 1 THEN 0 ELSE (Size - 1) - 0 + 1
    BY ONLY <2>1, FS_Interval
  <2> QED BY <1>0, <2>2 DEF Slots
<1>2. IsFiniteSet(T) /\ Cardinality(T) = Size - 1
  <2>1. /\ IsFiniteSet(Slots \ {d})
        /\ Cardinality(Slots \ {d})
             = IF d \in Slots THEN Cardinality(Slots) - 1 ELSE Cardinality(Slots)
    BY ONLY <1>1, FS_RemoveElement, Zenon
  <2> QED BY <1>1, <2>1
<1>3. IsFiniteSet(S) /\ Cardinality(S) = a - t
  <2>1. t \in Int /\ a - 1 \in Int OBVIOUS
  <2>2. /\ IsFiniteSet(t..(a - 1))
        /\ Cardinality(t..(a - 1)) = IF t > a - 1 THEN 0 ELSE (a - 1) - t + 1
    BY ONLY <2>1, FS_Interval
  <2>3. ~ (t > a - 1) /\ (a - 1) - t + 1 = a - t BY <1>0
  <2> QED BY <2>2, <2>3
<1>4. g \in [S -> T] OBVIOUS
<1>5. Cardinality(T) < Cardinality(S)
  <2> HIDE DEF S, T
  <2> QED BY <1>0, <1>2, <1>3
<1>6. \E x, y \in S : x # y /\ g[x] = g[y]
  <2> HIDE DEF S, T
  <2> QED BY ONLY <1>2, <1>3, <1>4, <1>5, FS_PigeonHole, Zenon
<1> QED BY <1>6

-----------------------------------------------------------------------------
(***************************************************************************)
(* The invariant.                                                          *)
(***************************************************************************)
LEMMA EnqInvWhole == EnqInv => FramesWhole
<1> SUFFICES ASSUME EnqInv, ~ short, ~ spilled
             PROVE  /\ part = SubSeq(Whole, 1, Min({Len(Whole), room}))
                    /\ epc = "fill" => \A k \in (cnt + 1)..NBufs : buf_vec[k] \notin owned
  BY Zenon DEF FramesWhole, Whole
<1>1. EnqCore BY DEF EnqInv
<1>2. part = SubSeq(Whole, 1, Min({Len(Whole), room})) BY <1>1, Zenon DEF EnqCore, EnqPart
<1>3. ASSUME epc = "fill", NEW k \in (cnt + 1)..NBufs PROVE buf_vec[k] \notin owned
  <2>1. PICK kind \in [Slots -> Kinds], at \in [Slots -> Int] :
          OwnPlaced(kind) /\ VecPlaced(kind, at)
    BY <1>1 DEF EnqCore, EnqPlaces
  <2>2. k \in (cnt + 1)..Len(buf_vec) BY <1>1, <1>3 DEF EnqCore, EnqThread
  <2> QED BY <1>3, <2>1, <2>2 DEF OwnPlaced, VecPlaced
<1> QED BY <1>2, <1>3

LEMMA EnqInitInv == EnqInit => EnqInv
<1> SUFFICES ASSUME EnqInit PROVE EnqInv OBVIOUS
<1>1. EnqDesc /\ short \in BOOLEAN /\ spilled \in BOOLEAN
  <2>1. PICK len \in [Slots -> BufLens], next \in {None, 1}, w \in BOOLEAN :
          desc = [d \in Slots |-> [len |-> len[d], next |-> IF d = 0 THEN next ELSE None,
                                   write |-> w \/ d # Size - 1]]
    BY DEF EnqInit
  <2>2. \A d \in Slots : (w \/ d # Size - 1) \in BOOLEAN OBVIOUS
  <2>3. EnqDesc
    <3> DEFINE B(d) == w \/ d # Size - 1
    <3>1. \A d \in Slots : B(d) \in BOOLEAN BY <2>2
    <3>2. desc = [d \in Slots |-> [len |-> len[d], next |-> IF d = 0 THEN next ELSE None,
                                   write |-> B(d)]] BY <2>1
    <3> HIDE DEF B
    <3> QED BY <3>1, <3>2 DEF EnqDesc
  <2>4. short \in BOOLEAN /\ spilled \in BOOLEAN BY DEF EnqInit
  <2> QED BY <2>3, <2>4
<1>2. 0 \in Slots
  <2>1. 0 <= Size - 1 /\ Size - 1 \in Int BY EnqueueConstants
  <2> QED BY <2>1 DEF Slots
<1>3. 0 % NBufs = 0
  <2>1. 0 = 0 * NBufs + 0 /\ 0 \in 0..(NBufs - 1) BY EnqueueConstants
  <2> QED BY ONLY <2>1, RemFrame
<1>4. EnqIndices BY <1>3, EnqueueConstants DEF EnqInit, EnqIndices
<1>5. EnqTypes BY <1>2 DEF EnqInit, EnqTypes
<1>6. EnqPlaces
  <2> DEFINE kind == [d \in Slots |-> "own"]
             at == [d \in Slots |-> 0]
  <2>1. kind \in [Slots -> Kinds] /\ at \in [Slots -> Int] BY DEF Kinds
  <2>2. OwnPlaced(kind) BY DEF OwnPlaced, EnqInit
  <2>3. UsedPlaced(kind, at) BY DEF UsedPlaced, EnqInit
  <2>4. VecPlaced(kind, at) /\ CursorPlaced(kind) BY DEF VecPlaced, CursorPlaced, EnqInit
  <2>5. RingPlaced(kind, at) BY DEF RingPlaced, NextEntry, EnqInit
  <2> HIDE DEF kind, at
  <2> QED BY <2>1, <2>2, <2>3, <2>4, <2>5 DEF EnqPlaces
<1>7. EnqFrames
  <2>1. [i \in Nat |-> 0] \in [Nat -> 0..Len(Whole)] BY WholeType
  <2>2. taken..(last_used_idx - 1) = {} /\ epc # "fill" /\ taken % NBufs = 0
    BY <1>3 DEF EnqInit
  <2> QED BY <2>1, <2>2 DEF EnqFrames
<1>8. EnqThread BY DEF EnqInit, EnqThread
<1>9. EnqPart
  <2>1. part = <<>> /\ room = 0 BY DEF EnqInit
  <2>2. Len(Whole) \in Nat /\ Whole \in Seq(Nat) BY WholeType
  <2>3. Min({Len(Whole), 0}) = 0 BY <2>2, MinIs
  <2>4. SubSeq(Whole, 1, 0) = <<>> BY <2>2
  <2>5. part \in Seq(Nat) /\ room \in Nat BY <2>1
  <2> QED BY <2>1, <2>3, <2>4, <2>5 DEF EnqPart
<1> QED BY <1>1, <1>4, <1>5, <1>6, <1>7, <1>8, <1>9 DEF EnqInv, EnqCore

-----------------------------------------------------------------------------
\* A step that leaves the used entries and what the buffers hold.
LEMMA FramesStay ==
  ASSUME EnqFrames, UNCHANGED <<desc, used, mem, last_used_idx, taken, room>>,
         (epc = "fill" /\ cnt > 0)' =>
           epc = "fill" /\ cnt > 0 /\ written_len' = written_len
  PROVE  EnqFrames'
<1>1. PICK w \in [Nat -> 0..Len(Whole)] :
        /\ \A i \in taken..(last_used_idx - 1) :
             Holds(w, i, U(i), desc[U(i)].len, mem[U(i)], used[i % Size])
        /\ epc = "fill" /\ cnt > 0 => w[last_used_idx - 1] = Len(Meta) + written_len
        /\ taken % NBufs # 0 => w[taken - 1] = Min({Len(Whole), room})
  BY DEF EnqFrames
<1>2. \A i \in taken'..(last_used_idx' - 1) :
        Holds(w, i, U(i)', desc'[U(i)'].len, mem'[U(i)'], used'[i % Size])
  BY <1>1 DEF U
<1>3. (epc = "fill" /\ cnt > 0)' => w[last_used_idx' - 1] = Len(Meta) + written_len'
  BY <1>1
<1>4. taken' % NBufs # 0 => w[taken' - 1] = Min({Len(Whole), room'}) BY <1>1
<1> QED BY <1>2, <1>3, <1>4, Zenon DEF EnqFrames

LEMMA PollCore == EnqDesc /\ EnqCore /\ Poll /\ ~ short' => EnqCore'
<1> SUFFICES ASSUME EnqDesc, EnqCore, Poll, ~ short' PROVE EnqCore' OBVIOUS
<1> DEFINE L == last_used_idx
           c == D(L)
<1>0. /\ UNCHANGED <<desc, ring, avail_idx, used, used_idx, last_avail_idx, last_used_idx, mem,
                     owned, taken, part, room>>
      /\ epc = "poll" /\ epc' = "collect" /\ buf_vec' = <<>> /\ cnt' = 0 /\ written_len' = 0
  BY DEF Poll, ringVars, guestVars
<1>1. /\ ring \in [Slots -> Slots] /\ owned \subseteq Slots /\ L \in Nat /\ avail_idx \in Nat
      /\ last_avail_idx = L /\ used \in [Slots -> Slots \X Nat] /\ taken \in Nat
  BY DEF EnqCore, EnqTypes, EnqIndices
<1>2. L < avail_idx /\ a_idx' = L /\ cursor' = c
  <2>1. ~ (last_avail_idx > avail_idx) BY Zenon DEF Poll
  <2>2. last_avail_idx # avail_idx /\ a_idx' = last_avail_idx /\ cursor' = ring[last_avail_idx % Size]
    BY DEF Poll
  <2> QED BY <1>1, <2>1, <2>2 DEF D
<1>3. \A i \in Nat : D(i) \in Slots /\ U(i) \in Slots BY <1>1, SlotOf DEF D, U
<1>4. c \in Slots BY <1>1, <1>3
<1>5. EnqTypes' BY <1>0, <1>2, <1>1, <1>4 DEF EnqCore, EnqTypes
<1>6. EnqIndices' BY <1>0 DEF EnqCore, EnqIndices
<1>7. EnqFrames' BY <1>0, FramesStay DEF EnqCore
<1>8. EnqThread' BY <1>0, <1>1, <1>2, EnqueueConstants DEF EnqThread
<1>9. EnqPart' BY <1>0 DEF EnqCore, EnqPart
<1>10. EnqPlaces'
  <2>1. PICK kind \in [Slots -> Kinds], at \in [Slots -> Int] :
          /\ OwnPlaced(kind) /\ UsedPlaced(kind, at) /\ RingPlaced(kind, at)
    BY DEF EnqCore, EnqPlaces
  <2>2. PICK k2 : k2 = [kind EXCEPT ![c] = "cursor"] OBVIOUS
  <2>3. /\ k2 \in [Slots -> Kinds] /\ k2[c] = "cursor"
        /\ \A d \in Slots : kind[d] # "ring" => k2[d] = kind[d]
        /\ \A d \in Slots : d # c => k2[d] = kind[d]
        /\ kind[c] = "ring" /\ at[c] = L /\ Continues(kind, desc, c)
    <3>1. kind[c] = "ring" /\ at[c] = L /\ Continues(kind, desc, c)
      BY <1>0, <1>1, <1>2, <2>1 DEF RingPlaced, NextEntry
    <3> HIDE DEF c
    <3> QED BY <1>4, <2>1, <2>2, <3>1 DEF Kinds
  <2>4. \A i : D(i)' = D(i) /\ U(i)' = U(i) BY <1>0 DEF D, U
  <2>5. \A d \in Slots : Continues(kind, desc, d) => Continues(k2, desc, d)
    BY <2>3 DEF Continues
  <2> HIDE DEF c
  <2>6. OwnPlaced(k2)' BY <1>0, <1>1, <2>1, <2>3 DEF OwnPlaced
  <2>7. UsedPlaced(k2, at)'
    <3>1. \A i \in taken..(L - 1) : i \in Nat BY <1>1
    <3> QED BY <1>0, <1>3, <2>1, <2>3, <2>4, <3>1 DEF UsedPlaced
  <2>8. VecPlaced(k2, at)' BY <1>0 DEF VecPlaced
  <2>9. RingPlaced(k2, at)'
    <3>1. NextEntry = L /\ NextEntry' = L + 1 BY <1>0, <1>2 DEF NextEntry
    <3>2. ASSUME NEW j \in Nat, L + 1 <= j, j < avail_idx
          PROVE  k2[D(j)] = "ring" /\ at[D(j)] = j /\ Continues(k2, desc, D(j))
      <4>1. kind[D(j)] = "ring" /\ at[D(j)] = j /\ Continues(kind, desc, D(j))
        BY <1>0, <1>1, <2>1, <3>1, <3>2 DEF RingPlaced
      <4>2. D(j) # c /\ D(j) \in Slots BY <1>1, <1>3, <2>3, <3>2, <4>1
      <4> QED BY <2>3, <2>5, <4>1, <4>2
    <3> QED BY <1>0, <2>4, <3>1, <3>2 DEF RingPlaced
  <2>10. CursorPlaced(k2)' BY <1>0, <1>2, <1>4, <2>3, <2>5 DEF CursorPlaced
  <2> QED BY <2>1, <2>3, <2>6, <2>7, <2>8, <2>9, <2>10 DEF EnqPlaces
<1> QED BY <1>5, <1>6, <1>7, <1>8, <1>9, <1>10 DEF EnqCore

LEMMA KickCore == EnqCore /\ Kick => EnqCore'
<1> SUFFICES ASSUME EnqCore, Kick PROVE EnqCore' OBVIOUS
<1>0. /\ epc = "kick" /\ epc' \in {"exited", "poll"}
      /\ UNCHANGED <<desc, ring, avail_idx, used, used_idx, last_avail_idx, last_used_idx, mem,
                     owned, taken, part, room, cursor, buf_vec, a_idx, cnt, written_len>>
  BY DEF Kick, ringVars, guestVars, loopVars
<1>1. EnqTypes' BY <1>0 DEF EnqCore, EnqTypes
<1>2. EnqIndices' BY <1>0 DEF EnqCore, EnqIndices
<1>3. EnqFrames' BY <1>0, FramesStay DEF EnqCore
<1>4. EnqThread' BY <1>0 DEF EnqThread
<1>5. EnqPart' BY <1>0 DEF EnqCore, EnqPart
<1>6. EnqPlaces'
  <2>1. PICK kind \in [Slots -> Kinds], at \in [Slots -> Int] :
          /\ OwnPlaced(kind) /\ UsedPlaced(kind, at) /\ RingPlaced(kind, at)
    BY DEF EnqCore, EnqPlaces
  <2>2. OwnPlaced(kind)' BY <1>0, <2>1 DEF OwnPlaced
  <2>3. UsedPlaced(kind, at)' BY <1>0, <2>1 DEF UsedPlaced, U
  <2>4. VecPlaced(kind, at)' /\ CursorPlaced(kind)' BY <1>0 DEF VecPlaced, CursorPlaced
  <2>5. RingPlaced(kind, at)'
    <3>1. NextEntry' = NextEntry BY <1>0 DEF NextEntry
    <3> QED BY <1>0, <2>1, <3>1 DEF RingPlaced, D
  <2> QED BY <2>1, <2>2, <2>3, <2>4, <2>5 DEF EnqPlaces
<1> QED BY <1>1, <1>2, <1>3, <1>4, <1>5, <1>6 DEF EnqCore

\* The thread looks at one more descriptor: what follows it, or what the next
\* entry holds, is the one to look at then.
LEMMA CollectCore ==
  EnqDesc /\ EnqCore /\ Collect /\ ~ short' => EnqCore'
<1> SUFFICES ASSUME EnqDesc, EnqCore, Collect, ~ short' PROVE EnqCore' OBVIOUS
<1> DEFINE L == last_used_idx
           c == cursor
           q == Len(buf_vec) + 1
<1>0. UNCHANGED <<desc, ring, avail_idx, used, used_idx, last_avail_idx, last_used_idx, cnt,
                  written_len, mem, owned, taken, part, room>>
  BY DEF Collect, ringVars, guestVars
<1>1. /\ ring \in [Slots -> Slots] /\ owned \subseteq Slots /\ L \in Nat /\ avail_idx \in Nat
      /\ used \in [Slots -> Slots \X Nat] /\ taken \in Nat /\ a_idx \in Nat
      /\ buf_vec \in Seq(Slots) /\ Len(buf_vec) \in Nat /\ q \in Nat /\ cursor \in Slots
  BY DEF EnqCore, EnqTypes
<1>2. /\ epc = "collect" /\ Len(buf_vec) < NBufs /\ cnt = 0 /\ written_len = 0
      /\ a_idx <= L + Len(buf_vec)
  BY DEF EnqCore, EnqThread, Collect
<1>3. \A i \in Nat : D(i) \in Slots /\ U(i) \in Slots BY <1>1, SlotOf DEF D, U
<1>4. \A i : D(i)' = D(i) /\ U(i)' = U(i) BY <1>0 DEF D, U
<1>5. PICK kind \in [Slots -> Kinds], at \in [Slots -> Int] :
        /\ OwnPlaced(kind) /\ UsedPlaced(kind, at) /\ VecPlaced(kind, at)
        /\ RingPlaced(kind, at) /\ CursorPlaced(kind)
  BY DEF EnqCore, EnqPlaces
<1>6. kind[c] = "cursor" /\ Continues(kind, desc, c) BY <1>2, <1>5 DEF CursorPlaced
<1>7. \A j \in Nat : a_idx + 1 <= j /\ j < avail_idx =>
        kind[D(j)] = "ring" /\ at[D(j)] = j /\ Continues(kind, desc, D(j))
  BY <1>2, <1>5 DEF RingPlaced, NextEntry
<1>8. EnqIndices'
  <2>1. epc' \in {"aborted", "collect", "fill"} BY DEF Collect
  <2> QED BY <1>0, <1>2, <2>1 DEF EnqCore, EnqIndices
<1>9. EnqFrames' BY <1>0, <1>2, FramesStay DEF EnqCore
<1>10. EnqPart' BY <1>0 DEF EnqCore, EnqPart
<1>11. CASE ~ desc[cursor].write
  <2>1. epc' = "aborted" /\ UNCHANGED <<cursor, buf_vec, a_idx>> BY <1>11 DEF Collect
  <2>2. EnqTypes' BY <1>0, <2>1 DEF EnqCore, EnqTypes
  <2>3. EnqThread' BY <2>1 DEF EnqThread
  <2>4. EnqPlaces'
    <3>1. OwnPlaced(kind)' BY <1>0, <1>5 DEF OwnPlaced
    <3>2. UsedPlaced(kind, at)' BY <1>0, <1>5 DEF UsedPlaced, U
    <3>3. VecPlaced(kind, at)' /\ CursorPlaced(kind)' /\ RingPlaced(kind, at)'
      BY <2>1 DEF VecPlaced, CursorPlaced, RingPlaced
    <3> QED BY <3>1, <3>2, <3>3 DEF EnqPlaces
  <2> QED BY <1>8, <1>9, <1>10, <2>2, <2>3, <2>4 DEF EnqCore
<1>12. CASE desc[cursor].write
  <2>1. /\ buf_vec' = Append(buf_vec, c)
        /\ epc' = IF Len(buf_vec') = NBufs THEN "fill" ELSE "collect"
    BY <1>12 DEF Collect
  <2>2. /\ buf_vec' \in Seq(Slots) /\ Len(buf_vec') = q /\ buf_vec'[q] = c
        /\ \A k \in 1..Len(buf_vec) : buf_vec'[k] = buf_vec[k] /\ buf_vec[k] \in Slots
    BY ONLY <1>1, <2>1
  \* What the thread looks at next, with its place: x is the next descriptor,
  \* if there is one to look at.
  <2>3. /\ a_idx' \in Nat /\ a_idx <= a_idx' /\ a_idx' <= L + q /\ cursor' \in Slots
        /\ epc' = "collect" =>
             /\ cursor' # c /\ kind[cursor'] \in {"tail", "ring"}
             /\ kind[cursor'] = "ring" => at[cursor'] = a_idx'
             /\ Continues(kind, desc, cursor')
             /\ kind[cursor'] = "tail" => desc[c].next # None
    <3>1. CASE desc[c].next # None
      <4>1. cursor' = desc[c].next /\ a_idx' = a_idx BY <1>12, <3>1 DEF Collect
      <4>2. cursor' \in Slots /\ kind[cursor'] = "tail" BY <1>6, <3>1, <4>1 DEF Continues
      <4>3. cursor' # c BY <1>6, <4>2
      <4>4. c = 0 /\ desc[c].next = 1 BY <1>1, <3>1 DEF EnqDesc
      <4>5. desc[cursor'].next = None BY <4>1, <4>2, <4>4 DEF EnqDesc
      <4> QED BY <1>1, <1>2, <3>1, <4>1, <4>2, <4>3, <4>5 DEF Continues
    <3>2. CASE desc[c].next = None
      <4>1. /\ a_idx' = a_idx + 1 /\ cursor' = D(a_idx + 1)
            /\ short' = (short \/ (epc' = "collect" /\ a_idx + 1 >= avail_idx))
        BY <1>12, <3>2 DEF Collect, D
      <4>2. cursor' \in Slots BY <1>1, <1>3, <4>1
      <4>3. a_idx' \in Nat /\ a_idx <= a_idx' /\ a_idx' <= L + q BY <1>1, <1>2, <4>1
      <4>4. ASSUME epc' = "collect"
            PROVE kind[cursor'] = "ring" /\ at[cursor'] = a_idx' /\ Continues(kind, desc, cursor')
        <5>1. ~ (a_idx + 1 >= avail_idx) BY <4>1, <4>4, Zenon
        <5>2. a_idx + 1 < avail_idx /\ a_idx + 1 \in Nat BY <1>1, <5>1
        <5> QED BY <1>7, <4>1, <5>2
      <4> QED BY <1>6, <4>2, <4>3, <4>4
    <3> QED BY <3>1, <3>2
  <2>4. EnqTypes' BY <1>0, <2>2, <2>3 DEF EnqCore, EnqTypes
  <2>5. EnqThread'
    <3>1. CASE Len(buf_vec') = NBufs
      <4>1. epc' = "fill" /\ cnt' = 0 /\ written_len' = 0 BY <1>0, <1>2, <2>1, <3>1
      <4> QED BY <3>1, <4>1, EnqueueConstants DEF EnqThread
    <3>2. CASE Len(buf_vec') # NBufs
      <4>1. /\ epc' = "collect" /\ cnt' = 0 /\ written_len' = 0 /\ last_used_idx' = L
            /\ Len(buf_vec') = q /\ a_idx' <= L + q
        BY <1>0, <1>2, <2>1, <2>2, <2>3, <3>2
      <4>2. q < NBufs BY <1>1, <1>2, <2>2, <3>2, EnqueueConstants
      <4> QED BY <4>1, <4>2 DEF EnqThread
    <3> QED BY <3>1, <3>2
  <2>6. EnqPlaces'
    <3>1. PICK k2, a2 :
            /\ k2 = [d \in Slots |-> IF d = c THEN "vec"
                                     ELSE IF epc' = "collect" /\ d = cursor' THEN "cursor"
                                     ELSE kind[d]]
            /\ a2 = [at EXCEPT ![c] = q]
      OBVIOUS
    <3>2. /\ k2 \in [Slots -> Kinds] /\ a2 \in [Slots -> Int] /\ k2[c] = "vec" /\ a2[c] = q
          /\ epc' = "collect" => k2[cursor'] = "cursor"
          /\ \A d \in Slots : d # c /\ ~ (epc' = "collect" /\ d = cursor') => k2[d] = kind[d]
          /\ \A d \in Slots : d # c => a2[d] = at[d]
      BY <1>1, <1>5, <2>3, <3>1 DEF Kinds
    \* All but what was looked at, and what will be, stays in its place.
    <3>3. ASSUME NEW d \in Slots, kind[d] \in {"own", "used", "vec"}
          PROVE  k2[d] = kind[d] /\ a2[d] = at[d]
      <4>1. d # c BY <1>6, <3>3
      <4>2. ~ (epc' = "collect" /\ d = cursor') BY <2>3, <3>3
      <4> QED BY <3>2, <4>1, <4>2
    <3>4. OwnPlaced(k2)' BY <1>0, <1>1, <1>5, <3>3 DEF OwnPlaced
    <3>5. UsedPlaced(k2, a2)'
      <4>1. \A i \in taken..(L - 1) : i \in Nat BY <1>1
      <4>2. \A i \in taken..(L - 1) : k2[U(i)] = "used" /\ a2[U(i)] = i
        BY <1>3, <1>5, <3>3, <4>1 DEF UsedPlaced
      <4> QED BY <1>0, <1>4, <4>2 DEF UsedPlaced
    <3>6. VecPlaced(k2, a2)'
      <4>1. ASSUME NEW k \in 1..q PROVE k2[buf_vec'[k]] = "vec" /\ a2[buf_vec'[k]] = k
        <5>1. CASE k = q BY <2>2, <3>2, <5>1
        <5>2. CASE k # q
          <6>1. k \in 1..Len(buf_vec) BY <1>1, <5>2
          <6>2. kind[buf_vec[k]] = "vec" /\ at[buf_vec[k]] = k
            BY <1>2, <1>5, <6>1 DEF VecPlaced
          <6> QED BY <2>2, <3>3, <6>1, <6>2
        <5> QED BY <5>1, <5>2
      <4>2. (cnt + 1)' = 1 /\ Len(buf_vec)' = q BY <1>0, <1>2, <2>2
      <4> QED BY <4>1, <4>2 DEF VecPlaced
    <3>7. RingPlaced(k2, a2)'
      <4>1. NextEntry' >= a_idx + 1 /\ (epc' = "collect" => NextEntry' = a_idx' + 1)
        <5>1. CASE epc' = "collect"
          <6>1. NextEntry' = a_idx' + 1 BY <5>1 DEF NextEntry
          <6>2. a_idx' \in Nat /\ a_idx <= a_idx' BY <2>3
          <6> DEFINE a == a_idx'
          <6>3. NextEntry' = a + 1 /\ a \in Nat /\ a_idx <= a /\ a_idx \in Nat BY <1>1, <6>1, <6>2
          <6> HIDE DEF a
          <6>4. NextEntry' >= a_idx + 1 BY ONLY <6>3
          <6> QED BY <6>1, <6>4
        <5>2. CASE epc' = "fill"
          <6>1. NextEntry' = L + (NBufs - 0) BY <1>0, <1>2, <5>2 DEF NextEntry
          <6>2. q = NBufs BY <2>1, <2>2, <5>2
          <6> QED BY <1>1, <1>2, <5>2, <6>1, <6>2, EnqueueConstants
        <5> QED BY <2>1, <5>1, <5>2
      <4>2. NextEntry' \in Nat
        <5>1. CASE epc' = "collect"
          <6>1. NextEntry' = a_idx' + 1 BY <5>1 DEF NextEntry
          <6>2. a_idx' \in Nat BY <2>3
          <6> DEFINE a == a_idx'
          <6>3. NextEntry' = a + 1 /\ a \in Nat BY <6>1, <6>2
          <6> HIDE DEF a
          <6> QED BY ONLY <6>3
        <5>2. CASE epc' = "fill"
          <6>1. NextEntry' = L + (NBufs - 0) BY <1>0, <1>2, <5>2 DEF NextEntry
          <6> QED BY <1>1, <6>1, EnqueueConstants
        <5> QED BY <2>1, <5>1, <5>2
      <4> DEFINE n == NextEntry'
      <4>3. ASSUME NEW j \in Nat, n <= j, j < avail_idx
            PROVE  k2[D(j)] = "ring" /\ a2[D(j)] = j /\ Continues(k2, desc, D(j))
        <5> HIDE DEF n
        <5>1. a_idx + 1 <= j BY <1>1, <4>1, <4>2, <4>3 DEF n
        <5>2. kind[D(j)] = "ring" /\ at[D(j)] = j /\ Continues(kind, desc, D(j)) /\ D(j) \in Slots
          BY <1>3, <1>7, <4>3, <5>1
        <5>3. D(j) # c BY <1>6, <5>2
        <5>4. ~ (epc' = "collect" /\ D(j) = cursor')
          <6> SUFFICES ASSUME epc' = "collect", D(j) = cursor' PROVE FALSE OBVIOUS
          <6>1. j = a_idx' BY <2>3, <5>2
          <6>2. a_idx' + 1 <= j /\ a_idx' \in Nat BY <2>3, <4>1, <4>3 DEF n
          <6> DEFINE a == a_idx'
          <6>3. j = a /\ a + 1 <= j /\ a \in Nat BY <6>1, <6>2
          <6> HIDE DEF a
          <6> QED BY ONLY <6>3
        <5>5. Continues(k2, desc, D(j))
          <6> SUFFICES ASSUME desc[D(j)].next # None
                       PROVE  desc[D(j)].next \in Slots /\ k2[desc[D(j)].next] = "tail"
            BY DEF Continues
          <6> DEFINE t == desc[D(j)].next
          <6>1. t \in Slots /\ kind[t] = "tail" BY <5>2 DEF Continues
          <6>2. t # c BY <1>6, <6>1
          <6>3. ~ (epc' = "collect" /\ t = cursor')
            <7> SUFFICES ASSUME epc' = "collect", t = cursor' PROVE FALSE OBVIOUS
            <7>1. desc[c].next # None BY <2>3, <6>1
            <7>2. c = 0 /\ D(j) = 0 BY <1>1, <5>2, <7>1 DEF EnqDesc
            <7> QED BY <5>3, <7>2
          <6> HIDE DEF t
          <6> QED BY <3>2, <6>1, <6>2, <6>3 DEF t
        <5> QED BY <3>2, <5>2, <5>3, <5>4, <5>5
      <4> QED BY <1>0, <1>4, <4>3 DEF RingPlaced
    <3>8. CursorPlaced(k2)'
      <4> SUFFICES ASSUME epc' = "collect"
                   PROVE  k2[cursor'] = "cursor" /\ Continues(k2, desc, cursor')
        BY <1>0 DEF CursorPlaced
      <4>1. k2[cursor'] = "cursor" BY <3>2
      <4>2. ASSUME desc[cursor'].next # None
            PROVE  desc[cursor'].next \in Slots /\ k2[desc[cursor'].next] = "tail"
        <5> DEFINE t == desc[cursor'].next
        <5>1. t \in Slots /\ kind[t] = "tail" BY <2>3, <4>2 DEF Continues
        <5>2. cursor' = 0 /\ t = 1 BY <2>3, <4>2 DEF EnqDesc
        <5>3. t # c /\ t # cursor' BY <1>6, <5>1, <5>2
        <5> HIDE DEF t
        <5> QED BY <3>2, <5>1, <5>3 DEF t
      <4> QED BY <4>1, <4>2 DEF Continues
    <3> QED BY <3>2, <3>4, <3>5, <3>6, <3>7, <3>8 DEF EnqPlaces
  <2> QED BY <1>8, <1>9, <1>10, <2>4, <2>5, <2>6 DEF EnqCore
<1> QED BY <1>11, <1>12

\* One buffer filled and given back: the used ring has room for it.
LEMMA FillCore == EnqDesc /\ EnqCore /\ Fill /\ ~ spilled' => EnqCore'
<1> SUFFICES ASSUME EnqDesc, EnqCore, Fill, ~ spilled' PROVE EnqCore' OBVIOUS
<1> DEFINE L == last_used_idx
           d == buf_vec[cnt + 1]
           n == desc[d].len
           c == ChunkOf(cnt, written_len, n)
<1>1. /\ epc = "fill" /\ Len(buf_vec) = NBufs /\ cnt \in 0..(NBufs - 1)
      /\ written_len \in Nat /\ (cnt = 0 => written_len = 0)
  BY DEF EnqCore, EnqThread, Fill
<1>2. /\ taken \in Nat /\ L \in Nat /\ avail_idx \in Nat
      /\ last_avail_idx = L /\ used_idx = L /\ taken <= L /\ L % NBufs = cnt
  BY <1>1 DEF EnqCore, EnqTypes, EnqIndices
<1>3. /\ ring \in [Slots -> Slots] /\ owned \subseteq Slots
      /\ used \in [Slots -> Slots \X Nat] /\ mem \in [Slots -> Seq(Nat)]
      /\ buf_vec \in Seq(Slots)
  BY DEF EnqCore, EnqTypes
<1>4. PICK w \in [Nat -> 0..Len(Whole)] :
        /\ \A i \in taken..(L - 1) :
             Holds(w, i, U(i), desc[U(i)].len, mem[U(i)], used[i % Size])
        /\ epc = "fill" /\ cnt > 0 => w[L - 1] = Len(Meta) + written_len
        /\ taken % NBufs # 0 => w[taken - 1] = Min({Len(Whole), room})
  BY DEF EnqCore, EnqFrames
<1>5. PICK kind \in [Slots -> Kinds], at \in [Slots -> Int] :
        /\ OwnPlaced(kind) /\ UsedPlaced(kind, at) /\ VecPlaced(kind, at)
        /\ RingPlaced(kind, at)
  BY DEF EnqCore, EnqPlaces
<1>6. /\ last_avail_idx' = last_avail_idx + 1 /\ last_used_idx' = L + 1
      /\ used_idx' = last_used_idx' /\ cnt' = cnt + 1
      /\ epc' = IF cnt' = NBufs THEN "kick" ELSE "fill"
      /\ UNCHANGED <<desc, ring, avail_idx, buf_vec, cursor, a_idx, owned, taken, part, room>>
  BY DEF Fill, guestVars
<1>7. n >= Len(MetaOf(cnt)) \/ ~ (n < Len(MetaOf(cnt)))
  BY Zenon DEF Fill, MetaOf
<1>8. /\ mem' = [mem EXCEPT ![d] = Writes(cnt, written_len, n)]
      /\ written_len' = written_len + c
      /\ used' = [used EXCEPT ![L % Size] = <<d, c + Len(MetaOf(cnt))>>]
  <2>1. ~ (n < Len(MetaOf(cnt))) BY Zenon DEF Fill, MetaOf
  <2> QED BY <2>1, Zenon DEF Fill, Writes, ChunkOf, MetaOf, Chunk
<1> HIDE DEF c, n, d, L
<1>9. cnt \in Nat /\ cnt < NBufs /\ cnt + 1 \in 1..NBufs
  <2>1. cnt \in 0..(NBufs - 1) BY <1>1
  <2> QED BY <2>1, EnqueueConstants
<1>10. d \in Slots /\ L % Size \in Slots /\ kind[d] = "vec" /\ at[d] = cnt + 1
  <2>1. d \in Slots BY <1>1, <1>3, <1>9 DEF d
  <2>2. cnt + 1 \in (cnt + 1)..Len(buf_vec) BY <1>1, <1>9, EnqueueConstants
  <2>3. kind[d] = "vec" /\ at[d] = cnt + 1 BY <1>1, <1>5, <2>2 DEF VecPlaced, d
  <2> QED BY <1>2, <2>1, <2>3, SlotOf
<1>11. n \in Nat /\ n >= Len(MetaOf(cnt))
  <2>1. n \in BufLens BY <1>10 DEF EnqDesc, n
  <2>2. Len(MetaOf(cnt)) \in Nat BY EnqueueConstants DEF MetaOf
  <2> QED BY <1>7, <2>1, <2>2, EnqueueConstants
<1> DEFINE st == Start(w, L)
           e == Min({Len(Whole), st + n})
           v == [w EXCEPT ![L] = e]
<1>12. /\ st \in 0..Len(Whole)
       /\ IF cnt = 0 THEN st = 0 /\ written_len = 0 ELSE st = Len(Meta) + written_len
  <2>1. CASE cnt = 0 BY <1>1, <1>2, <2>1, WholeType DEF Start
  <2>2. CASE cnt # 0
    <3>1. L - 1 \in Nat
      <4>1. L # 0
        <5>1. 0 = 0 * NBufs + 0 /\ 0 \in 0..(NBufs - 1) /\ 0 \in Int BY EnqueueConstants
        <5>2. 0 % NBufs = 0 BY ONLY <5>1, RemFrame
        <5> QED BY <1>2, <2>2, <5>2
      <4> QED BY <1>2, <4>1
    <3>2. st = w[L - 1] BY <1>2, <2>2 DEF Start
    <3>3. cnt > 0 BY <1>9, <2>2
    <3>4. w[L - 1] = Len(Meta) + written_len BY <1>1, <1>4, <3>3
    <3> QED BY <2>2, <3>1, <3>2, <3>4
  <2> QED BY <2>1, <2>2
<1> HIDE DEF st
<1>13. /\ c \in Nat /\ e \in 0..Len(Whole) /\ st <= e
       /\ Writes(cnt, written_len, n) = SubSeq(Whole, st + 1, e)
       /\ c + Len(MetaOf(cnt)) = e - st /\ e = Len(Meta) + (written_len + c)
  <2>1. written_len \in Nat BY <1>1
  <2>2. cnt \in Nat BY <1>9
  <2>3. IF cnt = 0 THEN st = 0 /\ written_len = 0 ELSE st = Len(Meta) + written_len BY <1>12
  <2>4. st \in 0..Len(Whole) BY <1>12
  <2>5. n \in Nat /\ n >= Len(MetaOf(cnt)) BY <1>11
  <2>6. Filled(cnt, written_len, n, st) BY ONLY <2>1, <2>2, <2>3, <2>4, <2>5, Fills, Zenon
  <2> QED BY ONLY <2>6, Zenon DEF c, Filled
<1>14. e \in Nat /\ st \in Nat /\ e <= Len(Whole) /\ e - st \in Nat
  <2>1. st \in 0..Len(Whole) /\ e \in 0..Len(Whole) /\ st <= e BY <1>12, <1>13
  <2>2. Len(Whole) \in Nat BY WholeType
  <2> DEFINE W == Len(Whole)
  <2> HIDE DEF e, W
  <2>3. st \in 0..W /\ e \in 0..W /\ st <= e /\ W \in Nat BY <2>1, <2>2 DEF W
  <2>4. e \in Nat /\ st \in Nat /\ e <= W /\ e - st \in Nat BY ONLY <2>3
  <2> QED BY <2>4 DEF W
<1>15. e = Min({Len(Whole), st + n}) OBVIOUS
<1> HIDE DEF e
<1>16. SubSeq(Whole, st + 1, e) \in Seq(Nat) BY <1>13, <1>14, WholeType, PieceType
<1>17. v \in [Nat -> 0..Len(Whole)] /\ v[L] = e BY <1>2, <1>13
<1>18. Start(v, L) = st
  <2>1. CASE L % NBufs = 0 BY <2>1 DEF Start, st
  <2>2. CASE L % NBufs # 0
    <3>1. v[L - 1] = w[L - 1]
      <4>1. L - 1 # L BY <1>2
      <4> QED BY <4>1
    <3> HIDE DEF v
    <3> QED BY <2>2, <3>1 DEF Start, st
  <2> QED BY <2>1, <2>2
<1>19. taken % NBufs # 0 => v[taken - 1] = w[taken - 1]
  <2>1. taken - 1 # L BY <1>2
  <2> QED BY <2>1
<1> HIDE DEF v
\* The used entries that the guest has not taken stay, and are not this one.
<1>20. \A i \in taken..(L - 1) : i \in Nat /\ i < L /\ U(i) \in Slots /\ U(i) # d
  <2> TAKE i \in taken..(L - 1)
  <2>1. i \in Nat /\ i < L BY <1>2
  <2>2. U(i) \in Slots BY <1>3, <2>1, SlotOf DEF U
  <2>3. kind[U(i)] = "used" BY <1>5 DEF UsedPlaced, L
  <2> QED BY <1>10, <2>1, <2>2, <2>3
<1>21. L - taken < Size
  <2> DEFINE g == [i \in taken..(L - 1) |-> U(i)]
  <2>1. g \in [taken..(L - 1) -> Slots] BY <1>20
  <2>2. \A i \in taken..(L - 1) : g[i] # d BY <1>20
  <2>3. \A i, j \in taken..(L - 1) : g[i] = g[j] => i = j
    <3>1. \A i \in taken..(L - 1) : at[U(i)] = i BY <1>5 DEF UsedPlaced, L
    <3> QED BY <3>1
  <2>4. taken \in Nat /\ L \in Nat /\ taken <= L BY <1>2
  <2> HIDE DEF g
  <2> QED BY ONLY <1>10, <2>1, <2>2, <2>3, <2>4, EntryLeft
<1>22. /\ used'[L % Size] = <<d, e - st>> /\ used'[L % Size][1] = d
       /\ \A i \in taken..(L - 1) : used'[i % Size] = used[i % Size] /\ U(i)' = U(i)
  <2>1. used'[L % Size] = <<d, e - st>> BY <1>3, <1>8, <1>10, <1>13
  <2>2. used'[L % Size][1] = d BY <2>1
  <2>3. ASSUME NEW i \in taken..(L - 1) PROVE used'[i % Size] = used[i % Size]
    <3>1. i \in Nat /\ i # L /\ i - L < Size /\ L - i < Size
      BY <1>2, <1>20, <1>21, EnqueueConstants
    <3>2. i % Size # L % Size BY <1>2, <3>1, SlotsDiffer
    <3>3. i % Size \in Slots BY <3>1, SlotOf
    <3> QED BY <1>3, <1>8, <1>10, <3>2, <3>3
  <2>4. \A i \in taken..(L - 1) : used'[i % Size][1] = used[i % Size][1] BY <2>3
  <2> QED BY <2>1, <2>2, <2>3, <2>4 DEF U
<1>23. EnqIndices'
  <2>1. taken <= L + 1 /\ L + 1 \in Nat BY <1>2
  <2>2. CASE cnt + 1 = NBufs
    <3>1. (L + 1) % NBufs = 0
      <4>1. (L % NBufs) + 1 = NBufs BY <1>2, <2>2
      <4> QED BY <1>2, <4>1, FrameNext
    <3>2. epc' # "fill" BY <1>6, <2>2
    <3> QED BY <1>2, <1>6, <2>1, <3>1, <3>2 DEF EnqIndices
  <2>3. CASE cnt + 1 # NBufs
    <3>1. (L + 1) % NBufs = cnt + 1
      <4>1. (L % NBufs) + 1 < NBufs BY <1>2, <1>9, <2>3, EnqueueConstants
      <4>2. (L + 1) % NBufs = (L % NBufs) + 1 BY <1>2, <4>1, FrameAdd
      <4> QED BY <1>2, <4>2
    <3>2. epc' = "fill" BY <1>6, <2>3
    <3> QED BY <1>2, <1>6, <2>1, <3>1, <3>2 DEF EnqIndices
  <2> QED BY <2>2, <2>3
<1>24. EnqTypes'
  <2>1. mem' \in [Slots -> Seq(Nat)] BY <1>3, <1>8, <1>10, <1>13, <1>16
  <2>2. used' \in [Slots -> Slots \X Nat] BY <1>3, <1>8, <1>10, <1>13, <1>14
  <2>3. last_used_idx' \in Nat BY <1>2, <1>6
  <2>4. cursor \in Slots /\ avail_idx \in Nat /\ a_idx \in Nat /\ taken \in Nat
    BY DEF EnqCore, EnqTypes
  <2> QED BY <1>3, <1>6, <2>1, <2>2, <2>3, <2>4 DEF EnqTypes
<1>25. \A i \in taken..L : i \in taken..(L - 1) \/ i = L BY <1>2
<1>26. last_used_idx' - 1 = L /\ taken' = taken BY <1>2, <1>6
<1>27. EnqFrames'
  <2>1. ASSUME NEW i \in taken..L
        PROVE  Holds(v, i, U(i)', desc[U(i)'].len, mem'[U(i)'], used'[i % Size])
    <3>1. CASE i = L
      <4>1. U(i)' = d BY <1>22, <3>1 DEF U
      <4>2. mem'[d] = SubSeq(Whole, st + 1, e) BY <1>3, <1>8, <1>10, <1>13
      <4>3. used'[i % Size] = <<d, e - st>> BY <1>22, <3>1
      <4>4. Holds(v, i, d, n, mem'[d], used'[i % Size])
        BY <1>13, <1>15, <1>17, <1>18, <3>1, <4>2, <4>3, Zenon DEF Holds
      <4> QED BY <4>1, <4>4 DEF n
    <3>2. CASE i \in taken..(L - 1)
      <4>1. U(i)' = U(i) /\ used'[i % Size] = used[i % Size] BY <1>22, <3>2
      <4>2. mem'[U(i)] = mem[U(i)] BY <1>3, <1>8, <1>20, <3>2
      <4>3. Holds(w, i, U(i), desc[U(i)].len, mem[U(i)], used[i % Size]) BY <1>4, <3>2
      <4>4. i \in Nat /\ i < L BY <1>20, <3>2
      <4>5. Holds(v, i, U(i), desc[U(i)].len, mem[U(i)], used[i % Size])
        BY <1>2, <1>13, <4>3, <4>4, HoldsOther DEF v
      <4> QED BY <4>1, <4>2, <4>5
    <3> QED BY <1>25, <3>1, <3>2
  <2>2. v[last_used_idx' - 1] = Len(Meta) + written_len' BY <1>8, <1>13, <1>17, <1>26
  <2>3. \A i \in taken'..(last_used_idx' - 1) :
          Holds(v, i, U(i)', desc'[U(i)'].len, mem'[U(i)'], used'[i % Size])
    BY <1>6, <1>26, <2>1
  <2>4. taken' % NBufs # 0 => v[taken' - 1] = Min({Len(Whole), room'}) BY <1>4, <1>6, <1>19
  <2> QED BY <1>17, <2>2, <2>3, <2>4 DEF EnqFrames
<1>28. EnqThread'
  <2>1. CASE cnt + 1 = NBufs
    <3>1. epc' = "kick" BY <1>6, <2>1
    <3> QED BY <3>1 DEF EnqThread
  <2>2. CASE cnt + 1 # NBufs
    <3>1. epc' = "fill" /\ cnt' = cnt + 1 /\ buf_vec' = buf_vec BY <1>6, <2>2
    <3>2. cnt + 1 \in 0..(NBufs - 1) /\ cnt + 1 # 0 BY <1>9, <2>2, EnqueueConstants
    <3>3. written_len' \in Nat BY <1>1, <1>8, <1>13
    <3> QED BY <1>1, <3>1, <3>2, <3>3 DEF EnqThread
  <2> QED BY <2>1, <2>2
<1>29. EnqPart' BY <1>6 DEF EnqCore, EnqPart
<1>30. EnqPlaces'
  <2>1. PICK k2, a2 : k2 = [kind EXCEPT ![d] = "used"] /\ a2 = [at EXCEPT ![d] = L] OBVIOUS
  <2>2. /\ k2 \in [Slots -> Kinds] /\ a2 \in [Slots -> Int] /\ k2[d] = "used" /\ a2[d] = L
        /\ \A x \in Slots : x # d => k2[x] = kind[x] /\ a2[x] = at[x]
    BY <1>2, <1>5, <1>10, <2>1, SMTT(30) DEF Kinds
  <2>3. OwnPlaced(k2)'
    <3>1. \A x \in owned : x \in Slots /\ x # d BY <1>3, <1>5, <1>10 DEF OwnPlaced
    <3> QED BY <1>5, <1>6, <2>2, <3>1 DEF OwnPlaced
  <2>4. UsedPlaced(k2, a2)'
    <3>1. ASSUME NEW i \in taken..L PROVE k2[U(i)'] = "used" /\ a2[U(i)'] = i
      <4>1. CASE i = L
        <5>1. U(i)' = d BY <1>22, <4>1 DEF U
        <5> QED BY <2>2, <4>1, <5>1
      <4>2. CASE i \in taken..(L - 1)
        <5>1. kind[U(i)] = "used" /\ at[U(i)] = i BY <1>5, <4>2 DEF UsedPlaced, L
        <5>2. U(i)' = U(i) BY <1>22, <4>2
        <5> QED BY <1>20, <2>2, <4>2, <5>1, <5>2
      <4> QED BY <1>25, <4>1, <4>2
    <3> QED BY <1>26, <3>1 DEF UsedPlaced
  <2>5. VecPlaced(k2, a2)'
    <3>1. ASSUME NEW k \in (cnt + 2)..NBufs PROVE k2[buf_vec[k]] = "vec" /\ a2[buf_vec[k]] = k
      <4>1. k \in (cnt + 1)..Len(buf_vec) /\ k \in 1..Len(buf_vec) /\ k # cnt + 1
        BY <1>1, <1>9, EnqueueConstants
      <4>2. kind[buf_vec[k]] = "vec" /\ at[buf_vec[k]] = k BY <1>1, <1>5, <4>1 DEF VecPlaced
      <4>3. buf_vec[k] \in Slots BY <1>3, <4>1
      <4> QED BY <1>10, <2>2, <4>1, <4>2, <4>3
    <3>2. cnt' + 1 = cnt + 2 /\ buf_vec' = buf_vec /\ Len(buf_vec') = NBufs
      BY <1>1, <1>6, <1>9
    <3> QED BY <3>1, <3>2 DEF VecPlaced
  <2>6. RingPlaced(k2, a2)'
    <3>1. NextEntry = L + (NBufs - cnt) BY <1>1 DEF NextEntry, L
    <3>2. NextEntry' = L + (NBufs - cnt)
      <4>1. CASE cnt + 1 = NBufs
        <5>1. epc' = "kick" BY <1>6, <4>1
        <5>2. NextEntry' = L + 1 BY <1>6, <5>1 DEF NextEntry
        <5> QED BY <1>2, <1>9, <4>1, <5>2, EnqueueConstants
      <4>2. CASE cnt + 1 # NBufs
        <5>1. epc' = "fill" BY <1>6, <4>2
        <5>2. NextEntry' = (L + 1) + (NBufs - (cnt + 1)) BY <1>6, <5>1 DEF NextEntry
        <5> QED BY <1>2, <1>9, <5>2, EnqueueConstants
      <4> QED BY <4>1, <4>2
    <3>3. ASSUME NEW j \in Nat, NextEntry <= j, j < avail_idx
          PROVE  k2[D(j)] = "ring" /\ a2[D(j)] = j /\ Continues(k2, desc, D(j))
      <4>1. kind[D(j)] = "ring" /\ at[D(j)] = j /\ Continues(kind, desc, D(j))
        BY <1>1, <1>5, <3>3 DEF RingPlaced
      <4>2. D(j) \in Slots /\ D(j) # d BY <1>3, <1>10, <4>1, SlotOf DEF D
      <4>3. Continues(k2, desc, D(j)) BY <1>10, <2>2, <4>1 DEF Continues
      <4> QED BY <2>2, <4>1, <4>2, <4>3
    <3>4. \A j : D(j)' = D(j) BY <1>6 DEF D
    <3> QED BY <1>6, <3>1, <3>2, <3>3, <3>4 DEF RingPlaced
  <2>7. CursorPlaced(k2)' BY <1>6 DEF CursorPlaced
  <2> QED BY <2>2, <2>3, <2>4, <2>5, <2>6, <2>7 DEF EnqPlaces
<1> QED BY <1>23, <1>24, <1>27, <1>28, <1>29, <1>30 DEF EnqCore

\* A head and what follows it go from the guest to the ring, which has room.
LEMMA PostCore == EnqDesc /\ EnqCore /\ Post => EnqCore'
<1> SUFFICES ASSUME EnqDesc, EnqCore, Post PROVE EnqCore' OBVIOUS
<1> DEFINE A == avail_idx
<1>1. PICK d \in owned :
        /\ desc[d].next # None => desc[d].next \in owned
        /\ ring' = [ring EXCEPT ![A % Size] = d]
        /\ owned' = owned \ ({d} \cup {desc[d].next})
  BY DEF Post
<1>2. /\ avail_idx' = A + 1
      /\ UNCHANGED <<desc, used, used_idx, last_avail_idx, last_used_idx, epc, cursor, buf_vec,
                     a_idx, cnt, written_len, mem, taken, part, room>>
  BY DEF Post, loopVars
<1>3. /\ ring \in [Slots -> Slots] /\ owned \subseteq Slots /\ A \in Nat
      /\ used \in [Slots -> Slots \X Nat] /\ taken \in Nat /\ last_used_idx \in Nat
      /\ buf_vec \in Seq(Slots) /\ cursor \in Slots /\ a_idx \in Nat
  BY DEF EnqCore, EnqTypes
<1>4. PICK kind \in [Slots -> Kinds], at \in [Slots -> Int] :
        /\ OwnPlaced(kind) /\ UsedPlaced(kind, at) /\ VecPlaced(kind, at)
        /\ RingPlaced(kind, at) /\ CursorPlaced(kind)
  BY DEF EnqCore, EnqPlaces
<1> HIDE DEF A
<1>5. d \in Slots /\ A % Size \in Slots BY <1>3, SlotOf
<1>6. ring'[A % Size] = d /\ ring' \in [Slots -> Slots] BY <1>1, <1>3, <1>5
<1>7. EnqTypes'
  <2>1. owned' \subseteq Slots BY <1>1, <1>3
  <2>2. avail_idx' \in Nat BY <1>2, <1>3
  <2>3. mem \in [Slots -> Seq(Nat)] BY DEF EnqCore, EnqTypes
  <2> QED BY <1>2, <1>3, <1>6, <2>1, <2>2, <2>3 DEF EnqTypes
<1>8. EnqIndices' BY <1>2 DEF EnqCore, EnqIndices
<1>9. EnqFrames' BY <1>2, FramesStay DEF EnqCore
<1>10. EnqThread' BY <1>2 DEF EnqCore, EnqThread
<1>11. EnqPart' BY <1>2 DEF EnqCore, EnqPart
<1>12. EnqPlaces'
  <2> DEFINE t == desc[d].next
  <2>1. PICK k2, a2 :
          /\ k2 = [x \in Slots |-> IF x = d THEN "ring"
                                   ELSE IF t # None /\ x = t THEN "tail" ELSE kind[x]]
          /\ a2 = [at EXCEPT ![d] = A]
    OBVIOUS
  <2>2. t # None => t \in owned /\ t \in Slots /\ t # d
    <3>1. t # None => t = 1 /\ d = 0 BY <1>5 DEF EnqDesc
    <3> QED BY <1>1, <1>3, <3>1
  <2> HIDE DEF t
  <2>3. /\ k2 \in [Slots -> Kinds] /\ a2 \in [Slots -> Int] /\ k2[d] = "ring" /\ a2[d] = A
        /\ t # None => k2[t] = "tail"
    BY <1>3, <1>4, <1>5, <2>1, <2>2 DEF Kinds
  <2>4. ASSUME NEW x \in Slots, kind[x] # "own" PROVE k2[x] = kind[x] /\ a2[x] = at[x] /\ x # d
    <3>1. x # d /\ ~ (t # None /\ x = t) BY <1>4, <2>2, <2>4 DEF OwnPlaced
    <3> QED BY <1>4, <2>1, <3>1
  <2>5. \A x \in Slots : Continues(kind, desc, x) => Continues(k2, desc, x)
    BY <2>4 DEF Continues
  <2>6. OwnPlaced(k2)'
    <3>1. \A x \in owned' : x \in owned /\ x \in Slots /\ x # d /\ x # t
      BY <1>1, <1>3 DEF t
    <3>2. \A x \in owned' : k2[x] = kind[x] BY <2>1, <3>1
    <3> QED BY <1>4, <3>1, <3>2 DEF OwnPlaced
  <2>7. UsedPlaced(k2, a2)'
    <3>1. \A i \in Nat : U(i) \in Slots BY <1>3, SlotOf DEF U
    <3>2. \A i : U(i)' = U(i) BY <1>2 DEF U
    <3>3. \A i \in taken..(last_used_idx - 1) : i \in Nat BY <1>3
    <3>4. \A i \in taken..(last_used_idx - 1) : k2[U(i)] = "used" /\ a2[U(i)] = i
      BY <1>4, <2>4, <3>1, <3>3 DEF UsedPlaced
    <3> QED BY <1>2, <3>2, <3>4 DEF UsedPlaced
  <2>8. VecPlaced(k2, a2)'
    <3> SUFFICES ASSUME epc \in {"collect", "fill"}, NEW k \in (cnt + 1)..Len(buf_vec)
                 PROVE  k2[buf_vec[k]] = "vec" /\ a2[buf_vec[k]] = k
      BY <1>2 DEF VecPlaced
    <3>1. cnt \in Nat
      <4>1. CASE epc = "fill"
        <5>1. cnt \in 0..(NBufs - 1) BY <4>1 DEF EnqCore, EnqThread
        <5> QED BY <5>1, EnqueueConstants
      <4>2. CASE epc = "collect" BY <4>2 DEF EnqCore, EnqThread
      <4> QED BY <4>1, <4>2
    <3>2. buf_vec[k] \in Slots
      <4>1. k \in 1..Len(buf_vec) BY <1>3, <3>1
      <4> QED BY <1>3, <4>1
    <3>3. kind[buf_vec[k]] = "vec" /\ at[buf_vec[k]] = k BY <1>4 DEF VecPlaced
    <3> QED BY <2>4, <3>2, <3>3
  <2>9. CursorPlaced(k2)'
    <3> SUFFICES ASSUME epc = "collect" PROVE k2[cursor] = "cursor" /\ Continues(k2, desc, cursor)
      BY <1>2 DEF CursorPlaced
    <3>1. kind[cursor] = "cursor" /\ Continues(kind, desc, cursor) BY <1>4 DEF CursorPlaced
    <3> QED BY <1>3, <2>4, <2>5, <3>1
  <2>10. RingPlaced(k2, a2)'
    <3> SUFFICES ASSUME epc # "aborted", NEW j \in Nat, NextEntry' <= j, j < A + 1
                 PROVE  k2[D(j)'] = "ring" /\ a2[D(j)'] = j /\ Continues(k2, desc, D(j)')
      BY <1>2 DEF RingPlaced
    <3>1. NextEntry' = NextEntry BY <1>2 DEF NextEntry
    <3> DEFINE N == NextEntry
    <3>2. N \in Nat
      <4>1. CASE epc = "fill"
        <5>1. N = last_used_idx + (NBufs - cnt) /\ cnt \in 0..(NBufs - 1)
          BY <4>1 DEF NextEntry, EnqCore, EnqThread
        <5> QED BY <1>3, <5>1, EnqueueConstants
      <4>2. CASE epc # "fill" BY <1>3, <4>2 DEF NextEntry
      <4> QED BY <4>1, <4>2
    <3>3. \A i \in N..(A - 1) :
            /\ i \in Nat /\ D(i) \in Slots /\ kind[D(i)] = "ring" /\ at[D(i)] = i
            /\ Continues(kind, desc, D(i)) /\ D(i) # d
      <4> TAKE i \in N..(A - 1)
      <4>1. i \in Nat /\ N <= i /\ i < A BY <1>3, <3>2
      <4>2. D(i) \in Slots BY <1>3, <4>1, SlotOf DEF D
      <4>3. kind[D(i)] = "ring" /\ at[D(i)] = i /\ Continues(kind, desc, D(i))
        BY <1>4, <4>1 DEF RingPlaced, A
      <4> QED BY <1>4, <4>1, <4>2, <4>3 DEF OwnPlaced
    <3> HIDE DEF N
    <3>4. N <= j BY <3>1 DEF N
    <3>5. A - N < Size
      <4>1. CASE N > A BY <1>3, <3>2, <4>1, EnqueueConstants
      <4>2. CASE N <= A
        <5> DEFINE g == [i \in N..(A - 1) |-> D(i)]
        <5>1. g \in [N..(A - 1) -> Slots] BY <3>3
        <5>2. \A i \in N..(A - 1) : g[i] # d BY <3>3
        <5>3. \A i, k \in N..(A - 1) : g[i] = g[k] => i = k
          <6>1. \A i \in N..(A - 1) : at[D(i)] = i BY <3>3
          <6> QED BY <6>1
        <5> HIDE DEF g
        <5> QED BY ONLY <1>3, <1>5, <3>2, <4>2, <5>1, <5>2, <5>3, EntryLeft
      <4> QED BY <1>3, <3>2, <4>1, <4>2
    <3>6. CASE j = A
      <4>1. D(j)' = d BY <1>6, <3>6 DEF D
      <4>2. Continues(k2, desc, d) BY <2>2, <2>3 DEF Continues, t
      <4> QED BY <2>3, <3>6, <4>1, <4>2
    <3>7. CASE j # A
      <4>1. j \in N..(A - 1) BY <1>3, <3>2, <3>4, <3>7
      <4>2. D(j)' = D(j)
        <5>1. j - A < Size /\ A - j < Size BY <1>3, <3>2, <3>5, <4>1, EnqueueConstants
        <5>2. j % Size # A % Size BY <1>3, <3>7, <5>1, SlotsDiffer
        <5>3. j % Size \in Slots BY SlotOf
        <5> QED BY <1>1, <1>3, <5>2, <5>3 DEF D
      <4>3. kind[D(j)] = "ring" /\ at[D(j)] = j /\ Continues(kind, desc, D(j)) /\ D(j) \in Slots
        BY <3>3, <4>1
      <4> QED BY <2>4, <2>5, <4>2, <4>3
    <3> QED BY <3>6, <3>7
  <2> QED BY <2>3, <2>6, <2>7, <2>8, <2>9, <2>10 DEF EnqPlaces
<1> QED BY <1>7, <1>8, <1>9, <1>10, <1>11, <1>12 DEF EnqCore

\* What one more buffer, of length n, adds to what the guest has put together
\* from buffers with room for r.
LEMMA RoomAdds ==
  ASSUME NEW r \in Nat, NEW n \in Nat
  PROVE  Min({Len(Whole), Min({Len(Whole), r}) + n}) = Min({Len(Whole), r + n})
<1> DEFINE W == Len(Whole)
           s == Min({W, r})
<1>0. W \in Nat BY WholeType
<1> HIDE DEF W
<1>1. s = IF W <= r THEN W ELSE r BY <1>0, MinIs
<1> HIDE DEF s
<1>2. s \in Nat /\ s + n \in Nat /\ r + n \in Nat BY <1>0, <1>1
<1>3. Min({W, s + n}) = IF W <= s + n THEN W ELSE s + n BY <1>0, <1>2, MinIs
<1>4. Min({W, r + n}) = IF W <= r + n THEN W ELSE r + n BY <1>0, <1>2, MinIs
<1>5. Min({W, s + n}) = Min({W, r + n}) BY <1>0, <1>1, <1>2, <1>3, <1>4
<1> QED BY <1>5 DEF s, W

LEMMA TakesPiece ==
  ASSUME NEW m \in Seq(Nat), NEW l \in Nat, l = Len(m)
  PROVE  SubSeq(m, 1, Min({l, Len(m)})) = m
<1>1. Min({l, Len(m)}) = Len(m) BY MinIs
<1> QED BY <1>1, WholePiece

LEMMA EmptyBefore ==
  ASSUME NEW s \in Seq(Nat)
  PROVE  <<>> \o s = s
<1>1. <<>> \in Seq(Nat) /\ Len(<<>>) = 0 /\ Len(s) \in Nat OBVIOUS
<1>2. \A i \in 1..Len(s) : 0 + i = i BY <1>1
<1>3. Len(s) = Len(<<>>) + Len(s) /\ \A i \in 1..Len(s) : s[Len(<<>>) + i] = s[i]
  BY ONLY <1>1, <1>2
<1>4. \A i \in 1..Len(<<>>) : s[i] = <<>>[i] BY <1>1
<1> QED BY <1>1, <1>3, <1>4, ConcatIs

LEMMA ReapCore == EnqDesc /\ EnqCore /\ Reap => EnqCore'
<1> SUFFICES ASSUME EnqDesc, EnqCore, Reap PROVE EnqCore' OBVIOUS
<1> DEFINE T == taken
           d == U(T)
           n == desc[d].len
           m == mem[d]
           l == used[T % Size][2]
<1>1. /\ taken < used_idx /\ taken' = taken + 1 /\ owned' = owned \cup {d}
      /\ part' = (IF T % NBufs = 0 THEN <<>> ELSE part) \o SubSeq(m, 1, Min({l, Len(m)}))
      /\ room' = (IF T % NBufs = 0 THEN 0 ELSE room) + n
      /\ UNCHANGED <<desc, ring, avail_idx, used, used_idx, last_avail_idx, last_used_idx, epc,
                     cursor, buf_vec, a_idx, cnt, written_len, mem>>
  BY DEF Reap, ringVars, loopVars, U
<1>2. /\ ring \in [Slots -> Slots] /\ owned \subseteq Slots /\ T \in Nat /\ last_used_idx \in Nat
      /\ used \in [Slots -> Slots \X Nat] /\ mem \in [Slots -> Seq(Nat)] /\ avail_idx \in Nat
      /\ used_idx = last_used_idx /\ buf_vec \in Seq(Slots) /\ cursor \in Slots /\ a_idx \in Nat
  BY DEF EnqCore, EnqTypes, EnqIndices
<1>3. PICK w \in [Nat -> 0..Len(Whole)] :
        /\ \A i \in taken..(last_used_idx - 1) :
             Holds(w, i, U(i), desc[U(i)].len, mem[U(i)], used[i % Size])
        /\ epc = "fill" /\ cnt > 0 => w[last_used_idx - 1] = Len(Meta) + written_len
        /\ taken % NBufs # 0 => w[taken - 1] = Min({Len(Whole), room})
  BY DEF EnqCore, EnqFrames
<1>4. PICK kind \in [Slots -> Kinds], at \in [Slots -> Int] :
        /\ OwnPlaced(kind) /\ UsedPlaced(kind, at) /\ VecPlaced(kind, at)
        /\ RingPlaced(kind, at) /\ CursorPlaced(kind)
  BY DEF EnqCore, EnqPlaces
<1>5. part \in Seq(Nat) /\ room \in Nat /\ part = SubSeq(Whole, 1, Min({Len(Whole), room}))
  BY DEF EnqCore, EnqPart
<1>6. T \in T..(last_used_idx - 1)
  <2>1. T < last_used_idx /\ T \in Nat /\ last_used_idx \in Nat BY <1>1, <1>2
  <2> QED BY ONLY <2>1
<1>7. T % Size \in Slots /\ d \in Slots /\ l \in Nat BY <1>2, SlotOf DEF U
<1>8. n \in Nat
  <2>1. n \in BufLens BY <1>7 DEF EnqDesc
  <2> QED BY <2>1, EnqueueConstants
<1> DEFINE s == Start(w, T)
           e == w[T]
<1>9. /\ s <= e /\ e = Min({Len(Whole), s + n}) /\ m = SubSeq(Whole, s + 1, e)
      /\ used[T % Size] = <<d, e - s>>
  <2>1. Holds(w, T, d, n, m, used[T % Size]) BY <1>3, <1>6
  <2> QED BY ONLY <2>1, Zenon DEF Holds
<1>10. l = e - s BY <1>9
<1>11. e \in 0..Len(Whole) BY <1>2
<1> HIDE DEF n, m, l, s, e
<1>12. /\ s = IF T % NBufs = 0 THEN 0 ELSE Min({Len(Whole), room})
       /\ s \in Nat /\ e \in Nat /\ e <= Len(Whole)
  <2>1. s = IF T % NBufs = 0 THEN 0 ELSE Min({Len(Whole), room}) BY <1>3 DEF s, Start
  <2>2. Min({Len(Whole), room}) \in Nat BY <1>5, WholeType, MinIs
  <2> QED BY <1>11, <2>1, <2>2, WholeType
<1>13. SubSeq(m, 1, Min({l, Len(m)})) = m /\ m \in Seq(Nat)
  <2>1. m \in Seq(Nat) /\ Len(m) = e - s BY <1>9, <1>12, WholeType, PieceType
  <2>2. l \in Nat /\ l = Len(m) BY <1>7, <1>10, <2>1
  <2> QED BY ONLY <2>1, <2>2, TakesPiece, Zenon
\* What the guest has put together with this buffer.
<1>14. part' = SubSeq(Whole, 1, e) /\ room' \in Nat /\ e = Min({Len(Whole), room'})
  <2>0. Whole \in Seq(Nat) /\ Len(Whole) \in Nat BY WholeType
  <2>1. CASE T % NBufs = 0
    <3>1. s = 0 /\ room' = 0 + n /\ part' = <<>> \o m BY <1>1, <1>12, <1>13, <2>1
    <3>2. part' = m BY <1>13, <3>1, EmptyBefore
    <3>3. m = SubSeq(Whole, 1, e) BY <1>9, <3>1
    <3>4. room' = n /\ e = Min({Len(Whole), 0 + n}) BY <1>8, <1>9, <3>1
    <3>5. 0 + n = n BY <1>8
    <3> QED BY <1>8, <3>2, <3>3, <3>4, <3>5
  <2>2. CASE T % NBufs # 0
    <3>1. s = Min({Len(Whole), room}) /\ room' = room + n /\ part' = part \o m
      BY <1>1, <1>12, <1>13, <2>2
    <3>2. part = SubSeq(Whole, 1, s) BY <1>5, <3>1
    <3>3. SubSeq(Whole, 1, s) \o SubSeq(Whole, s + 1, e) = SubSeq(Whole, 1, e)
      BY <1>9, <1>12, <2>0, PiecesMeet
    <3>4. e = Min({Len(Whole), room + n}) BY <1>5, <1>8, <1>9, <3>1, RoomAdds
    <3>5. room + n \in Nat BY <1>5, <1>8
    <3> QED BY <1>9, <3>1, <3>2, <3>3, <3>4, <3>5
  <2> QED BY <2>1, <2>2
<1>15. EnqPart'
  <2>1. SubSeq(Whole, 0 + 1, e) \in Seq(Nat)
    <3>1. Whole \in Seq(Nat) /\ 0 \in Nat /\ e \in Nat /\ 0 <= e /\ e <= Len(Whole)
      BY <1>12, WholeType
    <3> QED BY ONLY <3>1, PieceType
  <2>2. 0 + 1 = 1 OBVIOUS
  <2>3. part' \in Seq(Nat) BY <1>14, <2>1, <2>2
  <2> QED BY <1>14, <2>3 DEF EnqPart
<1>16. EnqTypes'
  <2>1. owned' \subseteq Slots /\ taken' \in Nat BY <1>1, <1>2, <1>7
  <2> QED BY <1>1, <1>2, <2>1 DEF EnqTypes
<1>17. EnqIndices'
  <2>1. taken' <= last_used_idx BY <1>1, <1>2
  <2> QED BY <1>1, <2>1 DEF EnqCore, EnqIndices
<1>18. EnqThread' BY <1>1 DEF EnqCore, EnqThread
<1>19. \A i \in (T + 1)..(last_used_idx - 1) : i \in T..(last_used_idx - 1) /\ i # T BY <1>2
<1>20. \A i : U(i)' = U(i) /\ D(i)' = D(i) BY <1>1 DEF U, D
<1>21. EnqFrames'
  <2>1. \A i \in taken'..(last_used_idx' - 1) :
          Holds(w, i, U(i)', desc'[U(i)'].len, mem'[U(i)'], used'[i % Size])
    BY <1>1, <1>3, <1>19, <1>20
  <2>2. w[taken' - 1] = Min({Len(Whole), room'})
    <3>1. taken' - 1 = T BY <1>1, <1>2
    <3> QED BY <1>14, <3>1 DEF e
  <2>3. (epc = "fill" /\ cnt > 0)' => w[last_used_idx' - 1] = Len(Meta) + written_len'
    BY <1>1, <1>3
  <2> QED BY <2>1, <2>2, <2>3 DEF EnqFrames
<1>22. EnqPlaces'
  <2>1. PICK k2 : k2 = [kind EXCEPT ![d] = "own"] OBVIOUS
  <2>2. kind[d] = "used" /\ at[d] = T BY <1>4, <1>6 DEF UsedPlaced
  <2> HIDE DEF d
  <2>3. /\ k2 \in [Slots -> Kinds] /\ k2[d] = "own"
        /\ \A x \in Slots : x # d => k2[x] = kind[x]
    BY <1>4, <1>7, <2>1 DEF Kinds
  <2>4. \A x \in Slots : kind[x] # "used" => k2[x] = kind[x] BY <2>2, <2>3
  <2>5. \A x \in Slots : Continues(kind, desc, x) => Continues(k2, desc, x) BY <2>4 DEF Continues
  <2>6. OwnPlaced(k2)'
    <3>1. \A x \in owned : k2[x] = "own" BY <1>2, <1>4, <2>4 DEF OwnPlaced
    <3> QED BY <1>1, <2>3, <3>1 DEF OwnPlaced
  <2>7. UsedPlaced(k2, at)'
    <3>1. ASSUME NEW i \in (T + 1)..(last_used_idx - 1)
          PROVE  k2[U(i)] = "used" /\ at[U(i)] = i
      <4>1. kind[U(i)] = "used" /\ at[U(i)] = i BY <1>4, <1>19 DEF UsedPlaced
      <4>2. U(i) \in Slots
        <5>1. i \in Nat BY <1>2
        <5> QED BY <1>2, <5>1, SlotOf DEF U
      <4>3. U(i) # d BY <1>19, <2>2, <4>1
      <4> QED BY <2>3, <4>1, <4>2, <4>3
    <3> QED BY <1>1, <1>20, <3>1 DEF UsedPlaced
  <2>8. VecPlaced(k2, at)'
    <3> SUFFICES ASSUME epc \in {"collect", "fill"}, NEW k \in (cnt + 1)..Len(buf_vec)
                 PROVE  k2[buf_vec[k]] = "vec" /\ at[buf_vec[k]] = k
      BY <1>1 DEF VecPlaced
    <3>1. cnt \in Nat
      <4>1. CASE epc = "fill"
        <5>1. cnt \in 0..(NBufs - 1) BY <4>1 DEF EnqCore, EnqThread
        <5> QED BY <5>1, EnqueueConstants
      <4>2. CASE epc = "collect" BY <4>2 DEF EnqCore, EnqThread
      <4> QED BY <4>1, <4>2
    <3>2. buf_vec[k] \in Slots
      <4>1. k \in 1..Len(buf_vec) BY <1>2, <3>1
      <4> QED BY <1>2, <4>1
    <3>3. kind[buf_vec[k]] = "vec" /\ at[buf_vec[k]] = k BY <1>4 DEF VecPlaced
    <3> QED BY <2>4, <3>2, <3>3
  <2>9. CursorPlaced(k2)'
    <3> SUFFICES ASSUME epc = "collect" PROVE k2[cursor] = "cursor" /\ Continues(k2, desc, cursor)
      BY <1>1 DEF CursorPlaced
    <3>1. kind[cursor] = "cursor" /\ Continues(kind, desc, cursor) BY <1>4 DEF CursorPlaced
    <3> QED BY <1>2, <2>4, <2>5, <3>1
  <2>10. RingPlaced(k2, at)'
    <3> SUFFICES ASSUME epc # "aborted", NEW j \in Nat, NextEntry' <= j, j < avail_idx
                 PROVE  k2[D(j)] = "ring" /\ at[D(j)] = j /\ Continues(k2, desc, D(j))
      BY <1>1, <1>20 DEF RingPlaced
    <3>1. NextEntry' = NextEntry BY <1>1 DEF NextEntry
    <3>2. kind[D(j)] = "ring" /\ at[D(j)] = j /\ Continues(kind, desc, D(j))
      BY <1>4, <3>1 DEF RingPlaced
    <3>3. D(j) \in Slots BY <1>2, SlotOf DEF D
    <3> QED BY <2>4, <2>5, <3>2, <3>3
  <2> QED BY <2>3, <2>6, <2>7, <2>8, <2>9, <2>10 DEF EnqPlaces
<1> QED BY <1>15, <1>16, <1>17, <1>18, <1>21, <1>22 DEF EnqCore

-----------------------------------------------------------------------------
LEMMA EnqNextInv == EnqInv /\ [EnqNext]_enqVars => EnqInv'
<1> SUFFICES ASSUME EnqInv, [EnqNext]_enqVars PROVE EnqInv' OBVIOUS
<1>1. /\ EnqDesc /\ short \in BOOLEAN /\ spilled \in BOOLEAN
      /\ ~ short /\ ~ spilled => EnqCore
  BY Zenon DEF EnqInv
<1>2. desc' = desc /\ short' \in BOOLEAN /\ (short => short')
  BY <1>1 DEF EnqNext, Poll, Collect, Fill, Kick, Post, Reap, enqVars, ringVars, guestVars,
              faultVars
<1>3. spilled' \in BOOLEAN /\ (spilled => spilled')
  <2>1. CASE Fill
    <3>1. \E b \in BOOLEAN : spilled' = (spilled \/ b) BY <2>1, Zenon DEF Fill
    <3> QED BY <1>1, <3>1
  <2>2. CASE spilled' = spilled BY <1>1, <2>2
  <2> QED BY <2>1, <2>2 DEF EnqNext, Poll, Collect, Kick, Post, Reap, enqVars, faultVars
<1>4. ASSUME ~ short', ~ spilled' PROVE EnqCore'
  <2>1. EnqCore BY <1>1, <1>2, <1>3, <1>4
  <2>2. CASE Poll BY <1>1, <1>4, <2>1, <2>2, PollCore
  <2>3. CASE Collect BY <1>1, <1>4, <2>1, <2>3, CollectCore
  <2>4. CASE Fill BY <1>1, <1>4, <2>1, <2>4, FillCore
  <2>5. CASE Kick BY <2>1, <2>5, KickCore
  <2>6. CASE Post BY <1>1, <2>1, <2>6, PostCore
  <2>7. CASE Reap BY <1>1, <2>1, <2>7, ReapCore
  <2>8. CASE UNCHANGED enqVars
    <3> USE DEF enqVars, ringVars, guestVars, loopVars
    <3>1. EnqTypes' /\ EnqIndices' BY <2>1, <2>8 DEF EnqCore, EnqTypes, EnqIndices
    <3>2. EnqPlaces'
      <4>1. PICK kind \in [Slots -> Kinds], at \in [Slots -> Int] :
              /\ OwnPlaced(kind) /\ UsedPlaced(kind, at) /\ VecPlaced(kind, at)
              /\ RingPlaced(kind, at) /\ CursorPlaced(kind)
        BY <2>1 DEF EnqCore, EnqPlaces
      <4>2. OwnPlaced(kind)' /\ UsedPlaced(kind, at)' /\ VecPlaced(kind, at)'
        BY <2>8, <4>1 DEF OwnPlaced, UsedPlaced, VecPlaced, U
      <4>3. NextEntry' = NextEntry BY <2>8 DEF NextEntry
      <4>4. RingPlaced(kind, at)' /\ CursorPlaced(kind)'
        BY <2>8, <4>1, <4>3 DEF RingPlaced, CursorPlaced, D
      <4> QED BY <4>2, <4>4 DEF EnqPlaces
    <3>3. EnqFrames' BY <2>1, <2>8, FramesStay DEF EnqCore
    <3>4. EnqThread' BY <2>1, <2>8 DEF EnqCore, EnqThread
    <3>5. EnqPart' BY <2>1, <2>8 DEF EnqCore, EnqPart
    <3> QED BY <3>1, <3>2, <3>3, <3>4, <3>5 DEF EnqCore
  <2> QED BY <2>2, <2>3, <2>4, <2>5, <2>6, <2>7, <2>8 DEF EnqNext
<1>5. EnqDesc' BY <1>1, <1>2 DEF EnqDesc
<1> QED BY <1>2, <1>3, <1>4, <1>5, Zenon DEF EnqInv

\* Whatever a guest posts, single buffers of any lengths or a chain, and however
\* its taking and posting interleave with the thread that fills them one by
\* one: what it has put together of a frame is the metadata and the frame, cut
\* only where its buffers are full, and what the thread is about to fill is not
\* the guest's.  Until an entry that was not posted is used or a buffer shorter
\* than the metadata is written past its end, which the code does not prevent.
THEOREM FramesAlwaysWhole == EnqSpec => []FramesWhole
<1>1. EnqInv => FramesWhole BY EnqInvWhole
<1> QED BY <1>1, EnqInitInv, EnqNextInv, PTL DEF EnqSpec

=============================================================================
