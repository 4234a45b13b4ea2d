------------------------- MODULE ConfigManagerProofs -------------------------
(***************************************************************************)
(* Theorems about ConfigManager: the port map through any number of calls, *)
(* ports, queues and sockets, and the parser on any command line.          *)
(***************************************************************************)
EXTENDS ConfigManager, WellFoundedInduction, TLAPS

(***************************************************************************)
(* The port map.  The queues of a device are numbered as initVhostDevice   *)
(* numbers them, so setQueueState finds the one pair that has the queue.   *)
(***************************************************************************)
PortRecords ==
    [vid : Ports \cup {0}, nof_queue_pairs : 0..MAX_QUEUE_PAIRS, ready : BOOLEAN,
     vctl : Int, pctl : Int, vrx : [Pairs -> Int], vtx : [Pairs -> Int],
     rx_enabled : [Pairs -> BOOLEAN], tx_enabled : [Pairs -> BOOLEAN],
     prx : [Pairs -> Int], ptx : [Pairs -> Int]]

PortTypes ==
    /\ DOMAIN pmap \subseteq Ports
    /\ pmap \in [DOMAIN pmap -> PortRecords]
    /\ \A p \in DOMAIN pmap : given[p] \in [Pairs -> Int]
    /\ given = [p \in Ports |-> given[p]] /\ asked \in [Ports -> SUBSET Int]

Numbered ==
    \A p \in DOMAIN pmap : \A i \in 0..(pmap[p].nof_queue_pairs - 1) :
      pmap[p].vrx[i] = 2 * i /\ pmap[p].vtx[i] = 2 * i + 1

PortInv == PortTypes /\ Numbered /\ QueuesFollow

LEMMA ConfigConstants ==
  /\ MAX_QUEUE_PAIRS \in Nat /\ MAX_QUEUE_PAIRS >= 1 /\ CtlMod \in Nat /\ CtlMod >= 1
  /\ \A fd \in Fds : fd \in Int
  BY ConfigAssumption

LEMMA PortInit == CfgInit => PortInv
<1> SUFFICES ASSUME CfgInit PROVE PortInv
  OBVIOUS
<1>1. pmap = [p \in {} |-> {}] /\ given = [p \in Ports |-> <<>>] /\ asked = [p \in Ports |-> {}]
  BY DEF CfgInit
<1>2. DOMAIN pmap = {} BY <1>1
<1>3. pmap \in [DOMAIN pmap -> PortRecords] BY <1>1, <1>2
<1> QED BY <1>1, <1>2, <1>3 DEF PortInv, PortTypes, Numbered, QueuesFollow

LEMMA PortStutter == PortInv /\ UNCHANGED portVars => PortInv'
<1> SUFFICES ASSUME PortInv, pmap' = pmap, asked' = asked, given' = given PROVE PortInv'
  BY DEF portVars
<1>1. PortTypes' BY DEF PortInv, PortTypes
<1>2. Numbered' BY DEF PortInv, Numbered
<1>3. QueuesFollow' BY Zenon DEF PortInv, QueuesFollow
<1> QED BY <1>1, <1>2, <1>3 DEF PortInv

\* The entry that a device is set up in: the old one, or a new one.
LEMMA OldEntry ==
  ASSUME PortTypes, NEW p \in Ports
  PROVE  At(p) \in PortRecords
<1>1. NewPort \in PortRecords
  BY ConfigConstants DEF NewPort, PortRecords, Pairs
<1> QED BY <1>1 DEF At, PortTypes

LEMMA PortSetUp ==
  ASSUME PortInv, NEW p \in Ports, NEW n \in 0..(MAX_QUEUE_PAIRS + 1), InitVhostDevice(p, p, n)
  PROVE  PortInv'
<1>0. n \in 0..MAX_QUEUE_PAIRS BY ConfigConstants DEF InitVhostDevice
<1>1. At(p) \in PortRecords BY OldEntry DEF PortInv
<1>2. PICK new \in PortRecords :
        /\ pmap' = Store(p, new) /\ new.nof_queue_pairs = n
        /\ \A i \in 0..(n - 1) :
             /\ new.vrx[i] = 2 * i /\ new.vtx[i] = 2 * i + 1
             /\ new.rx_enabled[i] = FALSE /\ new.tx_enabled[i] = FALSE
             /\ new.prx[i] = -1 /\ new.ptx[i] = -1
  <2> DEFINE new ==
        [vid |-> p, nof_queue_pairs |-> n, ready |-> TRUE,
         vctl |-> At(p).vctl, pctl |-> At(p).pctl,
         vrx |-> [i \in Pairs |-> IF i < n THEN 2 * i ELSE At(p).vrx[i]],
         vtx |-> [i \in Pairs |-> IF i < n THEN 2 * i + 1 ELSE At(p).vtx[i]],
         rx_enabled |-> [i \in Pairs |-> IF i < n THEN FALSE ELSE At(p).rx_enabled[i]],
         tx_enabled |-> [i \in Pairs |-> IF i < n THEN FALSE ELSE At(p).tx_enabled[i]],
         prx |-> [i \in Pairs |-> IF i < n THEN -1 ELSE At(p).prx[i]],
         ptx |-> [i \in Pairs |-> IF i < n THEN -1 ELSE At(p).ptx[i]]]
  <2>1. pmap' = Store(p, new) BY DEF InitVhostDevice
  <2>2. new \in PortRecords
    <3>1. At(p).vctl \in Int /\ At(p).pctl \in Int BY <1>1 DEF PortRecords
    <3>2. /\ new.vrx \in [Pairs -> Int] /\ new.vtx \in [Pairs -> Int]
          /\ new.prx \in [Pairs -> Int] /\ new.ptx \in [Pairs -> Int]
      <4>1. /\ At(p).vrx \in [Pairs -> Int] /\ At(p).vtx \in [Pairs -> Int]
            /\ At(p).prx \in [Pairs -> Int] /\ At(p).ptx \in [Pairs -> Int]
        BY <1>1 DEF PortRecords
      <4>2. \A i \in Pairs : i \in Int /\ 2 * i \in Int /\ 2 * i + 1 \in Int /\ -1 \in Int
        BY DEF Pairs
      <4>3. new.vrx \in [Pairs -> Int] BY <4>1, <4>2
      <4>4. new.vtx \in [Pairs -> Int] BY <4>1, <4>2
      <4>5. new.prx \in [Pairs -> Int] BY <4>1, <4>2
      <4>6. new.ptx \in [Pairs -> Int] BY <4>1, <4>2
      <4> QED BY <4>3, <4>4, <4>5, <4>6
    <3>3. /\ new.rx_enabled \in [Pairs -> BOOLEAN] /\ new.tx_enabled \in [Pairs -> BOOLEAN]
      BY <1>1 DEF PortRecords
    <3> QED BY <1>0, <3>1, <3>2, <3>3 DEF PortRecords
  <2>3. \A i \in 0..(n - 1) : i \in Pairs /\ i < n
    BY <1>0, ConfigConstants DEF Pairs
  <2> QED BY <2>1, <2>2, <2>3
<1>3. asked' = [asked EXCEPT ![p] = {}] /\ given' = [given EXCEPT ![p] = [i \in Pairs |-> -1]]
  BY DEF InitVhostDevice
<1>4. /\ DOMAIN pmap' = DOMAIN pmap \cup {p} /\ pmap'[p] = new
      /\ \A q \in DOMAIN pmap' \ {p} : q \in DOMAIN pmap /\ pmap'[q] = pmap[q]
      /\ pmap' \in [DOMAIN pmap' -> PortRecords]
  BY <1>2 DEF Store, PortInv, PortTypes
<1>5. /\ asked' \in [Ports -> SUBSET Int] /\ asked'[p] = {}
      /\ given' = [q \in Ports |-> given'[q]] /\ given'[p] = [i \in Pairs |-> -1]
      /\ given'[p] \in [Pairs -> Int]
      /\ \A q \in Ports \ {p} : asked'[q] = asked[q] /\ given'[q] = given[q]
  BY <1>3 DEF PortInv, PortTypes
<1>6. PortTypes' BY <1>4, <1>5 DEF PortInv, PortTypes
<1>7. Numbered' BY <1>2, <1>4 DEF PortInv, Numbered
<1>8. QueuesFollow'
  <2> SUFFICES ASSUME NEW q \in DOMAIN pmap', NEW i \in 0..(pmap'[q].nof_queue_pairs - 1)
               PROVE  /\ pmap'[q].rx_enabled[i] = (2 * i \in asked'[q])
                      /\ pmap'[q].tx_enabled[i] = (2 * i + 1 \in asked'[q])
                      /\ pmap'[q].prx[i] = given'[q][i] /\ pmap'[q].ptx[i] = given'[q][i]
    BY DEF QueuesFollow
  <2>1. CASE q = p
    <3>1. i \in 0..(n - 1) /\ i \in Pairs BY <1>0, <1>2, <1>4, <2>1, ConfigConstants DEF Pairs
    <3>2. pmap'[q].rx_enabled[i] = FALSE /\ pmap'[q].tx_enabled[i] = FALSE
      BY <1>2, <1>4, <2>1, <3>1
    <3>3. 2 * i \notin asked'[q] /\ 2 * i + 1 \notin asked'[q] BY <1>5, <2>1
    <3>4. pmap'[q].prx[i] = given'[q][i] /\ pmap'[q].ptx[i] = given'[q][i]
      BY <1>2, <1>4, <1>5, <2>1, <3>1
    <3>5. (2 * i \in asked'[q]) = FALSE BY ONLY <3>3
    <3>6. (2 * i + 1 \in asked'[q]) = FALSE BY ONLY <3>3
    <3> QED BY ONLY <3>2, <3>4, <3>5, <3>6
  <2>2. CASE q # p
    <3>1. q \in DOMAIN pmap /\ q \in Ports /\ pmap'[q] = pmap[q] /\ asked'[q] = asked[q] /\ given'[q] = given[q]
      BY <1>4, <1>5, <2>2 DEF PortInv, PortTypes
    <3> QED BY <3>1 DEF PortInv, QueuesFollow
  <2> QED BY <2>1, <2>2
<1> QED BY <1>6, <1>7, <1>8 DEF PortInv

\* A call that changes one entry and leaves the numbers of its queues alone.
LEMMA PortChanged ==
  ASSUME PortInv, NEW p \in DOMAIN pmap, NEW new \in PortRecords,
         pmap' = [pmap EXCEPT ![p] = new],
         new.nof_queue_pairs = pmap[p].nof_queue_pairs,
         new.vrx = pmap[p].vrx, new.vtx = pmap[p].vtx,
         asked' \in [Ports -> SUBSET Int], given' = [q \in Ports |-> given'[q]],
         given'[p] \in [Pairs -> Int],
         \A q \in Ports \ {p} : asked'[q] = asked[q] /\ given'[q] = given[q],
         \A i \in 0..(new.nof_queue_pairs - 1) :
           /\ new.rx_enabled[i] = (2 * i \in asked'[p])
           /\ new.tx_enabled[i] = (2 * i + 1 \in asked'[p])
           /\ new.prx[i] = given'[p][i] /\ new.ptx[i] = given'[p][i]
  PROVE  PortInv'
<1>0. pmap \in [DOMAIN pmap -> PortRecords] /\ DOMAIN pmap \subseteq Ports
  BY DEF PortInv, PortTypes
<1>1. /\ DOMAIN pmap' = DOMAIN pmap /\ pmap'[p] = new
      /\ \A q \in DOMAIN pmap \ {p} : pmap'[q] = pmap[q]
      /\ pmap' \in [DOMAIN pmap' -> PortRecords]
  BY <1>0
<1>2. PortTypes' BY <1>0, <1>1 DEF PortInv, PortTypes
<1>3. Numbered' BY <1>1 DEF PortInv, Numbered
<1>4. QueuesFollow'
  <2> SUFFICES ASSUME NEW q \in DOMAIN pmap', NEW i \in 0..(pmap'[q].nof_queue_pairs - 1)
               PROVE  /\ pmap'[q].rx_enabled[i] = (2 * i \in asked'[q])
                      /\ pmap'[q].tx_enabled[i] = (2 * i + 1 \in asked'[q])
                      /\ pmap'[q].prx[i] = given'[q][i] /\ pmap'[q].ptx[i] = given'[q][i]
    BY DEF QueuesFollow
  <2>1. CASE q = p
    BY <1>1, <2>1
  <2>2. CASE q # p
    <3>1. q \in DOMAIN pmap /\ q \in Ports /\ pmap'[q] = pmap[q] /\ asked'[q] = asked[q] /\ given'[q] = given[q]
      BY <1>0, <1>1, <2>2
    <3> QED BY <3>1 DEF PortInv, QueuesFollow
  <2> QED BY <2>1, <2>2
<1> QED BY <1>2, <1>3, <1>4 DEF PortInv

\* A call that changes only what has been asked of a port, of no queue it has.
LEMMA PortAsked ==
  ASSUME PortInv, NEW p \in Ports, pmap' = pmap, given' = given,
         asked' \in [Ports -> SUBSET Int],
         \A q \in Ports \ {p} : asked'[q] = asked[q],
         p \in DOMAIN pmap =>
           \A i \in 0..(pmap[p].nof_queue_pairs - 1) :
             /\ 2 * i \in asked'[p] <=> 2 * i \in asked[p]
             /\ 2 * i + 1 \in asked'[p] <=> 2 * i + 1 \in asked[p]
  PROVE  PortInv'
<1>1. PortTypes' BY DEF PortInv, PortTypes
<1>2. Numbered' BY DEF PortInv, Numbered
<1>3. QueuesFollow'
  <2> SUFFICES ASSUME NEW q \in DOMAIN pmap, NEW i \in 0..(pmap[q].nof_queue_pairs - 1)
               PROVE  /\ pmap[q].rx_enabled[i] = (2 * i \in asked'[q])
                      /\ pmap[q].tx_enabled[i] = (2 * i + 1 \in asked'[q])
                      /\ pmap[q].prx[i] = given[q][i] /\ pmap[q].ptx[i] = given[q][i]
    BY DEF QueuesFollow
  <2>1. /\ pmap[q].rx_enabled[i] = (2 * i \in asked[q])
        /\ pmap[q].tx_enabled[i] = (2 * i + 1 \in asked[q])
        /\ pmap[q].prx[i] = given[q][i] /\ pmap[q].ptx[i] = given[q][i]
    BY DEF PortInv, QueuesFollow
  <2>2. q \in Ports BY DEF PortInv, PortTypes
  <2>3. (2 * i \in asked'[q]) = (2 * i \in asked[q])
    BY <2>2
  <2>4. (2 * i + 1 \in asked'[q]) = (2 * i + 1 \in asked[q])
    BY <2>2
  <2> QED BY ONLY <2>1, <2>3, <2>4
<1> QED BY <1>1, <1>2, <1>3 DEF PortInv

LEMMA PortQueueState ==
  ASSUME PortInv, NEW p \in Ports, NEW v \in 0..(2 * MAX_QUEUE_PAIRS - 1), NEW e \in BOOLEAN,
         SetQueueState(p, v, e)
  PROVE  PortInv'
<1>0. /\ pmap \in [DOMAIN pmap -> PortRecords] /\ asked \in [Ports -> SUBSET Int]
      /\ given = [q \in Ports |-> given[q]] /\ v \in Int /\ v >= 0
      /\ p \in DOMAIN pmap => given[p] \in [Pairs -> Int]
  BY ConfigConstants DEF PortInv, PortTypes
<1>1. /\ given' = given
      /\ asked' = [asked EXCEPT ![p] = IF e THEN @ \cup {v} ELSE @ \ {v}]
  BY DEF SetQueueState
<1>2. asked' \in [Ports -> SUBSET Int] /\ \A q \in Ports \ {p} : asked'[q] = asked[q]
  BY <1>0, <1>1
<1>3. /\ \A k \in Int : k # v => (k \in asked'[p] <=> k \in asked[p])
      /\ v \in asked'[p] <=> e = TRUE
  BY <1>0, <1>1
<1>4. CASE p \notin DOMAIN pmap
  <2>1. pmap' = pmap BY <1>4 DEF SetQueueState
  <2> QED BY <1>1, <1>2, <1>4, <2>1, PortAsked
<1>5. CASE p \in DOMAIN pmap
  <2> DEFINE pm == pmap[p]
             n == pm.nof_queue_pairs
             hits == {i \in 0..(n - 1) : v \in {pm.vrx[i], pm.vtx[i]}}
             i == CHOOSE j \in hits : \A k \in hits : j <= k
  <2>0. pm \in PortRecords /\ n \in 0..MAX_QUEUE_PAIRS BY <1>0, <1>5 DEF PortRecords
  <2>1. hits = {j \in 0..(n - 1) : v = 2 * j \/ v = 2 * j + 1}
    BY <1>5 DEF PortInv, Numbered
  <2>2. pmap' = IF hits = {} THEN pmap
                ELSE IF pm.vrx[i] = v
                THEN [pmap EXCEPT ![p].rx_enabled[i] = e]
                ELSE [pmap EXCEPT ![p].tx_enabled[i] = e]
    BY <1>5 DEF SetQueueState
  <2>3. CASE hits = {}
    <3>1. pmap' = pmap BY <2>2, <2>3
    <3>2. \A j \in 0..(n - 1) : 2 * j # v /\ 2 * j + 1 # v BY <2>1, <2>3
    <3>3. \A j \in 0..(n - 1) : 2 * j \in Int /\ 2 * j + 1 \in Int BY <2>0
    <3>4. \A j \in 0..(n - 1) : /\ 2 * j \in asked'[p] <=> 2 * j \in asked[p]
                                /\ 2 * j + 1 \in asked'[p] <=> 2 * j + 1 \in asked[p]
      BY <1>3, <3>2, <3>3
    <3> QED BY <1>1, <1>2, <3>1, <3>4, PortAsked
  <2>4. CASE hits # {}
    <3>1. PICK h \in hits : TRUE BY <2>4
    <3>2. \A k \in hits : k = h
      BY <2>0, <2>1, <3>1
    <3>3. i = h
      <4>1. i \in hits
        <5>1. \E j \in hits : \A k \in hits : j <= k BY <2>0, <3>1, <3>2
        <5> QED BY <5>1
      <4> QED BY <3>2, <4>1
    <3>4. h \in 0..(n - 1) /\ (v = 2 * h \/ v = 2 * h + 1) /\ h \in Pairs
      BY <2>0, <2>1, <3>1, ConfigConstants DEF Pairs
    <3>5. pm.vrx[h] = 2 * h /\ pm.vtx[h] = 2 * h + 1
      BY <1>5, <3>4 DEF PortInv, Numbered
    <3>6. \A j \in 0..(n - 1) :
            /\ pm.rx_enabled[j] = (2 * j \in asked[p]) /\ pm.tx_enabled[j] = (2 * j + 1 \in asked[p])
            /\ pm.prx[j] = given[p][j] /\ pm.ptx[j] = given[p][j]
      BY <1>5 DEF PortInv, QueuesFollow
    <3> HIDE DEF i, hits
    <3>7. CASE v = 2 * h
      <4> DEFINE new == [pm EXCEPT !.rx_enabled = [pm.rx_enabled EXCEPT ![h] = e]]
      <4>1. pmap' = [pmap EXCEPT ![p] = new]
        BY <1>0, <1>5, <2>0, <2>2, <2>4, <3>3, <3>4, <3>5, <3>7 DEF PortRecords
      <4>2. /\ new \in PortRecords /\ new.nof_queue_pairs = n
            /\ new.vrx = pm.vrx /\ new.vtx = pm.vtx /\ new.tx_enabled = pm.tx_enabled
            /\ new.prx = pm.prx /\ new.ptx = pm.ptx /\ new.rx_enabled[h] = e
            /\ \A j \in Pairs \ {h} : new.rx_enabled[j] = pm.rx_enabled[j]
        BY <2>0, <3>4 DEF PortRecords
      <4> HIDE DEF new
      <4>3. ASSUME NEW j \in 0..(n - 1)
            PROVE  /\ new.rx_enabled[j] = (2 * j \in asked'[p])
                   /\ new.tx_enabled[j] = (2 * j + 1 \in asked'[p])
                   /\ new.prx[j] = given'[p][j] /\ new.ptx[j] = given'[p][j]
        <5>0. j \in Pairs /\ 2 * j \in Int /\ 2 * j + 1 \in Int
          BY <2>0, ConfigConstants DEF Pairs
        <5>1. /\ pm.rx_enabled[j] = (2 * j \in asked[p]) /\ pm.tx_enabled[j] = (2 * j + 1 \in asked[p])
              /\ pm.prx[j] = given[p][j] /\ pm.ptx[j] = given[p][j]
          BY <3>6
        <5>2. 2 * j + 1 # v BY <3>4, <3>7, <5>0
        <5>3. (2 * j + 1 \in asked'[p]) = (2 * j + 1 \in asked[p]) BY <1>3, <5>0, <5>2
        <5>4. new.tx_enabled[j] = (2 * j + 1 \in asked'[p]) BY ONLY <4>2, <5>1, <5>3
        <5>5. new.rx_enabled[j] = (2 * j \in asked'[p])
          <6>1. CASE j = h
            <7>1. (2 * j \in asked'[p]) <=> (e = TRUE) BY <1>3, <3>7, <6>1
            <7>2. CASE e = TRUE BY ONLY <4>2, <6>1, <7>1, <7>2
            <7>3. CASE e = FALSE BY ONLY <4>2, <6>1, <7>1, <7>3
            <7> QED BY <7>2, <7>3
          <6>2. CASE j # h
            <7>1. 2 * j # v BY <3>4, <3>7, <5>0, <6>2
            <7>2. (2 * j \in asked'[p]) = (2 * j \in asked[p]) BY <1>3, <5>0, <7>1
            <7> QED BY ONLY <4>2, <5>0, <5>1, <6>2, <7>2
          <6> QED BY <6>1, <6>2
        <5>6. new.prx[j] = given'[p][j] /\ new.ptx[j] = given'[p][j] BY ONLY <1>1, <4>2, <5>1
        <5> QED BY <5>4, <5>5, <5>6
      <4> HIDE DEF n, pm
      <4>4. /\ new.nof_queue_pairs = pmap[p].nof_queue_pairs /\ new.vrx = pmap[p].vrx
            /\ new.vtx = pmap[p].vtx
        BY <4>2 DEF n, pm
      <4>5. given' = [q \in Ports |-> given'[q]] /\ given'[p] \in [Pairs -> Int]
            /\ \A q \in Ports \ {p} : given'[q] = given[q]
        BY <1>0, <1>1, <1>5
      <4> QED BY <1>2, <1>5, <4>1, <4>2, <4>3, <4>4, <4>5, PortChanged
    <3>8. CASE v = 2 * h + 1
      <4> DEFINE new == [pm EXCEPT !.tx_enabled = [pm.tx_enabled EXCEPT ![h] = e]]
      <4>1. pmap' = [pmap EXCEPT ![p] = new]
        BY <1>0, <1>5, <2>0, <2>2, <2>4, <3>3, <3>4, <3>5, <3>8 DEF PortRecords
      <4>2. /\ new \in PortRecords /\ new.nof_queue_pairs = n
            /\ new.vrx = pm.vrx /\ new.vtx = pm.vtx /\ new.rx_enabled = pm.rx_enabled
            /\ new.prx = pm.prx /\ new.ptx = pm.ptx /\ new.tx_enabled[h] = e
            /\ \A j \in Pairs \ {h} : new.tx_enabled[j] = pm.tx_enabled[j]
        BY <2>0, <3>4 DEF PortRecords
      <4> HIDE DEF new
      <4>3. ASSUME NEW j \in 0..(n - 1)
            PROVE  /\ new.rx_enabled[j] = (2 * j \in asked'[p])
                   /\ new.tx_enabled[j] = (2 * j + 1 \in asked'[p])
                   /\ new.prx[j] = given'[p][j] /\ new.ptx[j] = given'[p][j]
        <5>0. j \in Pairs /\ 2 * j \in Int /\ 2 * j + 1 \in Int
          BY <2>0, ConfigConstants DEF Pairs
        <5>1. /\ pm.tx_enabled[j] = (2 * j + 1 \in asked[p]) /\ pm.rx_enabled[j] = (2 * j \in asked[p])
              /\ pm.prx[j] = given[p][j] /\ pm.ptx[j] = given[p][j]
          BY <3>6
        <5>2. 2 * j # v BY <3>4, <3>8, <5>0
        <5>3. (2 * j \in asked'[p]) = (2 * j \in asked[p]) BY <1>3, <5>0, <5>2
        <5>4. new.rx_enabled[j] = (2 * j \in asked'[p]) BY ONLY <4>2, <5>1, <5>3
        <5>5. new.tx_enabled[j] = (2 * j + 1 \in asked'[p])
          <6>1. CASE j = h
            <7>1. (2 * j + 1 \in asked'[p]) <=> (e = TRUE) BY <1>3, <3>8, <6>1
            <7>2. CASE e = TRUE BY ONLY <4>2, <6>1, <7>1, <7>2
            <7>3. CASE e = FALSE BY ONLY <4>2, <6>1, <7>1, <7>3
            <7> QED BY <7>2, <7>3
          <6>2. CASE j # h
            <7>1. 2 * j + 1 # v BY <3>4, <3>8, <5>0, <6>2
            <7>2. (2 * j + 1 \in asked'[p]) = (2 * j + 1 \in asked[p]) BY <1>3, <5>0, <7>1
            <7> QED BY ONLY <4>2, <5>0, <5>1, <6>2, <7>2
          <6> QED BY <6>1, <6>2
        <5>6. new.prx[j] = given'[p][j] /\ new.ptx[j] = given'[p][j] BY ONLY <1>1, <4>2, <5>1
        <5> QED BY <5>4, <5>5, <5>6
      <4> HIDE DEF n, pm
      <4>4. /\ new.nof_queue_pairs = pmap[p].nof_queue_pairs /\ new.vrx = pmap[p].vrx
            /\ new.vtx = pmap[p].vtx
        BY <4>2 DEF n, pm
      <4>5. given' = [q \in Ports |-> given'[q]] /\ given'[p] \in [Pairs -> Int]
            /\ \A q \in Ports \ {p} : given'[q] = given[q]
        BY <1>0, <1>1, <1>5
      <4> QED BY <1>2, <1>5, <4>1, <4>2, <4>3, <4>4, <4>5, PortChanged
    <3> QED BY <3>4, <3>7, <3>8
  <2> QED BY <2>3, <2>4
<1> QED BY <1>4, <1>5

LEMMA PortSocket ==
  ASSUME PortInv, NEW p \in Ports, NEW k \in -1..MAX_QUEUE_PAIRS, NEW fd \in Fds,
         AssignPortSocket(p, k, fd)
  PROVE  PortInv'
<1>0. /\ pmap \in [DOMAIN pmap -> PortRecords] /\ asked \in [Ports -> SUBSET Int]
      /\ given = [q \in Ports |-> given[q]] /\ fd \in Int
      /\ p \in DOMAIN pmap => given[p] \in [Pairs -> Int]
  BY ConfigConstants DEF PortInv, PortTypes
<1>1. CASE p \in DOMAIN pmap /\ k < MAX_QUEUE_PAIRS
  <2> DEFINE pm == pmap[p]
             new == [pm EXCEPT !.prx = [pm.prx EXCEPT ![k] = fd],
                               !.ptx = [pm.ptx EXCEPT ![k] = fd],
                               !.ready = (pm.ready \/ k = 0)]
  <2>0. pm \in PortRecords /\ k \in Pairs
    BY <1>0, <1>1, ConfigConstants DEF Pairs, AssignPortSocket
  <2>1. /\ pmap' = [pmap EXCEPT ![p].prx[k] = fd, ![p].ptx[k] = fd, ![p].ready = (@ \/ k = 0)]
        /\ given' = [given EXCEPT ![p] = [given[p] EXCEPT ![k] = fd]] /\ asked' = asked
    BY <1>1 DEF AssignPortSocket
  <2>2. pmap' = [pmap EXCEPT ![p] = new]
    BY <1>0, <1>1, <2>0, <2>1 DEF PortRecords
  <2>3. /\ new \in PortRecords /\ new.nof_queue_pairs = pm.nof_queue_pairs
        /\ new.vrx = pm.vrx /\ new.vtx = pm.vtx
        /\ new.rx_enabled = pm.rx_enabled /\ new.tx_enabled = pm.tx_enabled
        /\ new.prx = [pm.prx EXCEPT ![k] = fd] /\ new.ptx = [pm.ptx EXCEPT ![k] = fd]
    BY <1>0, <2>0 DEF PortRecords
  <2> HIDE DEF new
  <2>4. /\ given' = [q \in Ports |-> given'[q]] /\ given'[p] = [given[p] EXCEPT ![k] = fd]
        /\ given'[p] \in [Pairs -> Int] /\ \A q \in Ports \ {p} : given'[q] = given[q]
    BY <1>0, <1>1, <2>0, <2>1
  <2>5. ASSUME NEW j \in 0..(new.nof_queue_pairs - 1)
        PROVE  /\ new.rx_enabled[j] = (2 * j \in asked'[p])
               /\ new.tx_enabled[j] = (2 * j + 1 \in asked'[p])
               /\ new.prx[j] = given'[p][j] /\ new.ptx[j] = given'[p][j]
    <3>0. pm.nof_queue_pairs \in 0..MAX_QUEUE_PAIRS BY <2>0 DEF PortRecords
    <3>1. j \in Pairs BY <2>3, <3>0, ConfigConstants DEF Pairs
    <3>2. /\ pm.rx_enabled[j] = (2 * j \in asked[p]) /\ pm.tx_enabled[j] = (2 * j + 1 \in asked[p])
          /\ pm.prx[j] = given[p][j] /\ pm.ptx[j] = given[p][j]
      BY <1>1, <2>3 DEF PortInv, QueuesFollow
    <3>3. pm.prx \in [Pairs -> Int] /\ pm.ptx \in [Pairs -> Int] BY <2>0 DEF PortRecords
    <3>4. new.prx[j] = given'[p][j] /\ new.ptx[j] = given'[p][j]
      BY <1>0, <1>1, <2>3, <2>4, <3>1, <3>2, <3>3
    <3>5. new.rx_enabled[j] = (2 * j \in asked'[p]) /\ new.tx_enabled[j] = (2 * j + 1 \in asked'[p])
      BY ONLY <2>1, <2>3, <3>2
    <3> QED BY <3>4, <3>5
  <2> QED BY <1>0, <1>1, <2>1, <2>2, <2>3, <2>4, <2>5, PortChanged
<1>2. CASE ~ (p \in DOMAIN pmap /\ k < MAX_QUEUE_PAIRS)
  BY <1>2, PortStutter DEF AssignPortSocket, portVars
<1> QED BY <1>1, <1>2

LEMMA PortControl ==
  ASSUME PortInv, NEW p \in Ports, NEW fd \in Fds, AssignControlPath(p, fd)
  PROVE  PortInv'
<1>0. /\ pmap \in [DOMAIN pmap -> PortRecords] /\ asked \in [Ports -> SUBSET Int]
      /\ given = [q \in Ports |-> given[q]] /\ fd \in Int /\ fd % CtlMod \in Int
      /\ p \in DOMAIN pmap => given[p] \in [Pairs -> Int]
  BY ConfigConstants DEF PortInv, PortTypes
<1>1. CASE p \in DOMAIN pmap
  <2> DEFINE pm == pmap[p]
             new == [pm EXCEPT !.vctl = fd % CtlMod, !.pctl = fd]
  <2>0. pm \in PortRecords BY <1>0, <1>1
  <2>1. /\ pmap' = [pmap EXCEPT ![p].vctl = fd % CtlMod, ![p].pctl = fd]
        /\ given' = given /\ asked' = asked
    BY <1>1 DEF AssignControlPath
  <2>2. pmap' = [pmap EXCEPT ![p] = new]
    BY <1>0, <1>1, <2>0, <2>1 DEF PortRecords
  <2>3. /\ new \in PortRecords /\ new.nof_queue_pairs = pm.nof_queue_pairs
        /\ new.vrx = pm.vrx /\ new.vtx = pm.vtx
        /\ new.rx_enabled = pm.rx_enabled /\ new.tx_enabled = pm.tx_enabled
        /\ new.prx = pm.prx /\ new.ptx = pm.ptx
    BY <1>0, <2>0 DEF PortRecords
  <2> HIDE DEF new
  <2>4. ASSUME NEW j \in 0..(new.nof_queue_pairs - 1)
        PROVE  /\ new.rx_enabled[j] = (2 * j \in asked'[p])
               /\ new.tx_enabled[j] = (2 * j + 1 \in asked'[p])
               /\ new.prx[j] = given'[p][j] /\ new.ptx[j] = given'[p][j]
    <3>1. /\ pm.rx_enabled[j] = (2 * j \in asked[p]) /\ pm.tx_enabled[j] = (2 * j + 1 \in asked[p])
          /\ pm.prx[j] = given[p][j] /\ pm.ptx[j] = given[p][j]
      BY <1>1, <2>3 DEF PortInv, QueuesFollow
    <3> QED BY ONLY <2>1, <2>3, <3>1
  <2>5. /\ asked' \in [Ports -> SUBSET Int] /\ given' = [q \in Ports |-> given'[q]]
        /\ given'[p] \in [Pairs -> Int]
        /\ \A q \in Ports \ {p} : asked'[q] = asked[q] /\ given'[q] = given[q]
    BY <1>0, <1>1, <2>1
  <2> QED BY <1>1, <2>2, <2>3, <2>4, <2>5, PortChanged
<1>2. CASE p \notin DOMAIN pmap
  BY <1>2, PortStutter DEF AssignControlPath, portVars
<1> QED BY <1>1, <1>2

LEMMA PortStep == PortInv /\ [CfgNext]_cfgVars => PortInv'
<1> SUFFICES ASSUME PortInv, [CfgNext]_cfgVars PROVE PortInv'
  OBVIOUS
<1>1. CASE InitConfig \/ Return \/ Ended \/ UNCHANGED cfgVars
  BY <1>1, PortStutter DEF InitConfig, Return, Ended, cfgVars
<1>2. ASSUME NEW k \in Keys, NEW t \in Types, SetValue(k, t) PROVE PortInv'
  BY <1>2, PortStutter DEF SetValue
<1>3. ASSUME NEW p \in Ports, NEW n \in 0..(MAX_QUEUE_PAIRS + 1), InitVhostDevice(p, p, n)
      PROVE  PortInv'
  BY <1>3, PortSetUp
<1>4. ASSUME NEW p \in Ports, NEW q \in 0..(2 * MAX_QUEUE_PAIRS - 1), NEW e \in BOOLEAN,
             SetQueueState(p, q, e)
      PROVE  PortInv'
  BY <1>4, PortQueueState
<1>5. ASSUME NEW p \in Ports, NEW i \in -1..MAX_QUEUE_PAIRS, NEW fd \in Fds,
             AssignPortSocket(p, i, fd)
      PROVE  PortInv'
  BY <1>5, PortSocket
<1>6. ASSUME NEW p \in Ports, NEW fd \in Fds, AssignControlPath(p, fd) PROVE PortInv'
  BY <1>6, PortControl
<1>7. CASE Overrun BY <1>7, PortStutter DEF Overrun
<1> QED BY <1>1, <1>2, <1>3, <1>4, <1>5, <1>6, <1>7
        DEF CfgNext, InitVhostDeviceOverruns, AssignPortSocketUnderruns

\* The control path, also of the ports that have no entry yet.
ControlAt(p) == At(p).pctl = control[p] /\ At(p).vctl = control[p] % CtlMod

ControlInv ==
    /\ PortInv /\ control \in [Ports -> Int]
    /\ \A p \in Ports : ControlAt(p)

LEMMA ControlInit == CfgInit => ControlInv
<1> SUFFICES ASSUME CfgInit PROVE ControlInv
  OBVIOUS
<1>1. control = [p \in Ports |-> 0] /\ pmap = [p \in {} |-> {}] BY DEF CfgInit
<1>2. control \in [Ports -> Int] /\ DOMAIN pmap = {} BY <1>1
<1>3. NewPort.pctl = 0 /\ NewPort.vctl = 0 BY DEF NewPort
<1>4. 0 % CtlMod = 0 BY ConfigConstants
<1>5. ASSUME NEW p \in Ports PROVE ControlAt(p)
  BY <1>1, <1>2, <1>3, <1>4 DEF ControlAt, At
<1> QED BY <1>2, <1>5, PortInit DEF ControlInv

LEMMA ControlStep == ControlInv /\ [CfgNext]_cfgVars => ControlInv'
<1> SUFFICES ASSUME ControlInv, [CfgNext]_cfgVars
             PROVE  control' \in [Ports -> Int] /\ \A q \in Ports : ControlAt(q)'
  BY PortStep DEF ControlInv
<1>0. /\ DOMAIN pmap \subseteq Ports /\ pmap \in [DOMAIN pmap -> PortRecords]
      /\ control \in [Ports -> Int] /\ \A p \in Ports : ControlAt(p)
  BY DEF ControlInv, PortInv, PortTypes
<1>1. CASE UNCHANGED <<pmap, control>> BY <1>0, <1>1 DEF ControlAt, At
<1>2. ASSUME NEW p \in Ports, NEW n, InitVhostDevice(p, p, n)
      PROVE  control' \in [Ports -> Int] /\ \A q \in Ports : ControlAt(q)'
  <2> DEFINE set(f, g(_)) == [i \in Pairs |-> IF i < n THEN g(i) ELSE f[i]]
             new == [vid |-> p, nof_queue_pairs |-> n, ready |-> TRUE,
                     vctl |-> At(p).vctl, pctl |-> At(p).pctl,
                     vrx |-> set(At(p).vrx, LAMBDA i : 2 * i),
                     vtx |-> set(At(p).vtx, LAMBDA i : 2 * i + 1),
                     rx_enabled |-> set(At(p).rx_enabled, LAMBDA i : FALSE),
                     tx_enabled |-> set(At(p).tx_enabled, LAMBDA i : FALSE),
                     prx |-> set(At(p).prx, LAMBDA i : -1), ptx |-> set(At(p).ptx, LAMBDA i : -1)]
  <2>1. pmap' = Store(p, new) /\ new.pctl = At(p).pctl /\ new.vctl = At(p).vctl
    BY <1>2 DEF InitVhostDevice
  <2> HIDE DEF new
  <2>2. control' = control BY <1>2 DEF InitVhostDevice
  <2>3. /\ DOMAIN pmap' = DOMAIN pmap \cup {p} /\ pmap'[p] = new
        /\ \A q \in DOMAIN pmap \ {p} : pmap'[q] = pmap[q]
    BY <2>1 DEF Store
  <2> QED BY <1>0, <2>1, <2>2, <2>3 DEF ControlAt, At
<1>3. ASSUME NEW p \in Ports, NEW q, NEW e, SetQueueState(p, q, e)
      PROVE  control' \in [Ports -> Int] /\ \A r \in Ports : ControlAt(r)'
  <2>1. control' = control /\ DOMAIN pmap' = DOMAIN pmap
    BY <1>3 DEF SetQueueState
  <2>2. ASSUME NEW r \in DOMAIN pmap PROVE pmap'[r].pctl = pmap[r].pctl /\ pmap'[r].vctl = pmap[r].vctl
    BY <1>0, <1>3, SMTT(30) DEF SetQueueState, PortRecords
  <2> QED BY <1>0, <2>1, <2>2 DEF ControlAt, At
<1>4. ASSUME NEW p \in Ports, NEW i, NEW fd, AssignPortSocket(p, i, fd)
      PROVE  control' \in [Ports -> Int] /\ \A r \in Ports : ControlAt(r)'
  <2>1. control' = control /\ DOMAIN pmap' = DOMAIN pmap
    BY <1>4 DEF AssignPortSocket
  <2>2. ASSUME NEW r \in DOMAIN pmap PROVE pmap'[r].pctl = pmap[r].pctl /\ pmap'[r].vctl = pmap[r].vctl
    <3>1. CASE p \in DOMAIN pmap /\ i < MAX_QUEUE_PAIRS
      <4>1. pmap' = [pmap EXCEPT ![p].prx[i] = fd, ![p].ptx[i] = fd,
                                 ![p].ready = (@ \/ i = 0)]
        BY <1>4, <3>1 DEF AssignPortSocket
      <4> QED BY <1>0, <4>1 DEF PortRecords
    <3>2. CASE ~ (p \in DOMAIN pmap /\ i < MAX_QUEUE_PAIRS)
      BY <1>4, <3>2 DEF AssignPortSocket
    <3> QED BY <3>1, <3>2
  <2> QED BY <1>0, <2>1, <2>2 DEF ControlAt, At
<1>5. ASSUME NEW p \in Ports, NEW fd \in Fds, AssignControlPath(p, fd)
      PROVE  control' \in [Ports -> Int] /\ \A r \in Ports : ControlAt(r)'
  <2>1. CASE p \notin DOMAIN pmap BY <1>1, <1>5, <2>1 DEF AssignControlPath
  <2>2. CASE p \in DOMAIN pmap
    <3>1. /\ pmap' = [pmap EXCEPT ![p].vctl = fd % CtlMod, ![p].pctl = fd]
          /\ control' = [control EXCEPT ![p] = fd]
      BY <1>5, <2>2 DEF AssignControlPath
    <3>2. /\ DOMAIN pmap' = DOMAIN pmap /\ pmap'[p].pctl = fd /\ pmap'[p].vctl = fd % CtlMod
          /\ \A r \in DOMAIN pmap \ {p} : pmap'[r] = pmap[r]
      BY <1>0, <2>2, <3>1 DEF PortRecords
    <3>3. control' \in [Ports -> Int] /\ control'[p] = fd
          /\ \A r \in Ports \ {p} : control'[r] = control[r]
      BY <1>0, <3>1, ConfigConstants
    <3> QED BY <1>0, <2>2, <3>2, <3>3 DEF ControlAt, At
  <2> QED BY <2>1, <2>2
<1>6. CASE InitConfig \/ Return \/ Ended \/ UNCHANGED cfgVars \/ Overrun
  BY <1>1, <1>6 DEF InitConfig, Return, Ended, cfgVars, Overrun, portVars
<1>7. ASSUME NEW k, NEW t, SetValue(k, t)
      PROVE  control' \in [Ports -> Int] /\ \A r \in Ports : ControlAt(r)'
  BY <1>1, <1>7 DEF SetValue, portVars
<1> QED BY <1>2, <1>3, <1>4, <1>5, <1>6, <1>7
        DEF CfgNext, InitVhostDeviceOverruns, AssignPortSocketUnderruns

\* For any ports, any number of queue pairs and any sequence of calls, until an
\* index leaves the arrays of a portmap: each queue of the present device is in
\* the state last asked of set_queue_state, each pair has the socket last given
\* to assign_port_socket since init_vhost_device, and the control path is the
\* one last given to the port, also by an earlier device.
THEOREM PortmapAlwaysFollows == CfgSpec => []PortmapFollowsCalls
<1>1. ControlInv => PortmapFollowsCalls
  <2> SUFFICES ASSUME ControlInv PROVE ControlFollows
    BY DEF ControlInv, PortInv, PortmapFollowsCalls
  <2> QED BY DEF ControlInv, PortInv, PortTypes, ControlFollows, ControlAt, At
<1> QED BY <1>1, ControlInit, ControlStep, PTL DEF CfgSpec

-----------------------------------------------------------------------------
(***************************************************************************)
(* Induction over the natural numbers, for sets: the library's theorem is  *)
(* about operators, so it is derived here from the fact that < is          *)
(* well-founded.                                                           *)
(***************************************************************************)
Before == {ss \in Nat \X Nat : ss[1] < ss[2]}

LEMMA BeforeWellFounded == IsWellFoundedOn(Before, Nat)
BY NatLessThanWellFounded, Zenon DEF OpToRel, Before

LEMMA CountingUp ==
  ASSUME NEW S, 0 \in S, \A n \in Nat : n \in S => n + 1 \in S
  PROVE  \A n \in Nat : n \in S
<1> DEFINE T == Nat \ S
<1> SUFFICES ASSUME T # {} PROVE FALSE OBVIOUS
<1>1. PICK x \in T : \A y \in T : ~ (<<y, x>> \in Before)
  <2>1. T \subseteq Nat OBVIOUS
  <2> HIDE DEF T
  <2> QED BY <2>1, BeforeWellFounded, WFMin, Zenon
<1>2. x \in Nat /\ x # 0 OBVIOUS
<1>3. x - 1 \in T BY <1>2
<1>4. <<x - 1, x>> \in Before BY <1>2 DEF Before
<1> QED BY <1>1, <1>3, <1>4

-----------------------------------------------------------------------------
(***************************************************************************)
(* The parser.  A turn of the loop keeps what it has read in agreement     *)
(* with the options before the token it looks at.                          *)
(***************************************************************************)
Tokens == Flags \cup Words
Values == Tokens \cup {Arguments[a].default : a \in Args}
LoopStates == [i : Nat, args : [Args -> [found : BOOLEAN, value : Values]], threw : BOOLEAN]

RequiredArgs == {a \in Args : Arguments[a].required}

\* Place k alone gives the parser no reason to throw.
Fine(os, k) ==
  IF os[k] \in Flags THEN Named(os[k]) # {} ELSE k # 1 /\ os[k - 1] \notin Words

\* A word that comes next was not left over by the flag before it.
NotLeftOver(os, p) == p < Len(os) /\ os[p + 1] \in Words => p = 0 \/ os[p] \in Words

\* The flag at p + 1 has a value behind it.
HasValue(os, p) == p + 2 <= Len(os) /\ os[p + 2] \notin Flags

IsEmpty(value) == value = ""

\* What the loop knows when it has read the first p options without throwing.
Read(args, os, p) ==
  /\ \A k \in 1..p : Fine(os, k)
  /\ NotLeftOver(os, p)
  /\ \A a \in Args : args[a].found <=> \E k \in Uses(a, os) : k <= p
  /\ \A a \in Args : args[a].value = ValueBefore(a, os, p + 1)
  /\ \A a \in RequiredArgs :
       \A k \in Uses(a, os) \ Valued(a, os) : k <= p => ~ IsEmpty(ValueBefore(a, os, k))

LoopInv(s, av) ==
  /\ s \in LoopStates
  /\ s.i - StartIndex(av) \in 0..Len(Options(av))
  /\ s.threw => BadOptions(Options(av))
  /\ ~ s.threw => Read(s.args, Options(av), s.i - StartIndex(av))

\* No two arguments have a name in common.
LEMMA OneName ==
  /\ \A t : \A a, b \in Args : a \in Named(t) /\ b \in Named(t) => a = b
  /\ \A t : Named(t) \subseteq Args
  /\ \A a \in Args : Arguments[a].required \in BOOLEAN
  /\ Default \in [Args -> [found : BOOLEAN, value : Values]]
<1>1. Args = {1, 2, 3, 4} BY DEF Args, Arguments
<1>2. /\ Arguments[1].long = "--help" /\ Arguments[1].short = "-h"
      /\ Arguments[2].long = "--portmask" /\ Arguments[2].short = "-p"
      /\ Arguments[3].long = "--mode" /\ Arguments[3].short = "-m"
      /\ Arguments[4].long = "--burst" /\ Arguments[4].short = "-b"
  BY DEF Arguments
<1>3. \A t : \A a, b \in Args : a \in Named(t) /\ b \in Named(t) => a = b
  BY <1>1, <1>2 DEF Named
<1>4. \A a \in Args : Arguments[a].required \in BOOLEAN
  <2>1. /\ Arguments[1].required = FALSE /\ Arguments[2].required = TRUE
        /\ Arguments[3].required = FALSE /\ Arguments[4].required = FALSE
    BY DEF Arguments
  <2>2. \A a \in Args : a = 1 \/ a = 2 \/ a = 3 \/ a = 4 BY <1>1
  <2> QED BY <2>1, <2>2, Zenon
<1>5. \A a \in Args : [found |-> FALSE, value |-> Arguments[a].default]
                        \in [found : BOOLEAN, value : Values]
  BY DEF Values
<1>6. Default \in [Args -> [found : BOOLEAN, value : Values]] BY <1>5 DEF Default
<1> QED BY <1>3, <1>4, <1>6 DEF Named

LEMMA StartIndexProp ==
  ASSUME NEW av \in Seq(Tokens)
  PROVE  StartIndex(av) \in 1..(Len(av) + 1)
<1> DEFINE ends == {i \in 1..Len(av) : av[i] = "--"}
           first == CHOOSE i \in ends : \A j \in ends : i <= j
<1>1. CASE ends = {} BY <1>1 DEF StartIndex
<1>2. CASE ends # {}
  <2>1. ends \subseteq Nat OBVIOUS
  <2>2. PICK x \in ends : \A y \in ends : ~ (<<y, x>> \in Before)
    <3> HIDE DEF ends
    <3> QED BY <1>2, <2>1, BeforeWellFounded, WFMin, Zenon
  <2>3. \A j \in ends : x <= j
    <3> TAKE j \in ends
    <3>1. j \in Nat /\ x \in Nat /\ <<j, x>> \notin Before BY <2>1, <2>2
    <3>2. ~ (j < x)
      <4> HIDE DEF ends
      <4> QED BY <3>1 DEF Before
    <3> QED BY <3>1, <3>2
  <2>4. first \in ends
    <3> HIDE DEF ends
    <3> QED BY <2>3
  <2>5. StartIndex(av) = first + 1 BY <1>2 DEF StartIndex
  <2>6. first \in 1..Len(av) BY <2>4
  <2> HIDE DEF first
  <2> QED BY <2>5, <2>6
<1> QED BY <1>1, <1>2

LEMMA OptionsProp ==
  ASSUME NEW av \in Seq(Tokens)
  PROVE  /\ Options(av) \in Seq(Tokens)
         /\ Len(Options(av)) = Len(av) + 1 - StartIndex(av)
         /\ \A k \in 1..Len(Options(av)) : Options(av)[k] = av[StartIndex(av) + k - 1]
<1>1. StartIndex(av) \in 1..(Len(av) + 1) BY StartIndexProp
<1> DEFINE st == StartIndex(av)
<1> HIDE DEF st
<1>2. st \in 1..(Len(av) + 1) BY <1>1 DEF st
<1>3. /\ SubSeq(av, st, Len(av)) \in Seq(Tokens)
      /\ Len(SubSeq(av, st, Len(av))) = Len(av) + 1 - st
      /\ \A k \in 1..(Len(av) + 1 - st) : SubSeq(av, st, Len(av))[k] = av[st + k - 1]
  BY <1>2
<1> QED BY <1>3 DEF Options, st

LEMMA PlacesAreNumbers ==
  ASSUME NEW a, NEW os \in Seq(Tokens)
  PROVE  /\ Valued(a, os) \subseteq Uses(a, os)
         /\ Uses(a, os) \subseteq 1..Len(os)
BY DEF Uses, Valued

\* The value depends on the places with a value only.
LEMMA SameValueBefore ==
  ASSUME NEW a, NEW os, NEW k, NEW m,
         \A j \in Valued(a, os) : j < k <=> j < m
  PROVE  ValueBefore(a, os, k) = ValueBefore(a, os, m)
<1>1. {j \in Valued(a, os) : j < k} = {j \in Valued(a, os) : j < m} OBVIOUS
<1> DEFINE F(S) == IF S = {} THEN Arguments[a].default
                   ELSE os[(CHOOSE j \in S : \A i \in S : i <= j) + 1]
<1>2. /\ ValueBefore(a, os, k) = F({j \in Valued(a, os) : j < k})
      /\ ValueBefore(a, os, m) = F({j \in Valued(a, os) : j < m})
  BY Zenon DEF ValueBefore
<1> HIDE DEF F
<1> QED BY <1>1, <1>2

LEMMA LastValueBefore ==
  ASSUME NEW a, NEW os \in Seq(Tokens), NEW k \in Int, NEW last \in Valued(a, os), last < k,
         \A j \in Valued(a, os) : j < k => j <= last
  PROVE  ValueBefore(a, os, k) = os[last + 1]
<1> DEFINE set == {j \in Valued(a, os) : j < k}
           chosen == CHOOSE j \in set : \A i \in set : i <= j
<1>1. last \in set /\ \A i \in set : i <= last OBVIOUS
<1>2. chosen \in set /\ \A i \in set : i <= chosen
  <2> HIDE DEF set
  <2> QED BY <1>1
<1>3. chosen = last
  <2>1. set \subseteq Int BY PlacesAreNumbers
  <2> HIDE DEF set, chosen
  <2>2. chosen <= last /\ last <= chosen /\ chosen \in Int /\ last \in Int BY <1>1, <1>2, <2>1
  <2> QED BY <2>2
<1>4. set # {} BY <1>1
<1>5. ValueBefore(a, os, k) = os[chosen + 1] BY <1>4 DEF ValueBefore
<1> QED BY <1>3, <1>5

LEMMA ReadStart ==
  ASSUME NEW os \in Seq(Tokens)
  PROVE  Read(Default, os, 0)
<1>1. \A a \in Args : ValueBefore(a, os, 0 + 1) = Arguments[a].default
  <2> TAKE a \in Args
  <2>1. {j \in Valued(a, os) : j < 0 + 1} = {} BY PlacesAreNumbers
  <2> QED BY <2>1 DEF ValueBefore
<1>2. \A a \in Args : Default[a].found = FALSE /\ Default[a].value = Arguments[a].default
  BY DEF Default
<1>3. \A a \in Args : \A k \in Uses(a, os) : ~ (k <= 0) BY PlacesAreNumbers
<1>4. \A k \in 1..0 : Fine(os, k) OBVIOUS
<1>5. \A a \in Args : Default[a].found <=> \E k \in Uses(a, os) : k <= 0
  BY <1>2, <1>3
<1>6. \A a \in RequiredArgs :
        \A k \in Uses(a, os) \ Valued(a, os) : k <= 0 => ~ IsEmpty(ValueBefore(a, os, k))
  BY <1>3 DEF RequiredArgs
<1>7. NotLeftOver(os, 0) BY DEF NotLeftOver
<1> QED BY <1>1, <1>2, <1>4, <1>5, <1>6, <1>7 DEF Read

\* A token that names nothing makes the options bad.
LEMMA UnknownIsBad ==
  ASSUME NEW os \in Seq(Tokens), NEW args, NEW p \in Nat, p < Len(os),
         Read(args, os, p), Named(os[p + 1]) = {}
  PROVE  BadOptions(os)
<1>1. p + 1 \in 1..Len(os) /\ (p + 1) - 1 = p OBVIOUS
<1>2. os[p + 1] \in Tokens BY <1>1
<1>3. CASE os[p + 1] \in Flags
  <2>1. \E k \in 1..Len(os) :
          IF os[k] \in Flags THEN Named(os[k]) = {} ELSE k = 1 \/ os[k - 1] \in Words
    BY <1>1, <1>3
  <2> QED BY <2>1 DEF BadOptions
<1>4. CASE os[p + 1] \notin Flags
  <2>1. os[p + 1] \in Words BY <1>2, <1>4 DEF Tokens
  <2>2. p = 0 \/ os[p] \in Words BY <2>1 DEF Read, NotLeftOver
  <2>3. p + 1 = 1 \/ os[(p + 1) - 1] \in Words BY <1>1, <2>2
  <2>4. \E k \in 1..Len(os) :
          IF os[k] \in Flags THEN Named(os[k]) = {} ELSE k = 1 \/ os[k - 1] \in Words
    <3>1. IF os[p + 1] \in Flags THEN Named(os[p + 1]) = {}
          ELSE p + 1 = 1 \/ os[(p + 1) - 1] \in Words
      BY <1>4, <2>3
    <3> QED BY ONLY <1>1, <3>1, Zenon
  <2> QED BY <2>4 DEF BadOptions
<1> QED BY <1>3, <1>4

\* What the token at p + 1 means when it names argument a.
LEMMA NamesOnly ==
  ASSUME NEW os \in Seq(Tokens), NEW p \in Nat, p < Len(os), NEW a \in Named(os[p + 1])
  PROVE  /\ a \in Args /\ os[p + 1] \in Flags /\ os[p + 1] \notin Words
         /\ Fine(os, p + 1)
         /\ p + 1 \in Uses(a, os)
         /\ \A b \in Args : p + 1 \in Uses(b, os) => b = a
<1>1. p + 1 \in 1..Len(os) OBVIOUS
<1>2. os[p + 1] \in Tokens BY <1>1
<1>3. os[p + 1] \notin Words BY NamesAssumption
<1>4. os[p + 1] \in Flags BY <1>2, <1>3 DEF Tokens
<1>5. a \in Args BY OneName
<1>6. Fine(os, p + 1) BY <1>4 DEF Fine
<1>7. p + 1 \in Uses(a, os) BY <1>1 DEF Uses
<1>8. \A b \in Args : p + 1 \in Uses(b, os) => b = a
  <2> TAKE b \in Args
  <2> HAVE p + 1 \in Uses(b, os)
  <2>1. b \in Named(os[p + 1]) BY DEF Uses
  <2> QED BY <1>5, <2>1, OneName
<1> QED BY <1>3, <1>4, <1>5, <1>6, <1>7, <1>8

LEMMA NoValue ==
  ASSUME NEW os \in Seq(Tokens), NEW p \in Nat, p < Len(os), ~ HasValue(os, p)
  PROVE  ~ (p + 1 < Len(os) /\ os[(p + 1) + 1] \in Words)
<1> SUFFICES ASSUME p + 1 < Len(os), os[(p + 1) + 1] \in Words PROVE HasValue(os, p)
  OBVIOUS
<1>1. (p + 1) + 1 = p + 2 /\ p + 2 <= Len(os) OBVIOUS
<1>2. os[p + 2] \notin Flags BY <1>1, ConfigAssumption
<1> QED BY <1>1, <1>2 DEF HasValue

\* A flag with a word behind it: both are read.
LEMMA ReadValue ==
  ASSUME NEW os \in Seq(Tokens), NEW args \in [Args -> [found : BOOLEAN, value : Values]],
         NEW p \in Nat, p + 2 <= Len(os), os[p + 2] \notin Flags,
         Read(args, os, p), NEW a \in Named(os[p + 1])
  PROVE  Read([args EXCEPT ![a] = [found |-> TRUE, value |-> os[p + 2]]], os, p + 2)
<1>1. /\ p + 1 \in 1..Len(os) /\ p + 2 \in 1..Len(os) /\ p < Len(os) /\ p + 1 < Len(os)
      /\ (p + 1) + 1 = p + 2 /\ (p + 2) - 1 = p + 1 /\ Len(os) \in Nat
  OBVIOUS
<1>2. /\ a \in Args /\ os[p + 1] \in Flags /\ os[p + 1] \notin Words
      /\ Fine(os, p + 1) /\ p + 1 \in Uses(a, os)
      /\ \A b \in Args : p + 1 \in Uses(b, os) => b = a
  BY <1>1, NamesOnly
<1>3. os[p + 2] \in Words
  <2>1. os[p + 2] \in Tokens BY <1>1
  <2> QED BY <2>1 DEF Tokens
<1>4. \A b \in Args : p + 2 \notin Uses(b, os)
  BY <1>3, NamesAssumption DEF Uses
<1>5. p + 1 \in Valued(a, os) BY <1>1, <1>2, <1>3 DEF Valued
<1> DEFINE new == [args EXCEPT ![a] = [found |-> TRUE, value |-> os[p + 2]]]
<1>6. /\ new[a].found = TRUE /\ new[a].value = os[p + 2]
      /\ \A b \in Args : b # a => new[b] = args[b]
  BY <1>2
<1>7. \A b \in Args : Uses(b, os) \subseteq 1..Len(os) /\ Valued(b, os) \subseteq Uses(b, os)
  BY PlacesAreNumbers
<1> HIDE DEF new
<1>8. \A k \in 1..(p + 2) : Fine(os, k)
  <2> TAKE k \in 1..(p + 2)
  <2>1. CASE k <= p BY <2>1 DEF Read
  <2>2. CASE k = p + 1 BY <1>2, <2>2
  <2>3. CASE k = p + 2
    <3>1. p + 2 # 1 /\ os[(p + 2) - 1] \notin Words BY <1>1, <1>2
    <3> QED BY <2>3, <3>1 DEF Fine
  <2> QED BY <2>1, <2>2, <2>3
<1>9. \A b \in Args : new[b].found <=> \E k \in Uses(b, os) : k <= p + 2
  <2> TAKE b \in Args
  <2>1. CASE b = a
    <3>1. \E k \in Uses(a, os) : k <= p + 2
      <4>1. p + 1 <= p + 2 OBVIOUS
      <4> QED BY <4>1, <1>2
    <3> QED BY <1>6, <2>1, <3>1
  <2>2. CASE b # a
    <3>1. \A k \in Uses(b, os) : k <= p + 2 <=> k <= p
      <4> TAKE k \in Uses(b, os)
      <4>1. k \in Int /\ k # p + 1 /\ k # p + 2 BY <1>2, <1>4, <1>7, <2>2
      <4> QED BY <4>1
    <3>2. args[b].found <=> \E k \in Uses(b, os) : k <= p BY DEF Read
    <3>3. new[b].found = args[b].found BY <1>6, <2>2
    <3> QED BY <3>1, <3>2, <3>3
  <2> QED BY <2>1, <2>2
<1>10. \A b \in Args : new[b].value = ValueBefore(b, os, (p + 2) + 1)
  <2> TAKE b \in Args
  <2>1. CASE b = a
    <3>1. \A j \in Valued(a, os) : j < (p + 2) + 1 => j <= p + 1
      <4> TAKE j \in Valued(a, os)
      <4>1. j \in Int /\ j # p + 2 BY <1>2, <1>4, <1>7
      <4> QED BY <4>1
    <3>2. p + 1 < (p + 2) + 1 /\ (p + 2) + 1 \in Int OBVIOUS
    <3>3. ValueBefore(a, os, (p + 2) + 1) = os[(p + 1) + 1]
      BY <1>5, <3>1, <3>2, LastValueBefore
    <3> QED BY <1>1, <1>6, <2>1, <3>3
  <2>2. CASE b # a
    <3>1. \A j \in Valued(b, os) : j < p + 1 <=> j < (p + 2) + 1
      <4> TAKE j \in Valued(b, os)
      <4>1. j \in Int /\ j # p + 1 /\ j # p + 2 BY <1>2, <1>4, <1>7, <2>2
      <4> QED BY <4>1
    <3>2. ValueBefore(b, os, p + 1) = ValueBefore(b, os, (p + 2) + 1)
      BY <3>1, SameValueBefore
    <3>3. args[b].value = ValueBefore(b, os, p + 1) BY DEF Read
    <3> QED BY <1>6, <2>2, <3>2, <3>3
  <2> QED BY <2>1, <2>2
<1>11. \A b \in RequiredArgs :
         \A k \in Uses(b, os) \ Valued(b, os) : k <= p + 2 => ~ IsEmpty(ValueBefore(b, os, k))
  <2> TAKE b \in RequiredArgs
  <2> b \in Args BY DEF RequiredArgs
  <2> TAKE k \in Uses(b, os) \ Valued(b, os)
  <2>1. k \in Int /\ k # p + 2 BY <1>4, <1>7
  <2>2. k # p + 1 BY <1>2, <1>5
  <2>3. k <= p + 2 => k <= p BY <2>1, <2>2
  <2> QED BY <2>3 DEF Read
<1>12. NotLeftOver(os, p + 2) BY <1>3 DEF NotLeftOver
<1>13. Read(new, os, p + 2) BY <1>8, <1>9, <1>10, <1>11, <1>12 DEF Read
<1> QED BY <1>13 DEF new

\* A flag with no word behind it.
LEMMA ReadFlag ==
  ASSUME NEW os \in Seq(Tokens), NEW args \in [Args -> [found : BOOLEAN, value : Values]],
         NEW p \in Nat, p < Len(os), ~ HasValue(os, p),
         Read(args, os, p), NEW a \in Named(os[p + 1]),
         a \in RequiredArgs => ~ IsEmpty(args[a].value)
  PROVE  Read([args EXCEPT ![a].found = TRUE], os, p + 1)
<1>1. /\ p + 1 \in 1..Len(os) /\ (p + 1) + 1 = p + 2 /\ Len(os) \in Nat
  OBVIOUS
<1>2. /\ a \in Args /\ os[p + 1] \in Flags /\ os[p + 1] \notin Words
      /\ Fine(os, p + 1) /\ p + 1 \in Uses(a, os)
      /\ \A b \in Args : p + 1 \in Uses(b, os) => b = a
  BY NamesOnly
<1>3. \A b \in Args : p + 1 \notin Valued(b, os)
  <2> SUFFICES ASSUME NEW b \in Args, p + 1 \in Valued(b, os) PROVE FALSE
    OBVIOUS
  <2>1. p + 1 < Len(os) /\ os[(p + 1) + 1] \in Words BY DEF Valued
  <2> QED BY <2>1, NoValue
<1> DEFINE new == [args EXCEPT ![a].found = TRUE]
<1>6. /\ new[a].found = TRUE /\ new[a].value = args[a].value
      /\ \A b \in Args : b # a => new[b] = args[b]
  BY <1>2
<1>7. \A b \in Args : Uses(b, os) \subseteq 1..Len(os) /\ Valued(b, os) \subseteq Uses(b, os)
  BY PlacesAreNumbers
<1> HIDE DEF new
<1>8. \A k \in 1..(p + 1) : Fine(os, k)
  <2> TAKE k \in 1..(p + 1)
  <2>1. CASE k <= p BY <2>1 DEF Read
  <2>2. CASE k = p + 1 BY <1>2, <2>2
  <2> QED BY <2>1, <2>2
<1>9. \A b \in Args : new[b].found <=> \E k \in Uses(b, os) : k <= p + 1
  <2> TAKE b \in Args
  <2>1. CASE b = a
    <3>1. \E k \in Uses(a, os) : k <= p + 1
      <4>1. p + 1 <= p + 1 OBVIOUS
      <4> QED BY <4>1, <1>2
    <3> QED BY <1>6, <2>1, <3>1
  <2>2. CASE b # a
    <3>1. \A k \in Uses(b, os) : k <= p + 1 <=> k <= p
      <4> TAKE k \in Uses(b, os)
      <4>1. k \in Int /\ k # p + 1 BY <1>2, <1>7, <2>2
      <4> QED BY <4>1
    <3>2. args[b].found <=> \E k \in Uses(b, os) : k <= p BY DEF Read
    <3>3. new[b].found = args[b].found BY <1>6, <2>2
    <3> QED BY <3>1, <3>2, <3>3
  <2> QED BY <2>1, <2>2
<1>10. \A b \in Args : new[b].value = ValueBefore(b, os, (p + 1) + 1)
  <2> TAKE b \in Args
  <2>1. \A j \in Valued(b, os) : j < p + 1 <=> j < (p + 1) + 1
    <3> TAKE j \in Valued(b, os)
    <3>1. j \in Int /\ j # p + 1 BY <1>3, <1>7
    <3> QED BY <3>1
  <2>2. ValueBefore(b, os, p + 1) = ValueBefore(b, os, (p + 1) + 1)
    BY <2>1, SameValueBefore
  <2>3. args[b].value = ValueBefore(b, os, p + 1) BY DEF Read
  <2>4. new[b].value = args[b].value BY <1>6
  <2> QED BY <2>2, <2>3, <2>4
<1>11. \A b \in RequiredArgs :
         \A k \in Uses(b, os) \ Valued(b, os) : k <= p + 1 => ~ IsEmpty(ValueBefore(b, os, k))
  <2> TAKE b \in RequiredArgs
  <2> b \in Args BY DEF RequiredArgs
  <2> TAKE k \in Uses(b, os) \ Valued(b, os)
  <2>1. CASE k = p + 1
    <3>1. b = a BY <1>2, <2>1
    <3>2. args[a].value = ValueBefore(a, os, p + 1) BY <1>2 DEF Read
    <3> QED BY <2>1, <3>1, <3>2
  <2>2. CASE k # p + 1
    <3>1. k \in Int BY <1>7
    <3>2. k <= p + 1 => k <= p BY <2>2, <3>1
    <3> QED BY <3>2 DEF Read
  <2> QED BY <2>1, <2>2
<1>12. NotLeftOver(os, p + 1) BY NoValue DEF NotLeftOver
<1>13. Read(new, os, p + 1) BY <1>8, <1>9, <1>10, <1>11, <1>12 DEF Read
<1> QED BY <1>13 DEF new

\* A required argument named without a value while the one it has is empty.
LEMMA EmptyIsBad ==
  ASSUME NEW os \in Seq(Tokens), NEW args,
         NEW p \in Nat, p < Len(os), ~ HasValue(os, p),
         Read(args, os, p), NEW a \in Named(os[p + 1]),
         a \in RequiredArgs, IsEmpty(args[a].value)
  PROVE  BadOptions(os)
<1>1. a \in Args /\ p + 1 \in Uses(a, os) BY NamesOnly
<1>2. p + 1 \notin Valued(a, os)
  <2> SUFFICES ASSUME p + 1 \in Valued(a, os) PROVE FALSE OBVIOUS
  <2>1. p + 1 < Len(os) /\ os[(p + 1) + 1] \in Words BY DEF Valued
  <2> QED BY <2>1, NoValue
<1>3. IsEmpty(ValueBefore(a, os, p + 1))
  <2>1. args[a].value = ValueBefore(a, os, p + 1) BY <1>1 DEF Read
  <2> QED BY <2>1
<1>4. \E k \in Uses(a, os) \ Valued(a, os) : ValueBefore(a, os, k) = ""
  BY <1>1, <1>2, <1>3, Zenon DEF IsEmpty
<1> QED BY <1>1, <1>4, Zenon DEF BadOptions, RequiredArgs

LEMMA SetPlace ==
  ASSUME NEW s \in LoopStates, NEW j
  PROVE  [s EXCEPT !.i = j] = [i |-> j, args |-> s.args, threw |-> s.threw]
BY DEF LoopStates

\* A turn of the loop.
LEMMA TurnInv ==
  ASSUME NEW av \in Seq(Tokens), NEW s, LoopInv(s, av), ~ s.threw, s.i <= Len(av)
  PROVE  LoopInv(Turn(s, av), av) /\ (Turn(s, av).threw \/ Turn(s, av).i >= s.i + 1)
<1> DEFINE os == Options(av)
           st == StartIndex(av)
           p  == s.i - st
           t  == av[s.i]
           a  == CHOOSE b \in Named(t) : TRUE
<1>1. /\ s \in LoopStates /\ s.i \in Nat /\ p \in 0..Len(os)
      /\ s.args \in [Args -> [found : BOOLEAN, value : Values]]
      /\ Read(s.args, os, p)
  BY Zenon DEF LoopInv, LoopStates
<1>2. st \in 1..(Len(av) + 1) BY StartIndexProp
<1>3. /\ os \in Seq(Tokens) /\ Len(os) = Len(av) + 1 - st
      /\ \A k \in 1..Len(os) : os[k] = av[st + k - 1]
  BY OptionsProp
<1> HIDE DEF os, st
<1> DEFINE i == s.i
           n == Len(av)
           m == Len(os)
<1>a. i \in Nat /\ n \in Nat /\ m \in Nat /\ i <= n /\ m = n + 1 - st BY <1>1, <1>3
<1>b. p = i - st /\ p \in 0..m BY <1>1
<1>4. p \in Nat /\ p < Len(os) /\ p + 1 \in 1..Len(os) /\ st + (p + 1) - 1 = s.i
  <2> HIDE DEF i, n, m, p
  <2>1. p \in Nat /\ p < m /\ p + 1 \in 1..m /\ st + (p + 1) - 1 = i
    BY ONLY <1>2, <1>a, <1>b DEF n
  <2> QED BY <2>1 DEF i, m
<1>c. /\ p + 2 <= Len(os) <=> s.i + 1 <= Len(av)
      /\ p + 2 <= Len(os) => p + 2 \in 1..Len(os) /\ p + 2 \in 0..Len(os)
      /\ st + (p + 2) - 1 = s.i + 1 /\ (s.i + 2) - st = p + 2 /\ (s.i + 1) - st = p + 1
      /\ p + 1 \in 0..Len(os) /\ s.i + 2 >= s.i + 1 /\ s.i + 1 >= s.i + 1
  <2> HIDE DEF i, n, m, p
  <2>1. /\ p + 2 <= m <=> i + 1 <= n
        /\ p + 2 <= m => p + 2 \in 1..m /\ p + 2 \in 0..m
        /\ st + (p + 2) - 1 = i + 1 /\ (i + 2) - st = p + 2 /\ (i + 1) - st = p + 1
        /\ p + 1 \in 0..m /\ i + 2 >= i + 1 /\ i + 1 >= i + 1
    BY ONLY <1>2, <1>a, <1>b DEF n
  <2> QED BY <2>1 DEF i, n, m
<1> HIDE DEF i, n, m
<1>5. os[p + 1] = t BY <1>3, <1>4
<1>6. HasValue(os, p) <=> s.i + 1 <= Len(av) /\ av[s.i + 1] \notin Flags
  <2>1. p + 2 <= Len(os) <=> s.i + 1 <= Len(av) BY <1>c
  <2>2. ASSUME p + 2 <= Len(os) PROVE os[p + 2] = av[s.i + 1]
    <3>1. p + 2 \in 1..Len(os) /\ st + (p + 2) - 1 = s.i + 1 BY <1>c, <2>2
    <3> QED BY <1>3, <3>1
  <2> QED BY <2>1, <2>2 DEF HasValue
<1>7. s = [i |-> s.i, args |-> s.args, threw |-> FALSE]
  BY <1>1 DEF LoopStates
<1>8. CASE Named(t) = {}
  <2>1. Turn(s, av) = [s EXCEPT !.threw = TRUE] BY <1>8 DEF Turn
  <2>2. Turn(s, av) = [i |-> s.i, args |-> s.args, threw |-> TRUE] BY <1>7, <2>1
  <2>3. BadOptions(os) BY <1>1, <1>3, <1>4, <1>5, <1>8, UnknownIsBad
  <2>4. Turn(s, av) \in LoopStates BY <1>1, <2>2 DEF LoopStates
  <2>5. Turn(s, av).threw = TRUE /\ Turn(s, av).i = s.i BY <2>2
  <2> HIDE DEF a, t
  <2> QED BY <1>1, <2>3, <2>4, <2>5, Zenon DEF LoopInv, os, st
<1>9. ASSUME Named(t) # {} PROVE a \in Named(os[p + 1]) /\ a \in Args
  BY <1>5, <1>9, OneName
<1>10. CASE Named(t) # {} /\ HasValue(os, p)
  <2>1. Turn(s, av) = [s EXCEPT !.i = (s.i + 1) + 1,
                                !.args[a] = [found |-> TRUE, value |-> av[s.i + 1]]]
    BY <1>6, <1>10, Zenon DEF Turn
  <2>2. p + 2 <= Len(os) /\ os[p + 2] \notin Flags BY <1>10 DEF HasValue
  <2>3. p + 2 \in 1..Len(os) /\ st + (p + 2) - 1 = s.i + 1 BY <1>c, <2>2
  <2>4. os[p + 2] = av[s.i + 1] /\ os[p + 2] \in Values BY <1>3, <2>3 DEF Values
  <2> DEFINE new == [s.args EXCEPT ![a] = [found |-> TRUE, value |-> os[p + 2]]]
  <2>5. Turn(s, av) = [i |-> s.i + 2, args |-> new, threw |-> FALSE]
    <3>1. (s.i + 1) + 1 = s.i + 2 BY <1>1
    <3> HIDE DEF a, p
    <3> DEFINE r == [found |-> TRUE, value |-> os[p + 2]]
    <3>2. Turn(s, av) = [s EXCEPT !.i = s.i + 2, !.args[a] = r] BY ONLY <2>1, <2>4, <3>1, Zenon
    <3> HIDE DEF r
    <3>3. Turn(s, av) = [i |-> s.i + 2, args |-> [s.args EXCEPT ![a] = r], threw |-> FALSE]
      <4> DEFINE u == [s EXCEPT !.i = s.i + 2]
      <4>1. u = [i |-> s.i + 2, args |-> s.args, threw |-> FALSE]
        <5>1. s.threw = FALSE BY <1>7
        <5>2. u = [i |-> s.i + 2, args |-> s.args, threw |-> s.threw]
          BY ONLY <1>1, SetPlace, Zenon
        <5> QED BY ONLY <5>1, <5>2, Zenon
      <4>2. Turn(s, av) = [u EXCEPT !.args = [u.args EXCEPT ![a] = r]] BY ONLY <3>2, Zenon
      <4> HIDE DEF u
      <4>3. u.args = s.args BY <4>1
      <4>4. Turn(s, av) = [u EXCEPT !.args = [s.args EXCEPT ![a] = r]] BY ONLY <4>2, <4>3, Zenon
      <4> QED BY ONLY <4>1, <4>4
    <3> QED BY <3>3 DEF r
  <2>6. a \in Named(os[p + 1]) /\ a \in Args BY <1>9, <1>10
  <2> HIDE DEF a, t
  <2>7. Read(new, os, p + 2) BY <1>1, <1>3, <1>4, <2>2, <2>6, ReadValue
  <2>8. new \in [Args -> [found : BOOLEAN, value : Values]] BY <1>1, <2>4, <2>6
  <2> HIDE DEF new
  <2>9. Turn(s, av) \in LoopStates BY <1>1, <2>5, <2>8 DEF LoopStates
  <2>10. /\ Turn(s, av).i = s.i + 2 /\ Turn(s, av).args = new /\ Turn(s, av).threw = FALSE
    BY <2>5
  <2>11. (s.i + 2) - st = p + 2 /\ p + 2 \in 0..Len(os) /\ s.i + 2 >= s.i + 1
    BY <1>c, <2>2
  <2>12. LoopInv(Turn(s, av), av)
    <3>1. Turn(s, av).i - st \in 0..Len(os) BY <2>10, <2>11
    <3>2. Read(Turn(s, av).args, os, Turn(s, av).i - st) BY <2>7, <2>10, <2>11
    <3> QED BY <2>9, <2>10, <3>1, <3>2, Zenon DEF LoopInv, os, st
  <2> QED BY <2>10, <2>11, <2>12
<1>11. CASE Named(t) # {} /\ ~ HasValue(os, p)
  <2> DEFINE new == [s.args EXCEPT ![a].found = TRUE]
             thrown == Arguments[a].required /\ s.args[a].value = ""
  <2>1. Turn(s, av) = [s EXCEPT !.i = s.i + 1, !.args[a].found = TRUE, !.threw = thrown]
    BY <1>6, <1>11, Zenon DEF Turn
  <2>2. a \in Named(os[p + 1]) /\ a \in Args BY <1>9, <1>11
  <2> HIDE DEF a, t
  <2>3. thrown \in BOOLEAN OBVIOUS
  <2>4. thrown <=> a \in RequiredArgs /\ IsEmpty(s.args[a].value)
    BY <2>2, Zenon DEF RequiredArgs, IsEmpty
  <2> HIDE DEF thrown
  <2>5. Turn(s, av) = [i |-> s.i + 1, args |-> new, threw |-> thrown]
    <3> HIDE DEF p
    <3> QED BY <1>7, <2>1
  <2>6. new \in [Args -> [found : BOOLEAN, value : Values]] BY <1>1, <2>2
  <2>7. ASSUME ~ thrown PROVE Read(new, os, p + 1)
    <3>1. a \in RequiredArgs => ~ IsEmpty(s.args[a].value) BY <2>4, <2>7
    <3> QED BY <1>1, <1>3, <1>4, <1>11, <2>2, <3>1, ReadFlag
  <2>8. ASSUME thrown PROVE BadOptions(os)
    <3>1. a \in RequiredArgs /\ IsEmpty(s.args[a].value) BY <2>4, <2>8
    <3> QED BY <1>1, <1>3, <1>4, <1>11, <2>2, <3>1, EmptyIsBad
  <2> HIDE DEF new
  <2>9. Turn(s, av) \in LoopStates BY <1>1, <2>3, <2>5, <2>6 DEF LoopStates
  <2>10. /\ Turn(s, av).i = s.i + 1 /\ Turn(s, av).args = new /\ Turn(s, av).threw = thrown
    BY <2>5
  <2>11. (s.i + 1) - st = p + 1 /\ p + 1 \in 0..Len(os) /\ s.i + 1 >= s.i + 1
    BY <1>c
  <2>12. LoopInv(Turn(s, av), av)
    <3>1. Turn(s, av).i - st \in 0..Len(os) BY <2>10, <2>11
    <3>2. ASSUME ~ thrown PROVE Read(Turn(s, av).args, os, Turn(s, av).i - st)
      BY <2>7, <2>10, <2>11, <3>2
    <3> QED BY <2>8, <2>9, <2>10, <3>1, <3>2, Zenon DEF LoopInv, os, st
  <2> QED BY <2>10, <2>11, <2>12
<1> QED BY <1>8, <1>10, <1>11

\* What the recursive function of Parse does with a state.
Step(s, av) == IF s.threw \/ s.i > Len(av) THEN s ELSE Turn(s, av)

\* The recursive definition has a solution.
LEMMA TurnsExist ==
  ASSUME NEW n \in Nat, NEW av, NEW base
  PROVE  \E f : f = [k \in 0..n |-> IF k = 0 THEN base ELSE Step(f[k - 1], av)]
<1> DEFINE Sol(m, f) == f = [k \in 0..m |-> IF k = 0 THEN base ELSE Step(f[k - 1], av)]
           Good == {m \in Nat : \E f : Sol(m, f)}
<1> HIDE DEF Sol
<1>1. 0 \in Good
  <2>1. Sol(0, [k \in 0..0 |-> base]) BY DEF Sol
  <2> QED BY <2>1
<1>2. ASSUME NEW m \in Nat, m \in Good PROVE m + 1 \in Good
  <2>1. PICK f : Sol(m, f) BY <1>2
  <2> DEFINE g == [k \in 0..(m + 1) |-> IF k <= m THEN f[k] ELSE Step(f[m], av)]
  <2>2. ASSUME NEW k \in 0..(m + 1)
        PROVE  g[k] = IF k = 0 THEN base ELSE Step(g[k - 1], av)
    <3>1. CASE k = 0 BY <2>1, <3>1 DEF Sol
    <3>2. CASE k # 0 /\ k <= m
      <4>1. k - 1 \in 0..(m + 1) /\ k - 1 <= m BY <3>2
      <4>2. f[k] = Step(f[k - 1], av) BY <2>1, <3>2 DEF Sol
      <4> QED BY <4>1, <4>2, <3>2
    <3>3. CASE k = m + 1
      <4>1. g[m] = f[m] OBVIOUS
      <4> QED BY <4>1, <3>3
    <3> QED BY <3>1, <3>2, <3>3
  <2>3. Sol(m + 1, g)
    <3>1. g = [k \in 0..(m + 1) |-> g[k]] OBVIOUS
    <3> HIDE DEF g
    <3> QED BY <2>2, <3>1 DEF Sol
  <2> HIDE DEF g
  <2> QED BY <2>3
<1>3. \A m \in Nat : m \in Good
  <2> HIDE DEF Good
  <2> QED BY <1>1, <1>2, CountingUp, Zenon
<1>4. n \in Good
  <2> HIDE DEF Good
  <2> QED BY <1>3
<1> QED BY <1>4 DEF Sol

\* What Parse returns: the state at the end of the loop, which has read all
\* options or thrown.
LEMMA ParseProp ==
  ASSUME NEW av \in Seq(Tokens)
  PROVE  \E s : /\ LoopInv(s, av) /\ (s.threw \/ s.i > Len(av))
                /\ Parse(av).args = s.args
                /\ Parse(av).threw <=>
                     s.threw \/ \E a \in Args : Arguments[a].required /\ ~ s.args[a].found
<1> DEFINE base == [i |-> StartIndex(av), args |-> Default, threw |-> FALSE]
           n == Len(av)
           Sol(f) == f = [k \in 0..n |-> IF k = 0 THEN base ELSE Step(f[k - 1], av)]
           turn == CHOOSE f : Sol(f)
           missing == \E a \in Args : Arguments[a].required /\ ~ turn[n].args[a].found
           thrown == turn[n].threw \/ missing
<1>1. n \in Nat OBVIOUS
<1>2. Sol(turn)
  <2>1. \E f : Sol(f)
    <3>1. \A m \in Nat : \A b : \E f :
            f = [k \in 0..m |-> IF k = 0 THEN b ELSE Step(f[k - 1], av)]
      BY TurnsExist
    <3>2. \E f : f = [k \in 0..n |-> IF k = 0 THEN base ELSE Step(f[k - 1], av)]
      <4>1. \A b : \E f : f = [k \in 0..n |-> IF k = 0 THEN b ELSE Step(f[k - 1], av)]
        BY ONLY <1>1, <3>1, Zenon
      <4> QED BY ONLY <4>1, Zenon
    <3> QED BY <3>2, Zenon
  <2> HIDE DEF Sol
  <2> QED BY <2>1
<1>3. Parse(av) = [args  |-> turn[n].args,
                   threw |-> thrown]
  BY Zenon DEF Parse, Step
<1> HIDE DEF turn, missing, thrown
<1>4. turn[0] = base /\ \A k \in 1..n : turn[k] = Step(turn[k - 1], av)
  <2> HIDE DEF n, base
  <2> QED BY <1>1, <1>2
<1>5. LoopInv(base, av)
  <2>1. StartIndex(av) \in 1..(n + 1) BY StartIndexProp
  <2>2. Options(av) \in Seq(Tokens) BY OptionsProp
  <2>3. Read(Default, Options(av), 0) BY <2>2, ReadStart
  <2>4. base \in LoopStates BY <2>1, OneName DEF LoopStates
  <2>5. /\ base.i - StartIndex(av) = 0 /\ 0 \in 0..Len(Options(av))
        /\ base.args = Default /\ base.threw = FALSE
    BY <2>1, <2>2
  <2> HIDE DEF base
  <2> QED BY <2>3, <2>4, <2>5 DEF LoopInv
<1> DEFINE Far(k) == turn[k].threw \/ turn[k].i > n \/ turn[k].i >= k + 1
           Good == {k \in Nat : k <= n => LoopInv(turn[k], av) /\ Far(k)}
<1>6. 0 \in Good
  <2>1. StartIndex(av) \in 1..(n + 1) BY StartIndexProp
  <2> QED BY <1>1, <1>4, <1>5, <2>1
<1>7. ASSUME NEW k \in Nat, k \in Good PROVE k + 1 \in Good
  <2> SUFFICES ASSUME k + 1 <= n PROVE LoopInv(turn[k + 1], av) /\ Far(k + 1)
    OBVIOUS
  <2> DEFINE s == turn[k]
  <2>1. LoopInv(s, av) /\ Far(k) BY <1>1, <1>7
  <2>2. turn[k + 1] = Step(s, av)
    <3>1. k + 1 \in 1..n /\ (k + 1) - 1 = k BY <1>1
    <3> QED BY <1>4, <3>1
  <2>3. s.i \in Nat BY <2>1 DEF LoopInv, LoopStates
  <2>4. CASE s.threw \/ s.i > n
    <3>1. turn[k + 1] = s BY <2>2, <2>4, Zenon DEF Step
    <3> QED BY <2>1, <2>4, <3>1
  <2>5. CASE ~ (s.threw \/ s.i > n)
    <3>1. turn[k + 1] = Turn(s, av) BY <2>2, <2>5, Zenon DEF Step
    <3>2. ~ s.threw /\ s.i <= n /\ s.i >= k + 1 BY <1>1, <2>1, <2>3, <2>5
    <3> HIDE DEF s
    <3>3. LoopInv(Turn(s, av), av) /\ (Turn(s, av).threw \/ Turn(s, av).i >= s.i + 1)
      BY <2>1, <3>2, TurnInv
    <3>4. Turn(s, av).i \in Nat BY <3>3 DEF LoopInv, LoopStates
    <3>5. Turn(s, av).i >= s.i + 1 => Turn(s, av).i >= (k + 1) + 1 BY <2>3, <3>2, <3>4
    <3> QED BY <3>1, <3>3, <3>5
  <2> QED BY <2>4, <2>5
<1>8. \A k \in Nat : k \in Good
  <2> HIDE DEF Good
  <2> QED BY <1>6, <1>7, CountingUp, Zenon
<1>9. LoopInv(turn[n], av) /\ Far(n)
  <2>1. n \in Good
    <3> HIDE DEF Good, n
    <3> QED BY <1>1, <1>8
  <2> QED BY <1>1, <2>1
<1>10. turn[n].threw \/ turn[n].i > n
  <2>1. turn[n].i \in Nat BY <1>9 DEF LoopInv, LoopStates
  <2> QED BY <1>1, <1>9, <2>1
<1>11. /\ Parse(av).args = turn[n].args
       /\ Parse(av).threw <=>
            turn[n].threw \/ \E a \in Args : Arguments[a].required /\ ~ turn[n].args[a].found
  <2>1. Parse(av).args = turn[n].args /\ Parse(av).threw = thrown
    <3> HIDE DEF n
    <3> QED BY ONLY <1>3
  <2> QED BY <2>1, Zenon DEF thrown, missing
<1> QED BY <1>9, <1>10, <1>11, Zenon

\* What the parser returns agrees with the meaning of the options.
LEMMA ParseMeaning ==
  ASSUME NEW av \in Seq(Tokens)
  PROVE  /\ Parse(av).threw <=> BadOptions(Options(av))
         /\ ~ Parse(av).threw => \A a \in Args :
              /\ Parse(av).args[a].found <=> Uses(a, Options(av)) # {}
              /\ Parse(av).args[a].value = ValueBefore(a, Options(av), Len(Options(av)) + 1)
<1> DEFINE os == Options(av)
<1>1. PICK s : /\ LoopInv(s, av) /\ (s.threw \/ s.i > Len(av))
               /\ Parse(av).args = s.args
               /\ Parse(av).threw <=>
                    s.threw \/ \E a \in Args : Arguments[a].required /\ ~ s.args[a].found
  BY ParseProp, Zenon
<1>2. os \in Seq(Tokens) /\ Len(os) = Len(av) + 1 - StartIndex(av) BY OptionsProp
<1>3. StartIndex(av) \in 1..(Len(av) + 1) BY StartIndexProp
<1>4. CASE s.threw
  <2>1. Parse(av).threw BY <1>1, <1>4, Zenon
  <2>2. BadOptions(os) BY <1>1, <1>4, Zenon DEF LoopInv
  <2> QED BY <2>1, <2>2, Zenon
<1>5. CASE ~ s.threw
  <2>1. s.i \in Nat /\ s.i > Len(av) /\ s.i - StartIndex(av) \in 0..Len(os)
    <3>1. s.i > Len(av) BY <1>1, <1>5, Zenon
    <3>2. s \in LoopStates /\ s.i - StartIndex(av) \in 0..Len(os) BY <1>1, Zenon DEF LoopInv
    <3> QED BY <3>1, <3>2 DEF LoopStates
  <2>2. s.i - StartIndex(av) = Len(os) BY <1>2, <1>3, <2>1
  <2>3. Read(s.args, os, Len(os)) BY <1>1, <1>5, <2>2, Zenon DEF LoopInv
  <2> HIDE DEF os
  <2>4. \A a \in Args : \A k \in Uses(a, os) : k \in 1..Len(os) /\ k <= Len(os)
    BY <1>2, PlacesAreNumbers
  <2>5. \A a \in Args : s.args[a].found <=> Uses(a, os) # {}
    <3> TAKE a \in Args
    <3>1. s.args[a].found <=> \E k \in Uses(a, os) : k <= Len(os) BY <2>3, Zenon DEF Read
    <3> QED BY <2>4, <3>1, Zenon
  <2>6. \A a \in Args : s.args[a].value = ValueBefore(a, os, Len(os) + 1)
    BY <2>3, Zenon DEF Read
  <2>7. \A a \in RequiredArgs : \A k \in Uses(a, os) \ Valued(a, os) : ValueBefore(a, os, k) # ""
    <3> TAKE a \in RequiredArgs
    <3> TAKE k \in Uses(a, os) \ Valued(a, os)
    <3>1. k <= Len(os) BY <2>4, Zenon DEF RequiredArgs
    <3> QED BY <2>3, <3>1, Zenon DEF Read, IsEmpty
  <2>8. ~ \E k \in 1..Len(os) :
            IF os[k] \in Flags THEN Named(os[k]) = {} ELSE k = 1 \/ os[k - 1] \in Words
    BY <2>3, Zenon DEF Read, Fine
  <2>9. BadOptions(os) <=> \E a \in Args : Arguments[a].required /\ Uses(a, os) = {}
    BY <2>7, <2>8, Zenon DEF BadOptions, RequiredArgs
  <2>10. Parse(av).threw <=> BadOptions(os)
    BY <1>1, <1>5, <2>5, <2>9, Zenon
  <2> QED BY <1>1, <2>5, <2>6, <2>10, Zenon DEF os
<1> QED BY <1>4, <1>5

-----------------------------------------------------------------------------
\* The command line does not change, and once init() has parsed it the
\* arguments are what the parser returned.
ParseInv ==
  /\ argv \in Seq(Tokens)
  /\ manager # "start" => m_arguments = Parse(argv).args /\ threw = Parse(argv).threw

LEMMA ParseInit == CfgInit => ParseInv
<1> SUFFICES ASSUME CfgInit PROVE ParseInv OBVIOUS
<1>1. PICK n \in 0..MaxArgs : argv \in [1..n -> Tokens] BY DEF CfgInit, Tokens
<1>2. n \in Nat BY ConfigAssumption
<1>3. argv \in Seq(Tokens) BY <1>1, <1>2
<1> QED BY <1>3 DEF CfgInit, ParseInv

LEMMA ParseStep == ParseInv /\ [CfgNext]_cfgVars => ParseInv'
<1> SUFFICES ASSUME ParseInv, [CfgNext]_cfgVars PROVE ParseInv' OBVIOUS
<1>1. ASSUME argv' = argv, m_arguments' = m_arguments, threw' = threw,
             manager' = manager \/ manager # "start"
      PROVE  ParseInv'
  BY <1>1, Zenon DEF ParseInv
<1>2. CASE InitConfig
  <2>1. /\ argv' = argv /\ m_arguments' = Parse(argv).args /\ threw' = Parse(argv).threw
    BY <1>2, Zenon DEF InitConfig
  <2> QED BY <2>1, Zenon DEF ParseInv
<1>3. CASE Return BY <1>1, <1>3 DEF Return, parseVars
<1>4. CASE Ended \/ UNCHANGED cfgVars BY <1>1, <1>4 DEF Ended, cfgVars, parseVars
<1>5. CASE Call BY <1>1, <1>5 DEF Call, parseVars
<1>6. \A k \in Keys, t \in Types : SetValue(k, t) => Call BY Zenon DEF SetValue
<1>7. \A p, v, n : InitVhostDevice(p, v, n) => Call BY Zenon DEF InitVhostDevice
<1>8. \A p, q, e : SetQueueState(p, q, e) => Call BY Zenon DEF SetQueueState
<1>9. \A p, i, fd : AssignPortSocket(p, i, fd) => Call BY Zenon DEF AssignPortSocket
<1>10. \A p, fd : AssignControlPath(p, fd) => Call BY Zenon DEF AssignControlPath
<1>11. CASE Overrun BY <1>1, <1>11 DEF Overrun, parseVars
<1>12. \A n : InitVhostDeviceOverruns(n) => Overrun BY Zenon DEF InitVhostDeviceOverruns
<1>13. \A p, i : AssignPortSocketUnderruns(p, i) => Overrun
  BY Zenon DEF AssignPortSocketUnderruns
<1> QED BY <1>2, <1>3, <1>4, <1>5, <1>6, <1>7, <1>8, <1>9, <1>10, <1>11, <1>12, <1>13, Zenon
        DEF CfgNext

\* On every command line of any length parse() throws exactly when the options
\* are bad, and otherwise leaves each argument with the value of its last use
\* that has one.
THEOREM ParseAlwaysCorrect == CfgSpec => []ParseCorrect
<1>1. ParseInv => ParseCorrect
  <2> SUFFICES ASSUME ParseInv, manager # "start" PROVE ParseCorrect
    BY DEF ParseCorrect
  <2>1. argv \in Seq(Tokens) /\ m_arguments = Parse(argv).args /\ threw = Parse(argv).threw
    BY DEF ParseInv
  <2>2. /\ Parse(argv).threw <=> BadOptions(Options(argv))
        /\ ~ Parse(argv).threw => \A a \in Args :
             /\ Parse(argv).args[a].found <=> Uses(a, Options(argv)) # {}
             /\ Parse(argv).args[a].value = ValueBefore(a, Options(argv), Len(Options(argv)) + 1)
    BY <2>1, ParseMeaning, Zenon
  <2> QED BY <2>1, <2>2, Zenon DEF ParseCorrect
<1> QED BY <1>1, ParseInit, ParseStep, PTL DEF CfgSpec

=============================================================================
