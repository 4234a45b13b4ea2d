--------------------------- MODULE BackendProofs ---------------------------
(***************************************************************************)
(* Theorems about the vhost-user back ends of code_dump/, for every queue  *)
(* size, index range, frame buffer, set of chains and number of restarts   *)
(* and threads.                                                            *)
(***************************************************************************)
EXTENDS PcapBackend, FiniteSetTheorems, SequenceTheorems, TLAPS

(***************************************************************************)
(* Arithmetic of indices that wrap around.                                 *)
(***************************************************************************)
LEMMA DivMod ==
  ASSUME NEW m \in Nat, m > 0, NEW x \in Int
  PROVE  /\ x = m * (x \div m) + (x % m)
         /\ (x \div m) \in Int /\ (x % m) \in 0..(m - 1)
  OBVIOUS

LEMMA ModUnique ==
  ASSUME NEW m \in Nat, m > 0, NEW x \in Int, NEW q \in Int, NEW r \in 0..(m - 1),
         x = m * q + r
  PROVE  x % m = r
  OBVIOUS

LEMMA MultLess ==
  ASSUME NEW m \in Nat, m > 0, NEW q \in Int, -m < m * q, m * q < m
  PROVE  q = 0
  OBVIOUS

LEMMA Distribute ==
  ASSUME NEW m \in Int, NEW p \in Int, NEW q \in Int
  PROVE  m * (p + q) = m * p + m * q /\ m * (p - q) = m * p - m * q
  OBVIOUS

\* Numbers that differ by a multiple of m leave the same remainder.
LEMMA ModCongruent ==
  ASSUME NEW m \in Nat, m > 0, NEW x \in Int, NEW y \in Int, NEW q \in Int,
         x = y + m * q
  PROVE  x % m = y % m
<1>1. PICK k \in Int, r \in 0..(m - 1) : y = m * k + r /\ y % m = r
  BY DivMod
<1>2. x = m * (k + q) + r
  <2>1. x = (m * k + r) + m * q BY <1>1
  <2>2. m * k \in Int /\ m * q \in Int OBVIOUS
  <2>3. m * (k + q) = m * k + m * q BY Distribute
  <2> QED BY <2>1, <2>2, <2>3
<1>3. k + q \in Int OBVIOUS
<1>4. x % m = r BY <1>2, <1>3, ModUnique
<1> QED BY <1>1, <1>4

\* Incrementing an index is incrementing the number it stands for.
LEMMA ModInc ==
  ASSUME NEW m \in Nat, m > 0, NEW x \in Nat
  PROVE  ((x % m) + 1) % m = (x + 1) % m
<1>1. PICK k \in Int, r \in 0..(m - 1) : x = m * k + r /\ x % m = r
  BY DivMod
<1>2. x + 1 = (r + 1) + m * k
  BY <1>1
<1>3. (x + 1) % m = (r + 1) % m
  <2>1. x + 1 \in Int /\ r + 1 \in Int OBVIOUS
  <2> QED BY <1>2, <2>1, ModCongruent
<1> QED BY <1>1, <1>3

\* An index addresses the place of the ring that its number does.
LEMMA ModPlus ==
  ASSUME NEW m \in Nat, NEW s \in Nat, m > 0, s > 0, m % s = 0,
         NEW x \in Nat, NEW k \in Int
  PROVE  ((x % m) + k) % s = (x + k) % s
<1>1. PICK p \in Int, r \in 0..(m - 1) : x = m * p + r /\ x % m = r
  <2>1. x = m * (x \div m) + (x % m) /\ (x \div m) \in Int /\ (x % m) \in 0..(m - 1)
    BY DivMod
  <2> QED BY <2>1
<1>2. PICK h \in Int : m = s * h
  <2>1. m = s * (m \div s) + 0 /\ (m \div s) \in Int BY DivMod
  <2> QED BY <2>1
<1>3. m * p = s * (h * p) /\ h * p \in Int
  BY <1>2
<1>4. x + k = (r + k) + s * (h * p)
  BY <1>1, <1>3
<1>5. (x + k) % s = (r + k) % s
  <2>1. x + k \in Int /\ r + k \in Int OBVIOUS
  <2> QED BY <1>3, <1>4, <2>1, ModCongruent
<1> QED BY <1>1, <1>5

\* The difference of two indices is that of their numbers, when these are
\* less than the range apart.
LEMMA ModDiff ==
  ASSUME NEW m \in Nat, m > 0, NEW x \in Nat, NEW y \in Nat, x <= y, y - x < m
  PROVE  ((y % m) - (x % m)) % m = y - x
<1>1. PICK p \in Int, r \in 0..(m - 1) : x = m * p + r /\ x % m = r
  BY DivMod
<1>2. PICK q \in Int, t \in 0..(m - 1) : y = m * q + t /\ y % m = t
  BY DivMod
<1>3. y - x = (t - r) + m * (q - p)
  <2>1. m * (q - p) = m * q - m * p BY Distribute
  <2>2. m * q \in Int /\ m * p \in Int OBVIOUS
  <2> QED BY <1>1, <1>2, <2>1, <2>2
<1>4. (y - x) % m = (t - r) % m
  BY <1>3, ModCongruent
<1>5. (y - x) % m = y - x
  <2>1. y - x \in 0..(m - 1) /\ y - x = m * 0 + (y - x) OBVIOUS
  <2> QED BY <2>1, ModUnique
<1> QED BY <1>1, <1>2, <1>4, <1>5

\* Two numbers less than the range apart have the same index only if equal.
LEMMA ModSame ==
  ASSUME NEW m \in Nat, m > 0, NEW x \in Nat, NEW y \in Nat, x <= y, y - x < m,
         x % m = y % m
  PROVE  x = y
<1>1. ((y % m) - (x % m)) % m = y - x
  BY ModDiff
<1>2. (x % m) - (x % m) = 0 BY DivMod
<1>3. 0 % m = 0 OBVIOUS
<1> QED BY <1>1, <1>2, <1>3

(***************************************************************************)
(* The peer's script: what each place of it asks for.                      *)
(***************************************************************************)
LEMMA ScriptLen == Len(Script) = 26 /\ StartAt = 9 /\ StopAt = 23
  BY DEF Script, Boot, StartUp, ShutDown, StartAt, StopAt

LEMMA ScriptAt ==
  /\ Script[1].req = "GET_FEATURES" /\ Script[2].req = "GET_PROTOCOL_FEATURES"
  /\ Script[3].req = "SET_PROTOCOL_FEATURES" /\ Script[4].req = "SET_OWNER"
  /\ Script[9].req = "SET_FEATURES" /\ Script[10].req = "SET_MEM_TABLE"
  /\ \A q \in Queues :
       /\ Script[5 + q] = [req |-> "SET_VRING_CALL", q |-> q]
       /\ Script[7 + q] = [req |-> "SET_VRING_ENABLE", q |-> q, num |-> 1]
       /\ Script[11 + 5 * q] = [req |-> "SET_VRING_NUM", q |-> q]
       /\ Script[12 + 5 * q] = [req |-> "SET_VRING_BASE", q |-> q]
       /\ Script[13 + 5 * q] = [req |-> "SET_VRING_ADDR", q |-> q]
       /\ Script[14 + 5 * q] = [req |-> "SET_VRING_KICK", q |-> q]
       /\ Script[15 + 5 * q] = [req |-> "SET_VRING_CALL", q |-> q]
       /\ Script[21 + q] = [req |-> "SET_VRING_ENABLE", q |-> q, num |-> 1]
       /\ Script[23 + q] = [req |-> "SET_VRING_ENABLE", q |-> q, num |-> 0]
       /\ Script[25 + q] = [req |-> "GET_VRING_BASE", q |-> q]
  BY DEF Script, Boot, StartUp, ShutDown, Queues

\* A request tells where the peer is.
LEMMA WhereRequested ==
  ASSUME NEW i \in 1..26
  PROVE  /\ Script[i].req \in {"GET_FEATURES", "GET_PROTOCOL_FEATURES", "SET_FEATURES",
                               "SET_PROTOCOL_FEATURES", "SET_OWNER"} => i \in {1, 2, 3, 4, 9}
         /\ Script[i].req = "SET_MEM_TABLE" => i = 10
         /\ Script[i].req = "SET_VRING_NUM" => \E q \in Queues : i = 11 + 5 * q /\ Script[i].q = q
         /\ Script[i].req = "SET_VRING_BASE" => \E q \in Queues : i = 12 + 5 * q /\ Script[i].q = q
         /\ Script[i].req = "SET_VRING_ADDR" => \E q \in Queues : i = 13 + 5 * q /\ Script[i].q = q
         /\ Script[i].req = "SET_VRING_KICK" => \E q \in Queues : i = 14 + 5 * q /\ Script[i].q = q
         /\ Script[i].req = "SET_VRING_CALL" =>
              \E q \in Queues : i \in {5 + q, 15 + 5 * q} /\ Script[i].q = q
         /\ Script[i].req = "SET_VRING_ENABLE" =>
              \E q \in Queues : /\ i \in {7 + q, 21 + q, 23 + q} /\ Script[i].q = q
                                /\ Script[i].num = IF i \in {7 + q, 21 + q} THEN 1 ELSE 0
         /\ Script[i].req = "GET_VRING_BASE" => \E q \in Queues : i = 25 + q /\ Script[i].q = q
  BY ScriptAt DEF Queues

-----------------------------------------------------------------------------
(***************************************************************************)
(* Control.  A request has been handled once the peer is past it; from the *)
(* second start on all have been.  Each part of the invariant says what a  *)
(* request that has been handled leaves behind for good.                   *)
(***************************************************************************)
Passed(k) == at > k \/ starts >= 2 \/ (at = StartAt /\ starts >= 1)

Fds == {"stdin", "peer", "none"}
Places == {"none", "check", "fetch", "return", "publish"}

WkTypes == [pc : Places, d : Descs, u : Nat, size : Nat, rings : BOOLEAN]
VringTypes == [size : Nat, mapped : BOOLEAN,
               last_avail_idx : 0..(IdxMod - 1), last_used_idx : 0..(IdxMod - 1),
               call_fd : Fds, kick_fd : Fds, enable : {0, 1}]
QueueTypes == [Queues -> VringTypes]

ControlTypes ==
    /\ at \in 1..27 /\ starts \in Nat /\ nregions \in 0..1
    /\ vq \in QueueTypes
    /\ en2 \in [Queues -> Nat]
    /\ workers \in 0..MaxWorkers
    /\ wk \in [Threads -> WkTypes]
    /\ availRing \in [Descs -> Descs] /\ usedIdx \in 0..(IdxMod - 1)

Scripted ==
    /\ at > StartAt => starts >= 1
    /\ at < StartAt => starts = 0

Handled ==
    /\ Passed(10) => nregions = 1
    /\ \A q \in Queues :
         /\ Passed(5 + q) => vq[q].call_fd # "stdin"
         /\ Passed(11 + 5 * q) => vq[q].size = Num(q)
         /\ Passed(13 + 5 * q) => vq[q].mapped
         /\ Passed(14 + 5 * q) => vq[q].kick_fd # "stdin"

Threaded ==
    /\ en2[Tx] > 0 => Passed(8)
    /\ en2[Tx] > 1 => Passed(22)
    /\ workers > 0 => Passed(22)
    /\ \A w \in Threads : wk[w].pc # "none" => w <= workers
    /\ \A w \in Threads : w <= workers => wk[w].rings /\ wk[w].size = RxSize

Control == ControlTypes /\ Scripted /\ Handled /\ Threaded

LEMMA BackendConstants ==
  /\ Size \in Nat /\ Size >= 1 /\ RxSize \in Nat /\ RxSize >= 1 /\ IdxMod \in Nat /\ IdxMod > Size /\ IdxMod % Size = 0
  /\ MaxWorkers \in Nat /\ MaxWorkers >= 1 /\ \A q \in Queues : Num(q) \in Nat
  BY BackendAssumption DEF Num

LEMMA ControlInit == Init => Control
<1> SUFFICES ASSUME Init PROVE Control
  OBVIOUS
<1>1. ControlTypes BY BackendConstants DEF Init, ControlTypes, QueueTypes, VringTypes, WkTypes, Queues, Fds, Places, Threads, Descs
<1>2. \A k \in 1..26 : ~ Passed(k) BY ScriptLen DEF Init, Passed
<1>3. Scripted BY ScriptLen DEF Init, Scripted
<1>4. Handled BY <1>2 DEF Handled, Queues
<1>5. Threaded BY DEF Init, Threaded, Queues, Tx, Threads
<1> QED BY <1>1, <1>3, <1>4, <1>5 DEF Control

\* A request takes the peer one place on.
LEMMA Advance ==
  ASSUME ControlTypes, Scripted, NEW r, Arrives(r)
  PROVE  /\ at \in 1..26 /\ Script[at].req = r /\ at' = at + 1 /\ at' \in 1..27
         /\ starts' \in Nat /\ Scripted'
         /\ \A k \in 1..26 : Passed(k)' => Passed(k) \/ k = at
         /\ \A k \in 1..26 : Passed(k) \/ k = at => Passed(k)'
<1>1. /\ at \in 1..26 /\ Script[at].req = r /\ at' = at + 1
      /\ starts' = IF at = 9 THEN starts + 1 ELSE starts
  BY ScriptLen DEF Arrives, ControlTypes
<1>2. starts \in Nat /\ starts' \in Nat BY <1>1 DEF ControlTypes
<1>3. Scripted' BY <1>1, <1>2, ScriptLen DEF Scripted
<1>4. \A k \in 1..26 : (Passed(k)' <=> Passed(k) \/ k = at)
  BY <1>1, <1>2, ScriptLen DEF Scripted, Passed
<1> QED BY <1>1, <1>2, <1>3, <1>4

\* The requests that touch neither the rings nor the threads.
LEMMA ControlQuiet ==
  ASSUME Control, GetFeatures \/ GetProtocolFeatures \/ NotImplemented \/ SetFeatures
  PROVE  Control'
<1>1. PICK r \in {"GET_FEATURES", "GET_PROTOCOL_FEATURES", "SET_FEATURES",
                  "SET_PROTOCOL_FEATURES", "SET_OWNER"} : Arrives(r)
  BY DEF GetFeatures, GetProtocolFeatures, NotImplemented, SetFeatures, Receive
<1>2. UNCHANGED <<nregions, vq, en2, workers, wk, availRing, usedIdx>>
  BY DEF GetFeatures, GetProtocolFeatures, NotImplemented, SetFeatures, deviceVars,
         workerVars, ringVars
<1>3. at \in {1, 2, 3, 4, 9}
  BY <1>1, Advance, WhereRequested DEF Control
<1>4. \A k \in {5, 6, 8, 10, 11, 16, 13, 18, 14, 19, 22} : (Passed(k)' <=> Passed(k))
  BY <1>1, <1>3, Advance DEF Control
<1>5. ControlTypes' BY <1>1, <1>2, Advance DEF Control, ControlTypes
<1>6. Handled' BY <1>2, <1>4 DEF Control, Handled, Queues
<1>7. Threaded' BY <1>2, <1>4 DEF Control, Threaded
<1> QED BY <1>1, <1>5, <1>6, <1>7, Advance DEF Control

LEMMA ControlMemTable ==
  ASSUME Control, SetMemTable
  PROVE  Control'
<1>1. Arrives("SET_MEM_TABLE") /\ nregions' = 1 /\ UNCHANGED <<vq, en2, workers, wk, availRing, usedIdx>>
  BY DEF SetMemTable, workerVars, ringVars
<1>3. at = 10
  BY <1>1, Advance, WhereRequested DEF Control
<1>4. \A k \in {5, 6, 8, 11, 16, 13, 18, 14, 19, 22} : (Passed(k)' <=> Passed(k))
  BY <1>1, <1>3, Advance DEF Control
<1>5. ControlTypes' BY <1>1, Advance DEF Control, ControlTypes
<1>6. Handled' BY <1>1, <1>4 DEF Control, Handled, Queues
<1>7. Threaded' BY <1>1, <1>4 DEF Control, Threaded
<1> QED BY <1>1, <1>5, <1>6, <1>7, Advance DEF Control

\* A queue keeps what it has been told, and is told what its request says.
Kept ==
    \A q \in Queues :
      /\ at = 5 + q \/ vq[q].call_fd # "stdin" => vq'[q].call_fd # "stdin"
      /\ at = 11 + 5 * q \/ vq[q].size = Num(q) => vq'[q].size = Num(q)
      /\ at = 13 + 5 * q \/ vq[q].mapped => vq'[q].mapped
      /\ at = 14 + 5 * q \/ vq[q].kick_fd # "stdin" => vq'[q].kick_fd # "stdin"

LEMMA HandledStep ==
  ASSUME Control, NEW r, Arrives(r), at # 10, UNCHANGED nregions, Kept
  PROVE  Handled'
<1>1. \A k \in 1..26 : Passed(k)' => Passed(k) \/ k = at
  BY Advance DEF Control
<1>2. Passed(10)' => nregions' = 1
  BY <1>1 DEF Control, Handled
<1>3. ASSUME NEW q \in Queues
      PROVE  /\ Passed(5 + q)' => vq'[q].call_fd # "stdin"
             /\ Passed(11 + 5 * q)' => vq'[q].size = Num(q)
             /\ Passed(13 + 5 * q)' => vq'[q].mapped
             /\ Passed(14 + 5 * q)' => vq'[q].kick_fd # "stdin"
  <2>0. 5 + q \in 1..26 /\ 11 + 5 * q \in 1..26 /\ 13 + 5 * q \in 1..26 /\ 14 + 5 * q \in 1..26
    BY DEF Queues
  <2>1. Passed(5 + q)' => vq'[q].call_fd # "stdin"
    BY <1>1, <2>0 DEF Control, Handled, Kept
  <2>2. Passed(11 + 5 * q)' => vq'[q].size = Num(q)
    BY <1>1, <2>0 DEF Control, Handled, Kept
  <2>3. Passed(13 + 5 * q)' => vq'[q].mapped
    BY <1>1, <2>0 DEF Control, Handled, Kept
  <2>4. Passed(14 + 5 * q)' => vq'[q].kick_fd # "stdin"
    BY <1>1, <2>0 DEF Control, Handled, Kept
  <2> QED BY <2>1, <2>2, <2>3, <2>4
<1> QED BY <1>2, <1>3 DEF Handled

LEMMA ControlQueue ==
  ASSUME Control, NEW r, Arrives(r), at \notin {8, 10, 22}, Kept, vq' \in QueueTypes,
         UNCHANGED <<nregions, en2, workers, wk, availRing, usedIdx>>
  PROVE  Control'
<1>1. Handled' BY HandledStep
<1>2. ControlTypes' BY Advance DEF Control, ControlTypes, QueueTypes
<1>3. \A k \in {8, 22} : (Passed(k)' <=> Passed(k)) BY Advance DEF Control
<1>4. Threaded' BY <1>3 DEF Control, Threaded
<1> QED BY <1>1, <1>2, <1>4, Advance DEF Control

LEMMA ControlVringNum == Control /\ SetVringNum => Control'
<1> SUFFICES ASSUME Control, SetVringNum PROVE Control'
  OBVIOUS
<1>1. /\ Arrives("SET_VRING_NUM") /\ vq' = [vq EXCEPT ![Script[at].q].size = Num(Script[at].q)]
      /\ UNCHANGED <<nregions, en2, workers, wk, availRing, usedIdx>>
  BY DEF SetVringNum, Receive, workerVars, ringVars
<1>2. PICK q \in Queues : at = 11 + 5 * q /\ Script[at].q = q
  BY <1>1, Advance, WhereRequested DEF Control
<1>3. vq \in QueueTypes BY DEF Control, ControlTypes, QueueTypes
<1>4. vq' \in QueueTypes BY <1>1, <1>2, <1>3, BackendConstants DEF QueueTypes, VringTypes
<1>5. Kept BY <1>1, <1>2, <1>3 DEF Kept, Queues, QueueTypes, VringTypes
<1>6. at \notin {8, 10, 22} BY <1>2 DEF Queues
<1> QED BY <1>1, <1>4, <1>5, <1>6, ControlQueue

LEMMA ControlVringBase == Control /\ SetVringBase => Control'
<1> SUFFICES ASSUME Control, SetVringBase PROVE Control'
  OBVIOUS
<1>1. /\ Arrives("SET_VRING_BASE") /\ vq' = [vq EXCEPT ![Script[at].q].last_avail_idx = usedIdx]
      /\ UNCHANGED <<nregions, en2, workers, wk, availRing, usedIdx>>
  BY DEF SetVringBase, Receive, workerVars, ringVars
<1>2. PICK q \in Queues : at = 12 + 5 * q /\ Script[at].q = q
  BY <1>1, Advance, WhereRequested DEF Control
<1>3. vq \in QueueTypes /\ usedIdx \in 0..(IdxMod - 1) BY DEF Control, ControlTypes, QueueTypes
<1>4. vq' \in QueueTypes BY <1>1, <1>2, <1>3 DEF QueueTypes, VringTypes
<1>5. Kept BY <1>1, <1>2, <1>3 DEF Kept, Queues, QueueTypes, VringTypes
<1>6. at \notin {8, 10, 22} BY <1>2 DEF Queues
<1> QED BY <1>1, <1>4, <1>5, <1>6, ControlQueue

LEMMA ControlVringAddr == Control /\ SetVringAddr => Control'
<1> SUFFICES ASSUME Control, SetVringAddr PROVE Control'
  OBVIOUS
<1> DEFINE u == IF Script[at].q = Tx THEN usedIdx ELSE 0
<1>1. /\ Arrives("SET_VRING_ADDR")
      /\ vq' = [vq EXCEPT ![Script[at].q].mapped = TRUE, ![Script[at].q].last_used_idx = u,
                          ![Script[at].q].last_avail_idx = u]
      /\ UNCHANGED <<nregions, en2, workers, wk, availRing, usedIdx>>
  BY DEF SetVringAddr, Receive, workerVars, ringVars
<1>2. PICK q \in Queues : at = 13 + 5 * q /\ Script[at].q = q
  <2>1. at \in 1..26 /\ Script[at].req = "SET_VRING_ADDR" BY <1>1, Advance DEF Control
  <2> HIDE DEF u
  <2> QED BY <2>1, WhereRequested
<1>3. vq \in QueueTypes /\ u \in 0..(IdxMod - 1)
  BY BackendConstants DEF Control, ControlTypes, QueueTypes
<1> HIDE DEF u
<1>4. vq' \in QueueTypes
  <2>1. vq' = [vq EXCEPT ![q] = [vq[q] EXCEPT !.mapped = TRUE, !.last_used_idx = u, !.last_avail_idx = u]]
    BY <1>1, <1>2, <1>3 DEF QueueTypes
  <2>2. [vq[q] EXCEPT !.mapped = TRUE, !.last_used_idx = u, !.last_avail_idx = u] \in VringTypes
    BY <1>3 DEF QueueTypes, VringTypes, Fds
  <2> QED BY <1>3, <2>1, <2>2 DEF QueueTypes
<1>5. Kept BY <1>1, <1>2, <1>3 DEF Kept, Queues, QueueTypes, VringTypes
<1>6. at \notin {8, 10, 22} BY <1>2 DEF Queues
<1> QED BY <1>1, <1>4, <1>5, <1>6, ControlQueue

LEMMA ControlVringKick == Control /\ SetVringKick => Control'
<1> SUFFICES ASSUME Control, SetVringKick PROVE Control'
  OBVIOUS
<1>1. /\ Arrives("SET_VRING_KICK") /\ vq' = [vq EXCEPT ![Script[at].q].kick_fd = "peer"]
      /\ UNCHANGED <<nregions, en2, workers, wk, availRing, usedIdx>>
  BY DEF SetVringKick, Receive, workerVars
<1>2. PICK q \in Queues : at = 14 + 5 * q /\ Script[at].q = q
  BY <1>1, Advance, WhereRequested DEF Control
<1>3. vq \in QueueTypes BY DEF Control, ControlTypes, QueueTypes
<1>4. vq' \in QueueTypes BY <1>1, <1>2, <1>3 DEF QueueTypes, VringTypes, Fds
<1>5. Kept BY <1>1, <1>2, <1>3 DEF Kept, Queues, QueueTypes, VringTypes
<1>6. at \notin {8, 10, 22} BY <1>2 DEF Queues
<1> QED BY <1>1, <1>4, <1>5, <1>6, ControlQueue

LEMMA ControlVringCall == Control /\ SetVringCall => Control'
<1> SUFFICES ASSUME Control, SetVringCall PROVE Control'
  OBVIOUS
<1>1. /\ Arrives("SET_VRING_CALL") /\ vq' = [vq EXCEPT ![Script[at].q].call_fd = "peer"]
      /\ UNCHANGED <<nregions, en2, workers, wk, availRing, usedIdx>>
  BY DEF SetVringCall, workerVars, ringVars
<1>2. PICK q \in Queues : at \in {5 + q, 15 + 5 * q} /\ Script[at].q = q
  BY <1>1, Advance, WhereRequested DEF Control
<1>3. vq \in QueueTypes BY DEF Control, ControlTypes, QueueTypes
<1>4. vq' \in QueueTypes BY <1>1, <1>2, <1>3 DEF QueueTypes, VringTypes, Fds
<1>5. Kept BY <1>1, <1>2, <1>3 DEF Kept, Queues, QueueTypes, VringTypes
<1>6. at \notin {8, 10, 22} BY <1>2 DEF Queues
<1> QED BY <1>1, <1>4, <1>5, <1>6, ControlQueue

LEMMA ControlGetVringBase == Control /\ GetVringBase => Control'
<1> SUFFICES ASSUME Control, GetVringBase PROVE Control'
  OBVIOUS
<1>1. /\ Arrives("GET_VRING_BASE")
      /\ vq' = [vq EXCEPT ![Script[at].q].call_fd = "none", ![Script[at].q].kick_fd = "none"]
      /\ UNCHANGED <<nregions, en2, workers, wk, availRing, usedIdx>>
  BY DEF GetVringBase, Receive, workerVars, ringVars
<1>2. PICK q \in Queues : at = 25 + q /\ Script[at].q = q
  BY <1>1, Advance, WhereRequested DEF Control
<1>3. vq \in QueueTypes BY DEF Control, ControlTypes, QueueTypes
<1>4. vq' \in QueueTypes
  <2>1. vq' = [vq EXCEPT ![q] = [vq[q] EXCEPT !.call_fd = "none", !.kick_fd = "none"]]
    BY <1>1, <1>2, <1>3 DEF QueueTypes
  <2>2. [vq[q] EXCEPT !.call_fd = "none", !.kick_fd = "none"] \in VringTypes
    BY <1>3 DEF QueueTypes, VringTypes, Fds
  <2> QED BY <1>3, <2>1, <2>2 DEF QueueTypes
<1>5. Kept BY <1>1, <1>2, <1>3 DEF Kept, Queues, QueueTypes, VringTypes
<1>6. at \notin {8, 10, 22} BY <1>2 DEF Queues
<1> QED BY <1>1, <1>4, <1>5, <1>6, ControlQueue

\* Only the second enable of the transmit queue, or a later one, starts a
\* thread, and the rings are mapped by then.
LEMMA ControlVringEnable == Control /\ SetVringEnable => Control'
<1> SUFFICES ASSUME Control, SetVringEnable PROVE Control'
  OBVIOUS
<1> USE BackendConstants
<1>1. /\ Arrives("SET_VRING_ENABLE")
      /\ vq' = [vq EXCEPT ![Script[at].q].enable = Script[at].num]
      /\ en2' = [en2 EXCEPT ![Script[at].q] = @ + 1]
      /\ IF Script[at].num = 1 /\ en2'[Script[at].q] > 1 /\ Script[at].q = Tx
         THEN /\ workers < MaxWorkers
              /\ workers' = workers + 1
              /\ wk' = [wk EXCEPT ![workers + 1] = Begun(@)]
         ELSE UNCHANGED <<workers, wk>>
      /\ UNCHANGED <<nregions, availRing, usedIdx>>
  BY DEF SetVringEnable, workerVars, ringVars
<1>2. PICK q \in Queues : /\ at \in {7 + q, 21 + q, 23 + q} /\ Script[at].q = q
                          /\ Script[at].num = IF at \in {7 + q, 21 + q} THEN 1 ELSE 0
  BY <1>1, Advance, WhereRequested DEF Control
<1>3. vq \in QueueTypes /\ en2 \in [Queues -> Nat] /\ workers \in 0..MaxWorkers
      /\ wk \in [Threads -> WkTypes]
  BY DEF Control, ControlTypes
<1>4. vq' \in QueueTypes BY <1>1, <1>2, <1>3 DEF QueueTypes, VringTypes
<1>5. Kept
  <2>1. \A p \in Queues : /\ vq'[p].size = vq[p].size /\ vq'[p].mapped = vq[p].mapped
                          /\ vq'[p].call_fd = vq[p].call_fd /\ vq'[p].kick_fd = vq[p].kick_fd
    BY <1>1, <1>2, <1>3 DEF QueueTypes, VringTypes
  <2>2. \A p \in Queues : at \notin {5 + p, 11 + 5 * p, 13 + 5 * p, 14 + 5 * p}
    BY <1>2 DEF Queues
  <2> QED BY <2>1, <2>2 DEF Kept
<1>6. at \notin {10} BY <1>2 DEF Queues
<1>7. Handled' BY <1>1, <1>5, <1>6, HandledStep
<1>8. /\ \A k \in 1..26 : (Passed(k)' <=> Passed(k) \/ k = at)
      /\ at \in 1..26 /\ at' = at + 1
  BY <1>1, Advance DEF Control
<1>9. en2' \in [Queues -> Nat] /\ en2'[q] = en2[q] + 1
      /\ \A p \in Queues \ {q} : en2'[p] = en2[p]
  BY <1>1, <1>2, <1>3
<1>10. en2'[Tx] > 0 => Passed(8)'
  BY <1>2, <1>8, <1>9 DEF Control, Threaded, Queues, Tx, Passed
<1>11. en2'[Tx] > 1 => Passed(22)'
  <2>1. CASE q = 0 BY <1>8, <1>9, <2>1 DEF Control, Threaded, Queues, Tx
  <2>2. CASE q = 1 /\ at = 8
    <3>1. ~ Passed(8) BY <2>2, ScriptLen DEF Control, Scripted, Passed
    <3>2. en2[1] = 0 BY <1>3, <3>1 DEF Control, Threaded, Queues, Tx
    <3> QED BY <1>9, <2>2, <3>2 DEF Tx
  <2>3. CASE q = 1 /\ at # 8
    BY <1>2, <1>8, <2>3 DEF Passed
  <2> QED BY <2>1, <2>2, <2>3 DEF Queues
<1>12. CASE workers' = workers + 1 /\ wk' = [wk EXCEPT ![workers + 1] = Begun(@)]
            /\ workers < MaxWorkers /\ en2'[Tx] > 1
  <2>1. workers' \in 0..MaxWorkers /\ workers + 1 \in Threads BY <1>3, <1>12 DEF Threads
  <2>0. vq[0].size = RxSize /\ vq[Tx].mapped
    <3>1. Passed(22) \/ at = 22 BY <1>8, <1>11, <1>12
    <3>2. Passed(11) /\ Passed(18)
      BY <1>8, <3>1 DEF Control, ControlTypes, Passed
    <3> QED BY <3>2 DEF Control, Handled, Queues, Tx, Num
  <2> DEFINE b == Begun(wk[workers + 1])
  <2>b. /\ b \in WkTypes /\ b.pc = "check" /\ b.rings /\ b.size = RxSize
        /\ wk' = [wk EXCEPT ![workers + 1] = b]
    <3>1. wk[workers + 1] \in WkTypes BY <1>3, <2>1
    <3>2. b = [wk[workers + 1] EXCEPT !.pc = "check", !.size = RxSize, !.rings = TRUE]
      BY <2>0, <1>3 DEF Begun, QueueTypes, VringTypes, Queues, Tx
    <3>3. b \in WkTypes /\ b.pc = "check" /\ b.rings /\ b.size = RxSize
      BY <3>1, <3>2 DEF WkTypes, Places
    <3> QED BY <1>3, <1>12, <2>1, <3>3
  <2> HIDE DEF b
  <2>2. wk' \in [Threads -> WkTypes]
    BY <1>3, <2>b
  <2>c. \A w \in Threads : w <= workers' => wk'[w].rings /\ wk'[w].size = RxSize
    <3> SUFFICES ASSUME NEW w \in Threads, w <= workers'
                 PROVE  wk'[w].rings /\ wk'[w].size = RxSize
      OBVIOUS
    <3>1. CASE w = workers + 1 BY <1>3, <2>1, <2>b, <3>1
    <3>2. CASE w # workers + 1
      <4>1. wk'[w] = wk[w] BY <1>3, <2>b, <3>2
      <4>2. w <= workers BY <1>3, <1>12, <3>2 DEF Threads
      <4> QED BY <4>1, <4>2 DEF Control, Threaded
    <3> QED BY <3>1, <3>2
  <2>3. \A w \in Threads : wk'[w].pc # "none" => w <= workers'
    <3> SUFFICES ASSUME NEW w \in Threads, wk'[w].pc # "none" PROVE w <= workers'
      OBVIOUS
    <3>1. CASE w = workers + 1 BY <1>3, <1>12, <3>1
    <3>2. CASE w # workers + 1
      <4>1. wk'[w] = wk[w] BY <1>3, <2>b, <3>2
      <4>2. w <= workers BY <4>1 DEF Control, Threaded
      <4> QED BY <1>3, <1>12, <4>2 DEF Threads
    <3> QED BY <3>1, <3>2
  <2>4. Threaded' BY <1>10, <1>11, <1>12, <2>c, <2>3 DEF Threaded
  <2>5. ControlTypes' BY <1>1, <1>4, <1>9, <2>1, <2>2, Advance DEF Control, ControlTypes
  <2> QED BY <1>1, <1>7, <2>4, <2>5, Advance DEF Control
<1>13. CASE UNCHANGED <<workers, wk>>
  <2>1. Threaded' BY <1>8, <1>10, <1>11, <1>13 DEF Control, Threaded
  <2>2. ControlTypes' BY <1>1, <1>4, <1>9, <1>13, Advance DEF Control, ControlTypes
  <2> QED BY <1>1, <1>7, <2>1, <2>2, Advance DEF Control
<1> QED BY <1>1, <1>12, <1>13

\* What the threads that serve the queue rest on.
LEMMA Served ==
  ASSUME Control, NEW w \in Threads, w <= workers
  PROVE  nregions = 1 /\ wk[w].rings /\ wk[w].size = RxSize
<1>1. workers > 0 BY DEF Control, ControlTypes, Threads
<1>2. Passed(10) BY <1>1 DEF Control, Threaded, Passed, ControlTypes
<1> QED BY <1>2 DEF Control, Handled, Threaded

LEMMA ControlStutter ==
  Control /\ UNCHANGED <<at, starts, nregions, vq, en2, workers, wk, availRing, usedIdx>>
    => Control'
  BY DEF Control, ControlTypes, Scripted, Handled, Threaded, Passed

\* What WFetch leaves the thread with, for a size that is not 0.
Fetched(w, n) ==
    \E d \in Held(availRing, vq[Tx].last_avail_idx % n) :
      wk' = [wk EXCEPT ![w].pc = "return", ![w].d = d, ![w].u = vq[Tx].last_used_idx % n]

LEMMA FetchStep ==
  ASSUME NEW w, WFetch(w), NEW n, wk[w].size = n, n # 0
  PROVE  Fetched(w, n)
<1>1. wk[w].size # 0 OBVIOUS
<1>2. \E d \in Held(availRing, vq[Tx].last_avail_idx % wk[w].size) :
        wk' = [wk EXCEPT ![w].pc = "return", ![w].d = d,
                         ![w].u = vq[Tx].last_used_idx % wk[w].size]
  BY <1>1, Zenon DEF WFetch
<1> QED BY <1>2 DEF Fetched

LEMMA ControlWorker ==
  ASSUME Control, NEW w \in Threads, Worker(w)
  PROVE  Control'
<1> USE BackendConstants
<1>0. /\ vq \in QueueTypes /\ wk \in [Threads -> WkTypes]
      /\ workers \in 0..MaxWorkers /\ availRing \in [Descs -> Descs]
  BY DEF Control, ControlTypes
<1>1. UNCHANGED <<at, starts, nregions, en2, workers, availRing>>
  BY DEF Worker, WCheck, WFetch, WReturn, WPublish, peerVars, deviceVars, ringVars
<1>2. wk[w].pc # "none" /\ w <= workers /\ workers > 0
  <2>1. wk[w].pc # "none"
    BY DEF Worker, WCheck, WFetch, WReturn, WPublish
  <2> QED BY <1>0, <2>1 DEF Control, Threaded, Threads
<1>3. ASSUME vq' \in QueueTypes, \A q \in Queues : \A f \in {"size", "mapped", "call_fd", "kick_fd"} : vq'[q][f] = vq[q][f],
             wk' \in [Threads -> WkTypes],
             wk'[w].rings = wk[w].rings, wk'[w].size = wk[w].size,
             \A v \in Threads \ {w} : wk'[v] = wk[v], usedIdx' \in 0..(IdxMod - 1)
      PROVE  Control'
  <2>1. ControlTypes' BY <1>1, <1>3 DEF Control, ControlTypes
  <2>2. Scripted' BY <1>1 DEF Control, Scripted
  <2>3. \A k \in 1..26 : (Passed(k)' <=> Passed(k)) BY <1>1 DEF Passed
  <2>4. Handled' 
    <3>1. \A q \in Queues : /\ 5 + q \in 1..26 /\ 11 + 5 * q \in 1..26
                            /\ 13 + 5 * q \in 1..26 /\ 14 + 5 * q \in 1..26
      BY DEF Queues
    <3>2. \A q \in Queues : /\ vq'[q].size = vq[q].size /\ vq'[q].mapped = vq[q].mapped
                            /\ vq'[q].call_fd = vq[q].call_fd /\ vq'[q].kick_fd = vq[q].kick_fd
      BY <1>3
    <3> QED BY <1>1, <2>3, <3>1, <3>2 DEF Control, Handled
  <2>5. Threaded' BY <1>1, <1>2, <1>3, <2>3 DEF Control, Threaded
  <2> QED BY <2>1, <2>2, <2>4, <2>5 DEF Control
<1>4. CASE WCheck(w)
  <2>1. vq' = vq /\ usedIdx' = usedIdx BY <1>4 DEF WCheck, deviceVars, ringVars
  <2>2. /\ wk' \in [Threads -> WkTypes] /\ \A v \in Threads \ {w} : wk'[v] = wk[v]
        /\ wk'[w].rings = wk[w].rings /\ wk'[w].size = wk[w].size
    BY <1>0, <1>4 DEF WCheck, Places, WkTypes
  <2> QED BY <1>0, <1>3, <2>1, <2>2 DEF Control, ControlTypes
<1>5. CASE WFetch(w)
  <2>1. vq' = vq /\ usedIdx' = usedIdx BY <1>5 DEF WFetch, deviceVars, ringVars
  <2>2. wk[w].size = RxSize BY <1>2, Served
  <2>3. \A i \in 0..(IdxMod - 1) : i % RxSize \in Nat BY DivMod
  <2>4. vq[Tx].last_avail_idx \in 0..(IdxMod - 1) /\ vq[Tx].last_used_idx \in 0..(IdxMod - 1)
    BY <1>0 DEF QueueTypes, VringTypes, Queues, Tx
  <2>5. PICK d \in Descs, u \in Nat :
          wk' = [wk EXCEPT ![w].pc = "return", ![w].d = d, ![w].u = u]
    <3>1. PICK d \in Held(availRing, vq[Tx].last_avail_idx % RxSize) :
            wk' = [wk EXCEPT ![w].pc = "return", ![w].d = d,
                             ![w].u = vq[Tx].last_used_idx % RxSize]
      <4>1. RxSize # 0 OBVIOUS
      <4>2. Fetched(w, RxSize) BY ONLY <1>5, <2>2, <4>1, FetchStep, Zenon
      <4> QED BY ONLY <4>2, Zenon DEF Fetched
    <3>2. d \in Descs BY <1>0, <3>1 DEF Held
    <3>3. vq[Tx].last_used_idx % RxSize \in Nat BY <2>3, <2>4
    <3> QED BY <3>1, <3>2, <3>3
  <2>6. wk' = [wk EXCEPT ![w] = [wk[w] EXCEPT !.pc = "return", !.d = d, !.u = u]]
    BY <1>0, <2>5
  <2>7. [wk[w] EXCEPT !.pc = "return", !.d = d, !.u = u] \in WkTypes
    BY <1>0 DEF Places, WkTypes
  <2>8. /\ wk' \in [Threads -> WkTypes] /\ \A v \in Threads \ {w} : wk'[v] = wk[v]
        /\ wk'[w].rings = wk[w].rings /\ wk'[w].size = wk[w].size
    BY <1>0, <2>6, <2>7 DEF WkTypes
  <2> QED BY <1>0, <1>3, <2>1, <2>8 DEF Control, ControlTypes
<1>6. CASE WReturn(w)
  <2>1. usedIdx' = usedIdx BY <1>6 DEF WReturn
  <2>2. /\ wk' \in [Threads -> WkTypes] /\ \A v \in Threads \ {w} : wk'[v] = wk[v]
        /\ wk'[w].rings = wk[w].rings /\ wk'[w].size = wk[w].size
    BY <1>0, <1>6 DEF WReturn, Places, WkTypes
  <2>3. PICK i \in 0..(IdxMod - 1), j \in 0..(IdxMod - 1) :
          vq' = [vq EXCEPT ![Tx].last_avail_idx = i, ![Tx].last_used_idx = j]
    <3>1. vq[Tx].last_avail_idx \in 0..(IdxMod - 1) /\ vq[Tx].last_used_idx \in 0..(IdxMod - 1)
      BY <1>0 DEF QueueTypes, VringTypes, Queues, Tx
    <3>2. \A i \in 0..(IdxMod - 1) : Inc(i) \in 0..(IdxMod - 1) BY DivMod DEF Inc
    <3>3. vq' = [vq EXCEPT ![Tx].last_avail_idx = Inc(vq[Tx].last_avail_idx),
                           ![Tx].last_used_idx = Inc(vq[Tx].last_used_idx)]
      BY <1>0, <1>6 DEF WReturn, QueueTypes, Queues, Tx
    <3> QED BY <3>1, <3>2, <3>3
  <2>4. vq' = [vq EXCEPT ![Tx] = [vq[Tx] EXCEPT !.last_avail_idx = i, !.last_used_idx = j]]
    BY <1>0, <2>3 DEF QueueTypes, Queues, Tx
  <2>5. [vq[Tx] EXCEPT !.last_avail_idx = i, !.last_used_idx = j] \in VringTypes
    <3>1. vq[Tx] \in VringTypes BY <1>0 DEF QueueTypes, Queues, Tx
    <3> QED BY <3>1 DEF VringTypes
  <2>6. vq' \in QueueTypes BY <1>0, <2>4, <2>5 DEF QueueTypes
  <2>7. \A q \in Queues : \A f \in {"size", "mapped", "call_fd", "kick_fd"} : vq'[q][f] = vq[q][f]
    <3> SUFFICES ASSUME NEW q \in Queues, NEW f \in {"size", "mapped", "call_fd", "kick_fd"}
                 PROVE  vq'[q][f] = vq[q][f]
      OBVIOUS
    <3>1. CASE q # Tx BY <1>0, <2>4, <3>1 DEF QueueTypes
    <3>2. CASE q = Tx
      <4>1. vq'[q] = [vq[Tx] EXCEPT !.last_avail_idx = i, !.last_used_idx = j]
        BY <1>0, <2>4, <3>2 DEF QueueTypes, Queues, Tx
      <4>2. vq[Tx] \in VringTypes BY <1>0 DEF QueueTypes, Queues, Tx
      <4> QED BY <3>2, <4>1, <4>2 DEF VringTypes
    <3> QED BY <3>1, <3>2
  <2> QED BY <1>3, <2>1, <2>2, <2>6, <2>7 DEF Control, ControlTypes
<1>7. CASE WPublish(w)
  <2>1. vq' = vq /\ usedIdx' \in 0..(IdxMod - 1)
    BY <1>0, <1>7 DEF WPublish, deviceVars, QueueTypes, VringTypes, Queues, Tx
  <2>2. /\ wk' \in [Threads -> WkTypes] /\ \A v \in Threads \ {w} : wk'[v] = wk[v]
        /\ wk'[w].rings = wk[w].rings /\ wk'[w].size = wk[w].size
    BY <1>0, <1>7 DEF WPublish, Places, WkTypes
  <2> QED BY <1>0, <1>3, <2>1, <2>2
<1> QED BY <1>4, <1>5, <1>6, <1>7 DEF Worker

LEMMA ControlReset == Control /\ DriverReset => Control'
<1> SUFFICES ASSUME Control, DriverReset PROVE Control'
  OBVIOUS
<1>1. /\ at = 27 /\ at' = 9 /\ UNCHANGED <<starts, nregions, vq, en2, workers, wk>>
      /\ availRing' = [i \in Descs |-> 0] /\ usedIdx' = 0
  BY ScriptLen DEF DriverReset, deviceVars, workerVars
<1>2. starts \in Nat /\ starts >= 1 BY <1>1, ScriptLen DEF Control, ControlTypes, Scripted
<1>3. \A k \in 1..26 : Passed(k) /\ Passed(k)' BY <1>1, <1>2, ScriptLen DEF Passed
<1>4. ControlTypes' BY <1>1, <1>2, BackendConstants DEF Control, ControlTypes, Descs
<1>5. Scripted' BY <1>1, <1>2, ScriptLen DEF Scripted
<1>6. Handled'
  <2>1. \A q \in Queues : /\ 5 + q \in 1..26 /\ 11 + 5 * q \in 1..26
                          /\ 13 + 5 * q \in 1..26 /\ 14 + 5 * q \in 1..26
    BY DEF Queues
  <2> QED BY <1>1, <1>3, <2>1 DEF Control, Handled
<1>7. Threaded' BY <1>1, <1>3 DEF Control, Threaded
<1> QED BY <1>4, <1>5, <1>6, <1>7 DEF Control

LEMMA ControlPost ==
  ASSUME Control, NEW d \in Descs, NEW c, Post(d, c)
  PROVE  Control'
<1>1. UNCHANGED <<at, starts, nregions, vq, en2, workers, wk, usedIdx>>
  BY DEF Post, peerVars, deviceVars, workerVars
<1>2. availRing' \in [Descs -> Descs] BY DEF Post, Control, ControlTypes
<1> QED BY <1>1, <1>2 DEF Control, ControlTypes, Scripted, Handled, Threaded, Passed

LEMMA ControlNext == Control /\ [Next]_vars => Control'
<1> SUFFICES ASSUME Control, [Next]_vars PROVE Control'
  OBVIOUS
<1>1. CASE Server
  BY <1>1, ControlQuiet, ControlMemTable, ControlVringNum, ControlVringBase,
     ControlVringAddr, ControlVringKick, ControlVringCall, ControlGetVringBase,
     ControlVringEnable DEF Server
<1>2. CASE PeerRead \/ Disconnect \/ Terminated \/ Reclaim \/ UNCHANGED vars
  BY <1>2, ControlStutter DEF PeerRead, Disconnect, Terminated, Reclaim, vars, peerVars,
     deviceVars, workerVars, ringVars
<1>3. CASE \E w \in Threads : Worker(w)
  BY <1>3, ControlWorker
<1>4. CASE \E d \in Descs, c \in Chains : Post(d, c)
  BY <1>4, ControlPost
<1>5. CASE DriverReset
  BY <1>5, ControlReset
<1> QED BY <1>1, <1>2, <1>3, <1>4, <1>5 DEF Next, Boots, Threads

\* The program that writes to a FIFO takes the same steps, or only writes.
LEMMA PcapStep ==
  [PNext]_allVars => \/ [Next]_vars
                     \/ UNCHANGED <<peerVars, toPeer, deviceVars, workerVars, ringVars, driverVars>>
<1> SUFFICES ASSUME [PNext]_allVars
             PROVE  \/ [Next]_vars
                    \/ UNCHANGED <<peerVars, toPeer, deviceVars, workerVars, ringVars, driverVars>>
  OBVIOUS
<1>1. CASE PServer
  BY <1>1 DEF PServer, PFeatures, PMemory, PRings, PStop, PEvents, PProtocol, PEnable,
     PIgnored, Next, Boots, Server
<1>2. CASE ReaderLeaves
  BY <1>2 DEF ReaderLeaves
<1>3. ASSUME NEW w \in Threads, PWorker(w)
      PROVE  \/ [Next]_vars
             \/ UNCHANGED <<peerVars, toPeer, deviceVars, workerVars, ringVars, driverVars>>
  <2>1. CASE Worker(w) BY <2>1 DEF Next, Boots, Threads
  <2>2. CASE TestHeader(w) BY <2>2 DEF TestHeader
  <2>3. CASE WriteHeader(w) BY <2>3 DEF WriteHeader
  <2> QED BY <1>3, <2>1, <2>2, <2>3 DEF PWorker, Frame, Worker
<1>4. CASE \/ PClosed \/ PeerRead \/ DriverReset \/ Reclaim \/ Terminated
           \/ \E d \in Descs, c \in Chains : Post(d, c)
  BY <1>4 DEF PClosed, Next, Boots
<1>5. CASE UNCHANGED allVars
  BY <1>5 DEF allVars
<1> QED BY <1>1, <1>2, <1>3, <1>4, <1>5 DEF PNext

LEMMA ControlPNext == Control /\ [PNext]_allVars => Control'
  BY PcapStep, ControlNext, ControlStutter DEF peerVars, deviceVars, workerVars, ringVars

LEMMA ControlAlways == Spec => []Control
  BY ControlInit, ControlNext, PTL DEF Spec

LEMMA PControlAlways == PInit /\ [][PNext]_allVars => []Control
<1>1. PInit => Control BY ControlInit DEF PInit
<1> QED BY <1>1, ControlPNext, PTL

LEMMA ControlImplies == Control => WorkerHasRings
<1> SUFFICES ASSUME Control, NEW w \in 1..workers
             PROVE  wk[w].rings /\ wk[w].size > 0 /\ nregions > 0
  BY DEF WorkerHasRings
<1>1. w \in Threads /\ w <= workers BY BackendConstants DEF Control, ControlTypes, Threads
<1> QED BY <1>1, Served, BackendConstants

\* However often a guest stops and restarts the device, and whatever the sizes
\* of its two queues, a dequeue thread begins with rings that are mapped and a
\* size that has been set (bkend.c: it is created on the second enable).
THEOREM RingsBeforeThreads == Spec => []WorkerHasRings
  BY ControlAlways, ControlImplies, PTL

\* The same of the program that writes a capture file.
THEOREM PcapRingsBeforeThreads == PSpec => []WorkerHasRings
  BY PControlAlways, ControlImplies, PTL DEF PSpec

\* What GET_VRING_BASE closes.
FdStep == \A q \in Queues : /\ vq'[q].call_fd = "none" => vq[q].call_fd # "stdin"
                            /\ vq'[q].kick_fd = "none" => vq[q].kick_fd # "stdin"

LEMMA FdsGetVringBase == Control /\ GetVringBase => FdStep
<1> SUFFICES ASSUME Control, GetVringBase PROVE FdStep
  OBVIOUS
<1>1. /\ Arrives("GET_VRING_BASE")
      /\ vq' = [vq EXCEPT ![Script[at].q].call_fd = "none", ![Script[at].q].kick_fd = "none"]
  BY DEF GetVringBase, Receive
<1>2. PICK q \in Queues : at = 25 + q /\ Script[at].q = q
  BY <1>1, Advance, WhereRequested DEF Control
<1>3. Passed(5 + q) /\ Passed(14 + 5 * q) BY <1>2 DEF Passed, Queues
<1>4. vq[q].call_fd # "stdin" /\ vq[q].kick_fd # "stdin"
  BY <1>3 DEF Control, Handled
<1>5. \A p \in Queues \ {q} : vq'[p] = vq[p]
  BY <1>1, <1>2 DEF Control, ControlTypes, QueueTypes
<1> QED BY <1>4, <1>5 DEF FdStep

LEMMA FdsNext == Control /\ [Next]_vars => FdStep
<1> SUFFICES ASSUME Control, [Next]_vars PROVE FdStep
  OBVIOUS
<1>0. vq \in QueueTypes BY DEF Control, ControlTypes
<1>1. CASE UNCHANGED vq
  BY <1>1 DEF FdStep
<1>2. CASE SetVringNum
  BY <1>0, <1>2 DEF SetVringNum, FdStep, QueueTypes, VringTypes
<1>3. CASE SetVringBase
  BY <1>0, <1>3 DEF SetVringBase, FdStep, QueueTypes, VringTypes
<1>4. CASE SetVringAddr
  BY <1>0, <1>4 DEF SetVringAddr, FdStep, QueueTypes, VringTypes
<1>5. CASE SetVringKick
  BY <1>0, <1>5 DEF SetVringKick, FdStep, QueueTypes, VringTypes
<1>6. CASE SetVringCall
  BY <1>0, <1>6 DEF SetVringCall, FdStep, QueueTypes, VringTypes
<1>7. CASE SetVringEnable
  BY <1>0, <1>7 DEF SetVringEnable, FdStep, QueueTypes, VringTypes
<1>8. CASE GetVringBase
  BY <1>8, FdsGetVringBase
<1>9. ASSUME NEW w \in Threads, WReturn(w) PROVE FdStep
  BY <1>0, <1>9 DEF WReturn, FdStep, QueueTypes, VringTypes
<1>10. CASE Server
  BY <1>1, <1>2, <1>3, <1>4, <1>5, <1>6, <1>7, <1>8, <1>10
  DEF Server, GetFeatures, SetFeatures, SetMemTable, GetProtocolFeatures, NotImplemented,
      deviceVars
<1>11. ASSUME NEW w \in Threads, Worker(w) PROVE FdStep
  BY <1>1, <1>9, <1>11 DEF Worker, WCheck, WFetch, WPublish, deviceVars
<1>12. ASSUME NEW d \in Descs, NEW c \in Chains, Post(d, c) PROVE FdStep
  BY <1>1, <1>12 DEF Post, deviceVars
<1>13. CASE PeerRead \/ Disconnect \/ Terminated \/ Reclaim \/ DriverReset \/ UNCHANGED vars
  BY <1>1, <1>13 DEF PeerRead, Disconnect, Terminated, Reclaim, DriverReset, vars, deviceVars
<1> QED BY <1>10, <1>11, <1>12, <1>13 DEF Next, Boots, Threads

\* However often the device is stopped, GET_VRING_BASE never closes descriptor
\* 0, which call_fd and kick_fd hold until the peer has sent some.
THEOREM OnlyPeerFdsClosed == Spec => ClosesPeerFds
<1>1. Control /\ [Next]_vars => [FdStep]_vars BY FdsNext
<1> QED BY <1>1, ControlAlways, PTL DEF Spec, ClosesPeerFds, FdStep

\* The same of the program that writes a capture file.
THEOREM PcapOnlyPeerFdsClosed == PSpec => ClosesPeerFds
<1>1. Control /\ [PNext]_allVars => [FdStep]_vars
  <2> SUFFICES ASSUME Control, [PNext]_allVars PROVE FdStep
    OBVIOUS
  <2>1. CASE [Next]_vars BY <2>1, FdsNext
  <2>2. CASE UNCHANGED deviceVars BY <2>2 DEF deviceVars, FdStep
  <2> QED BY <2>1, <2>2, PcapStep
<1> QED BY <1>1, PControlAlways, PTL DEF PSpec, ClosesPeerFds, FdStep

-----------------------------------------------------------------------------
(***************************************************************************)
(* The header of the capture file.  A thread that has seen fhdone clear is *)
(* bound to write, so those threads are counted with what is written: none *)
(* joins them once the first header is out.                                *)
(***************************************************************************)
Writing == {w \in Threads : place[w] = "write"}

HeaderInv ==
    /\ place \in [Threads -> {"idle", "test", "write"}]
    /\ Len(pipe) \in Nat /\ pipe \in Seq({"file_header"})
    /\ \A w \in Threads : place[w] # "idle" => w <= workers
    /\ fhdone \in BOOLEAN
    /\ fhdone # TRUE => pipe = <<>>
    /\ Cardinality(Writing) + Len(pipe) <= workers

LEMMA HeaderInit == PInit => HeaderInv
<1> SUFFICES ASSUME PInit PROVE HeaderInv
  OBVIOUS
<1>1. Writing = {} BY DEF PInit, Writing
<1>2. Cardinality(Writing) = 0 BY <1>1, FS_EmptySet
<1>3. pipe = <<>> /\ Len(pipe) = 0 /\ pipe \in Seq({"file_header"}) BY DEF PInit
<1>4. workers = 0 /\ fhdone = FALSE /\ place = [w \in Threads |-> "idle"] BY DEF PInit, Init
<1>5. \A w \in Threads : place[w] = "idle" BY <1>4
<1>6. Cardinality(Writing) + Len(pipe) <= workers BY <1>2, <1>3, <1>4
<1>7. place \in [Threads -> {"idle", "test", "write"}] BY <1>4
<1>8. fhdone \in BOOLEAN BY <1>4
<1> QED BY <1>3, <1>5, <1>6, <1>7, <1>8 DEF HeaderInv

LEMMA FiniteThreads ==
  ASSUME NEW S, S \subseteq Threads
  PROVE  IsFiniteSet(S) /\ Cardinality(S) \in Nat
<1>1. IsFiniteSet(Threads) BY BackendConstants, FS_Interval DEF Threads
<1> QED BY <1>1, FS_Subset, FS_CardinalityType

\* Threads are only added.
LEMMA WorkersGrow == Control /\ [PNext]_allVars => workers \in Nat /\ workers' \in Nat /\ workers <= workers'
<1> SUFFICES ASSUME Control, [PNext]_allVars PROVE workers \in Nat /\ workers' \in Nat /\ workers <= workers'
  OBVIOUS
<1>0. workers \in Nat /\ workers' \in Nat BY ControlPNext, BackendConstants DEF Control, ControlTypes
<1>1. CASE UNCHANGED workers BY <1>0, <1>1
<1>2. CASE SetVringEnable BY <1>0, <1>1, <1>2 DEF SetVringEnable, workerVars
<1>3. CASE Server /\ ~ SetVringEnable
  BY <1>1, <1>3 DEF Server, GetFeatures, SetFeatures, SetMemTable, SetVringNum, SetVringBase,
     SetVringAddr, GetVringBase, SetVringKick, SetVringCall, GetProtocolFeatures,
     NotImplemented, workerVars
<1>4. ASSUME NEW w \in Threads, Worker(w) PROVE workers' = workers
  BY <1>4 DEF Worker, WCheck, WFetch, WReturn, WPublish
<1>5. ASSUME NEW d \in Descs, NEW c \in Chains, Post(d, c) PROVE workers' = workers
  BY <1>5 DEF Post, workerVars
<1>6. CASE PeerRead \/ Disconnect \/ Terminated \/ Reclaim \/ DriverReset \/ UNCHANGED vars
  BY <1>1, <1>6 DEF PeerRead, Disconnect, Terminated, Reclaim, DriverReset, vars, workerVars
<1>7. CASE [Next]_vars
  BY <1>1, <1>2, <1>3, <1>4, <1>5, <1>6, <1>7 DEF Next, Boots, Threads
<1>8. CASE UNCHANGED workerVars BY <1>1, <1>8 DEF workerVars
<1> QED BY <1>7, <1>8, PcapStep

LEMMA HeaderStep == Control /\ HeaderInv /\ [PNext]_allVars => HeaderInv'
<1> SUFFICES ASSUME Control, HeaderInv, [PNext]_allVars PROVE HeaderInv'
  OBVIOUS
<1>0. workers \in Nat /\ workers' \in Nat /\ workers <= workers' BY WorkersGrow
<1>1. Cardinality(Writing) \in Nat BY FiniteThreads DEF Writing
<1>2. CASE UNCHANGED <<place, pipe, fhdone>>
  <2>1. Writing' = Writing BY <1>2 DEF Writing
  <2>2. Cardinality(Writing) + Len(pipe) <= workers' BY <1>0, <1>1 DEF HeaderInv
  <2>3. \A w \in Threads : place[w] # "idle" => w <= workers'
    BY <1>0 DEF HeaderInv, Threads
  <2> QED BY <1>2, <2>1, <2>2, <2>3 DEF HeaderInv
<1>3. ASSUME NEW w \in Threads, Frame(w) PROVE HeaderInv'
  <2>1. /\ wk[w].pc = "fetch" /\ UNCHANGED <<workers, fhdone, pipe>>
        /\ place' \in {[place EXCEPT ![w] = "idle"], [place EXCEPT ![w] = "test"]}
    BY <1>3 DEF Frame, WFetch
  <2>2. w <= workers BY <2>1 DEF Control, Threaded
  <2>3. place' \in [Threads -> {"idle", "test", "write"}]
        /\ \A v \in Threads : place'[v] # "idle" => v <= workers
    BY <2>1, <2>2 DEF HeaderInv
  <2>4. Writing' = Writing \ {w} BY <2>1 DEF Writing, HeaderInv
  <2>5. Cardinality(Writing') <= Cardinality(Writing) /\ Cardinality(Writing') \in Nat
    <3>1. IsFiniteSet(Writing) BY FiniteThreads DEF Writing
    <3> QED BY <2>4, <3>1, FS_Subset, FS_CardinalityType
  <2>6. Cardinality(Writing') + Len(pipe) <= workers
    BY <1>0, <1>1, <2>5 DEF HeaderInv
  <2> QED BY <2>1, <2>3, <2>6 DEF HeaderInv
<1>4. ASSUME NEW w \in Threads, TestHeader(w) PROVE HeaderInv'
  <2>1. /\ place[w] = "test" /\ UNCHANGED <<fhdone, pipe>> /\ workers' = workers
        /\ place' = [place EXCEPT ![w] = IF fhdone THEN "idle" ELSE "write"]
    BY <1>4 DEF TestHeader, vars, workerVars
  <2>2. place' \in [Threads -> {"idle", "test", "write"}]
        /\ \A v \in Threads : place'[v] # "idle" => v <= workers
    BY <2>1 DEF HeaderInv
  <2>3. CASE fhdone = TRUE
    <3>1. Writing' = Writing BY <2>1, <2>3 DEF Writing, HeaderInv
    <3> QED BY <2>1, <2>2, <3>1 DEF HeaderInv
  <2>4. CASE fhdone # TRUE
    <3>1. pipe = <<>> /\ Len(pipe) = 0 BY <2>4 DEF HeaderInv
    <3>2. Writing' \subseteq 1..workers BY <1>0, <2>2 DEF Writing, Threads
    <3>3. Cardinality(Writing') <= workers
      <4>1. IsFiniteSet(1..workers) /\ Cardinality(1..workers) = workers
        <5>1. 1 \in Int /\ workers \in Int BY <1>0
        <5>2. Cardinality(1..workers) = IF 1 > workers THEN 0 ELSE workers - 1 + 1
          BY ONLY <5>1, FS_Interval
        <5> QED BY <1>0, <5>1, <5>2, FS_Interval
      <4> QED BY <3>2, <4>1, FS_Subset
    <3>4. Cardinality(Writing') \in Nat BY <2>2, FiniteThreads DEF Writing
    <3>5. Cardinality(Writing') + Len(pipe) <= workers BY <1>0, <3>1, <3>3, <3>4
    <3> QED BY <2>1, <2>2, <3>5 DEF HeaderInv
  <2> QED BY <2>3, <2>4
<1>5. ASSUME NEW w \in Threads, WriteHeader(w) PROVE HeaderInv'
  <2>1. /\ place[w] = "write" /\ fhdone' = TRUE /\ workers' = workers
        /\ place' = [place EXCEPT ![w] = "idle"]
        /\ pipe' \in {pipe, Append(pipe, "file_header")}
    BY <1>5 DEF WriteHeader, workerVars
  <2>2. place' \in [Threads -> {"idle", "test", "write"}]
        /\ \A v \in Threads : place'[v] # "idle" => v <= workers
    BY <2>1 DEF HeaderInv
  <2>3. Writing' = Writing \ {w} /\ w \in Writing BY <2>1 DEF Writing, HeaderInv
  <2>4. Cardinality(Writing') = Cardinality(Writing) - 1
    <3>1. IsFiniteSet(Writing) BY FiniteThreads DEF Writing
    <3> QED BY <2>3, <3>1, FS_RemoveElement
  <2>5. pipe' \in Seq({"file_header"}) /\ Len(pipe') \in Nat /\ Len(pipe') <= Len(pipe) + 1
    BY <2>1 DEF HeaderInv
  <2>6. Cardinality(Writing') + Len(pipe') <= workers
    BY <1>0, <1>1, <2>4, <2>5 DEF HeaderInv
  <2> QED BY <2>1, <2>2, <2>5, <2>6 DEF HeaderInv
<1> QED
  BY <1>2, <1>3, <1>4, <1>5 DEF PNext, PServer, PWorker, ReaderLeaves, pipeVars, allVars

-----------------------------------------------------------------------------
(***************************************************************************)
(* The rings, in one life of the guest.  The indices that wrap around are  *)
(* those of numbers that do not: s chains have been reclaimed, u are       *)
(* published, l have been returned and a posted.  The chains between s and *)
(* a are the pending ones.                                                 *)
(***************************************************************************)
OneLife ==
    /\ starts = IF at <= StartAt THEN 0 ELSE 1
    /\ workers <= 1

\* Where the four numbers are.
Indices(s, u, l, a) ==
    /\ s <= u /\ u <= l /\ l <= a /\ Len(pending) = a - s
    /\ usedSeen = s % IdxMod /\ usedIdx = u % IdxMod /\ availIdx = a % IdxMod
    /\ vq[Tx].last_avail_idx = l % IdxMod /\ vq[Tx].last_used_idx = l % IdxMod
    /\ at < StopAt => a = 0

\* The driver's book-keeping.
Driver ==
    /\ pending \in Seq(Descs) /\ unused \subseteq Descs
    /\ \A i, j \in 1..Len(pending) : pending[i] = pending[j] => i = j
    /\ \A i \in 1..Len(pending) : pending[i] \notin unused
    /\ Cardinality(unused) + Len(pending) = Size

\* What the two rings hold.
Contents(s, l) ==
    /\ usedRing \in [Descs -> Descs]
    /\ \A k \in 1..Len(pending) : availRing[(s + k - 1) % Size] = pending[k]
    /\ \A k \in 1..(l - s) : usedRing[(s + k - 1) % Size] = pending[k]

\* What the thread has in its hands.
Hands(s, l, a) ==
    \A w \in Threads :
      /\ wk[w].pc \in {"fetch", "return"} => l < a
      /\ wk[w].pc = "return" => wk[w].d = pending[l - s + 1] /\ wk[w].u = l % Size

RingsAt(s, u, l, a) ==
    Indices(s, u, l, a) /\ Driver /\ Contents(s, l) /\ Hands(s, l, a)

Rings == \E s, u, l, a \in Nat : RingsAt(s, u, l, a)

LEMMA OneLifePassed == Control /\ OneLife => \A k \in 1..26 : (Passed(k) <=> at > k)
  BY ScriptLen DEF Control, ControlTypes, OneLife, Passed

LEMMA OneLifeArrives ==
  ASSUME Control, OneLife, NEW r, Arrives(r)
  PROVE  starts' = IF at' <= StartAt THEN 0 ELSE 1
  BY ScriptLen DEF Control, ControlTypes, OneLife, Arrives

\* The one enable that starts a thread is the second.
LEMMA EnableOnce ==
  ASSUME Control, OneLife, SetVringEnable
  PROVE  /\ workers' <= 1
         /\ \A w \in Threads : wk'[w] = wk[w] \/ wk'[w].pc = "check"
<1>0. workers \in 0..MaxWorkers /\ wk \in [Threads -> WkTypes]
      /\ en2 \in [Queues -> Nat] /\ at \in 1..27
  BY DEF Control, ControlTypes
<1>1. /\ Arrives("SET_VRING_ENABLE") /\ en2' = [en2 EXCEPT ![Script[at].q] = @ + 1]
      /\ IF Script[at].num = 1 /\ en2'[Script[at].q] > 1 /\ Script[at].q = Tx
         THEN /\ workers' = workers + 1
              /\ wk' = [wk EXCEPT ![workers + 1] = Begun(@)]
         ELSE UNCHANGED <<workers, wk>>
  BY DEF SetVringEnable, workerVars
<1>2. PICK q \in Queues : /\ at \in {7 + q, 21 + q, 23 + q} /\ Script[at].q = q
                          /\ Script[at].num = IF at \in {7 + q, 21 + q} THEN 1 ELSE 0
  BY <1>1, Advance, WhereRequested DEF Control
<1>3. CASE UNCHANGED <<workers, wk>> BY <1>3 DEF OneLife
<1>4. CASE Script[at].num = 1 /\ en2'[Script[at].q] > 1 /\ Script[at].q = Tx
  <2>1. at \in {8, 22} BY <1>2, <1>4 DEF Tx, Queues
  <2>2. ~ Passed(22) BY <2>1, OneLifePassed
  <2>3. workers = 0 BY <1>0, <2>2 DEF Control, Threaded
  <2>4. workers' = 1 /\ wk' = [wk EXCEPT ![1] = Begun(wk[1])] BY <1>0, <1>1, <1>4, <2>3
  <2>5. 1 \in Threads BY BackendConstants DEF Threads
  <2>6. Begun(wk[1]).pc = "check" BY <1>0, <2>5 DEF Begun, WkTypes
  <2> QED BY <1>0, <2>4, <2>5, <2>6
<1> QED BY <1>1, <1>3, <1>4

\* A guest's life stays one: no step of it starts a second thread.
LEMMA OneLifeServer ==
  ASSUME Control, OneLife, Server
  PROVE  OneLife'
<1>1. PICK r : Arrives(r)
  BY DEF Server, GetFeatures, SetFeatures, SetMemTable, SetVringNum, SetVringBase,
     SetVringAddr, GetVringBase, SetVringKick, SetVringCall, GetProtocolFeatures,
     SetVringEnable, NotImplemented, Receive
<1>2. workers' <= 1
  <2>1. CASE SetVringEnable BY <2>1, EnableOnce
  <2>2. CASE UNCHANGED <<workers, wk>> BY <2>2 DEF OneLife
  <2> QED BY <2>1, <2>2 DEF Server, GetFeatures, SetFeatures, SetMemTable, SetVringNum,
     SetVringBase, SetVringAddr, GetVringBase, SetVringKick, SetVringCall,
     GetProtocolFeatures, NotImplemented, workerVars
<1> QED BY <1>1, <1>2, OneLifeArrives DEF OneLife

LEMMA OneLifeStutter == OneLife /\ UNCHANGED <<at, starts, workers>> => OneLife'
  BY DEF OneLife

LEMMA OneLifeBoots ==
  ASSUME Control, OneLife, [Boots]_vars
  PROVE  OneLife'
<1>1. CASE Server BY <1>1, OneLifeServer
<1>2. CASE PeerRead \/ Disconnect \/ Terminated \/ Reclaim \/ UNCHANGED vars
  BY <1>2, OneLifeStutter DEF PeerRead, Disconnect, Terminated, Reclaim, vars, peerVars,
     workerVars
<1>3. ASSUME NEW w \in Threads, Worker(w) PROVE OneLife'
  BY <1>3, OneLifeStutter DEF Worker, WCheck, WFetch, WReturn, WPublish, peerVars
<1>4. ASSUME NEW d \in Descs, NEW c \in Chains, Post(d, c) PROVE OneLife'
  BY <1>4, OneLifeStutter DEF Post, peerVars, workerVars
<1> QED BY <1>1, <1>2, <1>3, <1>4 DEF Boots, Threads

\* "should be done only once" (vm_tap/bkend.c): of a guest that boots once it is
\* true, for any number of frames and wrap-arounds, any stop of the device and
\* any reader that leaves.  A second start breaks it.
THEOREM HeaderAlwaysOnce ==
  ASSUME MaxStarts = 1
  PROVE  PSpec => []HeaderOnce
<1>1. PInit => OneLife BY ScriptLen DEF PInit, Init, OneLife
<1>2. Control /\ OneLife /\ [PNext]_allVars => OneLife'
  <2> SUFFICES ASSUME Control, OneLife, [PNext]_allVars PROVE OneLife'
    OBVIOUS
  <2>1. ~ DriverReset
    BY ScriptLen DEF DriverReset, OneLife
  <2>2. CASE [Next]_vars BY <2>1, <2>2, OneLifeBoots DEF Next
  <2>3. CASE UNCHANGED <<peerVars, workerVars>>
    BY <2>3, OneLifeStutter DEF peerVars, workerVars
  <2> QED BY <2>2, <2>3, PcapStep
<1>3. Control /\ OneLife /\ HeaderInv => HeaderOnce
  <2> SUFFICES ASSUME Control, OneLife, HeaderInv PROVE Len(pipe) <= 1
    BY DEF HeaderOnce
  <2>1. Cardinality(Writing) \in Nat BY FiniteThreads DEF Writing
  <2>2. workers \in Nat BY BackendConstants DEF Control, ControlTypes
  <2> QED BY <2>1, <2>2 DEF HeaderInv, OneLife
<1> QED BY <1>1, <1>2, <1>3, HeaderInit, HeaderStep, PControlAlways, PTL DEF PSpec

LEMMA ServerRings ==
  ASSUME Control, OneLife, NEW s \in Nat, NEW u \in Nat, NEW l \in Nat, NEW a \in Nat,
         Indices(s, u, l, a), Server
  PROVE  /\ OneLife' /\ Indices(s, u, l, a)'
         /\ UNCHANGED <<availRing, usedRing, pending, unused>>
         /\ \A w \in Threads : wk'[w] = wk[w] \/ wk'[w].pc = "check"
<1>0. vq \in QueueTypes BY DEF Control, ControlTypes
<1>1. UNCHANGED <<availRing, availIdx, usedRing, usedIdx, usedSeen, pending, unused>>
  BY DEF Server, GetFeatures, SetFeatures, SetMemTable, SetVringNum, SetVringBase,
     SetVringAddr, GetVringBase, SetVringKick, SetVringCall, GetProtocolFeatures,
     SetVringEnable, NotImplemented, ringVars, driverVars
<1>2. PICK r : Arrives(r)
  BY DEF Server, GetFeatures, SetFeatures, SetMemTable, SetVringNum, SetVringBase,
     SetVringAddr, GetVringBase, SetVringKick, SetVringCall, GetProtocolFeatures,
     SetVringEnable, NotImplemented, Receive
<1>3. at \in 1..26 /\ at' = at + 1 BY <1>2, Advance DEF Control
<1>4. /\ workers' <= 1
      /\ \A w \in Threads : wk'[w] = wk[w] \/ wk'[w].pc = "check"
  <2>1. CASE SetVringEnable BY <2>1, EnableOnce
  <2>2. CASE UNCHANGED <<workers, wk>> BY <2>2 DEF OneLife
  <2> QED BY <2>1, <2>2 DEF Server, GetFeatures, SetFeatures, SetMemTable, SetVringNum,
     SetVringBase, SetVringAddr, GetVringBase, SetVringKick, SetVringCall,
     GetProtocolFeatures, NotImplemented, workerVars
<1>5. OneLife' BY <1>2, <1>4, OneLifeArrives DEF OneLife
<1>6. /\ vq'[Tx].last_avail_idx = vq[Tx].last_avail_idx
      /\ vq'[Tx].last_used_idx = vq[Tx].last_used_idx
  <2>1. CASE UNCHANGED vq BY <2>1
  <2>2. CASE SetVringNum
    BY <1>0, <2>2 DEF SetVringNum, QueueTypes, VringTypes, Queues, Tx
  <2>3. CASE SetVringKick
    BY <1>0, <2>3 DEF SetVringKick, QueueTypes, VringTypes, Queues, Tx
  <2>4. CASE SetVringCall
    BY <1>0, <2>4 DEF SetVringCall, QueueTypes, VringTypes, Queues, Tx
  <2>5. CASE SetVringEnable
    BY <1>0, <2>5 DEF SetVringEnable, QueueTypes, VringTypes, Queues, Tx
  <2>6. CASE GetVringBase
    BY <1>0, <2>6 DEF GetVringBase, QueueTypes, VringTypes, Queues, Tx
  <2>7. ASSUME SetVringBase \/ SetVringAddr
        PROVE  usedIdx = vq[Tx].last_avail_idx /\ usedIdx = vq[Tx].last_used_idx
    <3>1. Arrives("SET_VRING_BASE") \/ Arrives("SET_VRING_ADDR")
      BY <2>7 DEF SetVringBase, SetVringAddr, Receive
    <3>2. at < StopAt
      BY <3>1, <1>3, Advance, WhereRequested, ScriptLen DEF Control, Queues
    <3>3. l = 0 /\ u = 0 BY <3>2 DEF Indices
    <3> QED BY <3>3 DEF Indices
  <2>8. CASE SetVringBase
    BY <1>0, <2>7, <2>8 DEF SetVringBase, QueueTypes, VringTypes, Queues, Tx
  <2>9. CASE SetVringAddr
    BY <1>0, <2>7, <2>9 DEF SetVringAddr, QueueTypes, VringTypes, Queues, Tx
  <2> QED BY <2>1, <2>2, <2>3, <2>4, <2>5, <2>6, <2>8, <2>9
    DEF Server, GetFeatures, SetFeatures, SetMemTable, GetProtocolFeatures, NotImplemented,
        deviceVars
<1>7. Indices(s, u, l, a)'
  <2>1. at' < StopAt => a = 0 BY <1>3, ScriptLen DEF Indices
  <2> QED BY <1>1, <1>6, <2>1 DEF Indices
<1> QED BY <1>1, <1>4, <1>5, <1>7

\* The places of the rings that the indices address.
LEMMA RingPlace ==
  ASSUME NEW x \in Nat
  PROVE  /\ \A k \in Int : ((x % IdxMod) + k) % Size = (x + k) % Size
         /\ (x % IdxMod) % Size = x % Size
         /\ x % Size \in Descs
         /\ Inc(x % IdxMod) = (x + 1) % IdxMod
<1> USE BackendConstants
<1>0. IdxMod \in Nat /\ Size \in Nat /\ IdxMod > 0 /\ Size > 0 /\ IdxMod % Size = 0
  OBVIOUS
<1>1. \A k \in Int : ((x % IdxMod) + k) % Size = (x + k) % Size
  <2> TAKE k \in Int
  <2>1. x \in Nat /\ k \in Int OBVIOUS
  <2> QED BY ONLY <1>0, <2>1, ModPlus, Zenon
<1>2. (x % IdxMod) % Size = x % Size
  <2>1. PICK k \in Int : k = 0 OBVIOUS
  <2>2. ((x % IdxMod) + k) % Size = (x + k) % Size BY ONLY <1>1, <2>1
  <2>3. (x % IdxMod) + k = x % IdxMod /\ x + k = x
    <3>1. x % IdxMod \in Int BY DivMod
    <3> QED BY <2>1, <3>1
  <2> QED BY ONLY <2>2, <2>3
<1>3. x % Size \in Descs BY DivMod DEF Descs
<1>4. Inc(x % IdxMod) = (x + 1) % IdxMod
  <2>1. x \in Nat OBVIOUS
  <2> QED BY ONLY <1>0, <2>1, ModInc, Zenon DEF Inc
<1> QED BY <1>1, <1>2, <1>3, <1>4

LEMMA OnlyThread ==
  Control /\ OneLife => \A v, w \in Threads : wk[v].pc # "none" /\ wk[w].pc # "none" => v = w
  BY BackendConstants DEF Control, Threaded, ControlTypes, OneLife, Threads

LEMMA RingsServer ==
  ASSUME Control, OneLife, NEW s \in Nat, NEW u \in Nat, NEW l \in Nat, NEW a \in Nat,
         RingsAt(s, u, l, a), Server
  PROVE  RingsAt(s, u, l, a)'
<1>1. /\ Indices(s, u, l, a)' /\ UNCHANGED <<availRing, usedRing, pending, unused>>
      /\ \A w \in Threads : wk'[w] = wk[w] \/ wk'[w].pc = "check"
  BY ServerRings DEF RingsAt
<1>2. Driver' BY <1>1 DEF RingsAt, Driver
<1>3. Contents(s, l)' BY <1>1 DEF RingsAt, Contents
<1>4. Hands(s, l, a)'
  <2> SUFFICES ASSUME NEW w \in Threads
               PROVE  /\ wk'[w].pc \in {"fetch", "return"} => l < a
                      /\ wk'[w].pc = "return" => wk'[w].d = pending[l - s + 1]
                                                 /\ wk'[w].u = l % Size
    BY <1>1 DEF Hands
  <2> QED BY <1>1 DEF RingsAt, Hands
<1> QED BY <1>1, <1>2, <1>3, <1>4 DEF RingsAt

\* The steps that leave the queue and the thread alone.
LEMMA RingsStutter ==
  ASSUME NEW s \in Nat, NEW u \in Nat, NEW l \in Nat, NEW a \in Nat, RingsAt(s, u, l, a),
         UNCHANGED <<at, vq, wk, availRing, availIdx, usedRing, usedIdx, usedSeen, pending, unused>>
  PROVE  RingsAt(s, u, l, a)'
  BY DEF RingsAt, Indices, Driver, Contents, Hands

LEMMA RingsCheck ==
  ASSUME Control, NEW s \in Nat, NEW u \in Nat, NEW l \in Nat, NEW a \in Nat,
         RingsAt(s, u, l, a), NEW w \in Threads, WCheck(w)
  PROVE  RingsAt(s, u, l, a)'
<1>0. wk \in [Threads -> WkTypes] BY DEF Control, ControlTypes
<1>1. /\ UNCHANGED <<at, vq, availRing, availIdx, usedRing, usedIdx, usedSeen, pending, unused>>
      /\ wk' = [wk EXCEPT ![w].pc =
                  IF vq[Tx].last_avail_idx = availIdx THEN "publish" ELSE "fetch"]
  BY DEF WCheck, peerVars, deviceVars, ringVars, driverVars
<1>2. Indices(s, u, l, a)' /\ Driver' /\ Contents(s, l)'
  BY <1>1 DEF RingsAt, Indices, Driver, Contents
<1>3. ASSUME wk'[w].pc = "fetch" PROVE l < a
  <2>1. l % IdxMod # a % IdxMod BY <1>0, <1>1, <1>3 DEF RingsAt, Indices
  <2>2. l # a BY <2>1
  <2> QED BY <2>2 DEF RingsAt, Indices
<1>4. wk'[w].pc # "return" BY <1>0, <1>1
<1>5. \A v \in Threads \ {w} : wk'[v] = wk[v] BY <1>0, <1>1
<1>6. Hands(s, l, a)'
  <2> SUFFICES ASSUME NEW v \in Threads
               PROVE  /\ wk'[v].pc \in {"fetch", "return"} => l < a
                      /\ wk'[v].pc = "return" => wk'[v].d = pending[l - s + 1]
                                                 /\ wk'[v].u = l % Size
    BY <1>1 DEF Hands
  <2>1. CASE v = w BY <1>3, <1>4, <2>1
  <2>2. CASE v # w BY <1>5, <2>2 DEF RingsAt, Hands
  <2> QED BY <2>1, <2>2
<1> QED BY <1>2, <1>6 DEF RingsAt

LEMMA RingsFetch ==
  ASSUME RxSize = Size, Control, NEW s \in Nat, NEW u \in Nat, NEW l \in Nat, NEW a \in Nat,
         RingsAt(s, u, l, a), NEW w \in Threads, WFetch(w)
  PROVE  RingsAt(s, u, l, a)'
<1> USE BackendConstants
<1>0. wk \in [Threads -> WkTypes] BY DEF Control, ControlTypes
<1>1. /\ wk[w].pc = "fetch"
      /\ UNCHANGED <<at, vq, availRing, availIdx, usedRing, usedIdx, usedSeen, pending, unused>>
  BY DEF WFetch, peerVars, deviceVars, ringVars, driverVars
<1>2. Indices(s, u, l, a)' /\ Driver' /\ Contents(s, l)'
  <2> HIDE BackendConstants
  <2>1. Indices(s, u, l, a)' BY <1>1 DEF RingsAt, Indices
  <2>2. Driver' BY <1>1 DEF RingsAt, Driver
  <2>3. Contents(s, l)' BY <1>1 DEF RingsAt, Contents
  <2> QED BY <2>1, <2>2, <2>3
<1>3. wk[w].size = Size
  <2>1. w <= workers BY <1>1 DEF Control, Threaded
  <2> QED BY <2>1, Served
<1>4. vq[Tx].last_avail_idx % Size = l % Size /\ vq[Tx].last_used_idx % Size = l % Size
  BY RingPlace DEF RingsAt, Indices
<1>5. l < a /\ s <= l /\ Len(pending) = a - s
  BY <1>1 DEF RingsAt, Hands, Indices
<1>6. availRing[l % Size] = pending[l - s + 1]
  <2>1. l - s + 1 \in 1..Len(pending) BY <1>5
  <2>2. s + (l - s + 1) - 1 = l BY <1>5
  <2>3. availRing[(s + (l - s + 1) - 1) % Size] = pending[l - s + 1]
    BY <2>1 DEF RingsAt, Contents
  <2> QED BY <2>2, <2>3
<1>7. wk'[w].d = pending[l - s + 1] /\ wk'[w].u = l % Size
      /\ \A v \in Threads \ {w} : wk'[v] = wk[v]
  <2>1. PICK d \in Held(availRing, l % Size) :
          wk' = [wk EXCEPT ![w].pc = "return", ![w].d = d, ![w].u = l % Size]
    <3>1. WFetch(w) /\ Size # 0 OBVIOUS
    <3>2. \E d \in Held(availRing, vq[Tx].last_avail_idx % Size) :
            wk' = [wk EXCEPT ![w].pc = "return", ![w].d = d, ![w].u = vq[Tx].last_used_idx % Size]
      <4>1. Fetched(w, Size) BY ONLY <3>1, <1>3, FetchStep, Zenon
      <4> QED BY ONLY <4>1, Zenon DEF Fetched
    <3> QED BY ONLY <1>4, <3>2
  <2>2. l % Size \in Descs BY RingPlace
  <2>3. d = availRing[l % Size] BY <2>1, <2>2 DEF Held
  <2>4. wk[w] \in WkTypes /\ wk' = [wk EXCEPT ![w] = [wk[w] EXCEPT !.pc = "return", !.d = d, !.u = l % Size]]
    BY <1>0, <2>1
  <2> QED BY <1>0, <1>6, <2>3, <2>4 DEF WkTypes
<1>8. Hands(s, l, a)'
  <2> SUFFICES ASSUME NEW v \in Threads
               PROVE  /\ wk'[v].pc \in {"fetch", "return"} => l < a
                      /\ wk'[v].pc = "return" => wk'[v].d = pending[l - s + 1]
                                                 /\ wk'[v].u = l % Size
    BY <1>1 DEF Hands
  <2>1. CASE v = w BY <1>5, <1>7, <2>1
  <2>2. CASE v # w BY <1>7, <2>2 DEF RingsAt, Hands
  <2> QED BY <2>1, <2>2
<1> QED BY <1>2, <1>8 DEF RingsAt

\* No more chains are pending than there are descriptors.
LEMMA PendingBound ==
  Driver => /\ IsFiniteSet(unused) /\ Cardinality(unused) \in Nat
            /\ Len(pending) \in Nat /\ Len(pending) <= Size
<1> SUFFICES ASSUME Driver
             PROVE  /\ IsFiniteSet(unused) /\ Cardinality(unused) \in Nat
                    /\ Len(pending) \in Nat /\ Len(pending) <= Size
  OBVIOUS
<1>1. 0 \in Int /\ Size - 1 \in Int BY BackendConstants
<1>2. IsFiniteSet(0..(Size - 1)) BY <1>1, FS_Interval
<1>3. IsFiniteSet(unused) BY <1>2, FS_Subset DEF Driver, Descs
<1>4. Cardinality(unused) \in Nat BY <1>3, FS_CardinalityType
<1> QED BY <1>3, <1>4, BackendConstants DEF Driver

\* Chains that are pending together have different places in a ring.
LEMMA PlacesDiffer ==
  ASSUME NEW x \in Nat, NEW y \in Nat, x < y, y - x < Size
  PROVE  x % Size # y % Size
  BY ModSame, BackendConstants

LEMMA RingsReturn ==
  ASSUME Control, OneLife, NEW s \in Nat, NEW u \in Nat, NEW l \in Nat, NEW a \in Nat,
         RingsAt(s, u, l, a), NEW w \in Threads, WReturn(w)
  PROVE  RingsAt(s, u, l + 1, a)'
<1>0. /\ wk \in [Threads -> WkTypes] /\ vq \in QueueTypes
      /\ usedRing \in [Descs -> Descs]
  BY DEF Control, ControlTypes, RingsAt, Contents
<1>1. /\ wk[w].pc = "return"
      /\ UNCHANGED <<at, availRing, availIdx, usedIdx, usedSeen, pending, unused>>
      /\ usedRing' = [usedRing EXCEPT ![wk[w].u] = wk[w].d]
      /\ vq' = [vq EXCEPT ![Tx].last_avail_idx = Inc(@), ![Tx].last_used_idx = Inc(@)]
      /\ wk' = [wk EXCEPT ![w].pc = "check"]
  <2>1. wk[w].u = l % Size BY DEF WReturn, RingsAt, Hands
  <2>2. wk[w].u \in Descs BY <2>1, RingPlace
  <2> QED BY <2>2 DEF WReturn, peerVars, driverVars
<1>2. l < a /\ wk[w].d = pending[l - s + 1] /\ wk[w].u = l % Size
  BY <1>1 DEF RingsAt, Hands
<1>3. s <= u /\ u <= l /\ Len(pending) = a - s /\ Len(pending) <= Size
  BY PendingBound DEF RingsAt, Indices
<1>4. Indices(s, u, l + 1, a)'
  <2>1. vq'[Tx].last_avail_idx = Inc(vq[Tx].last_avail_idx)
        /\ vq'[Tx].last_used_idx = Inc(vq[Tx].last_used_idx)
    BY <1>0, <1>1 DEF QueueTypes, VringTypes, Queues, Tx
  <2>2. Inc(l % IdxMod) = (l + 1) % IdxMod BY RingPlace
  <2>3. vq'[Tx].last_avail_idx = (l + 1) % IdxMod /\ vq'[Tx].last_used_idx = (l + 1) % IdxMod
    BY <2>1, <2>2 DEF RingsAt, Indices
  <2>4. u <= l + 1 /\ l + 1 <= a BY <1>2, <1>3
  <2> QED BY <1>1, <2>3, <2>4 DEF RingsAt, Indices
<1>5. Driver' BY <1>1 DEF RingsAt, Driver
<1>6. Contents(s, l + 1)'
  <2>1. usedRing' \in [Descs -> Descs] BY <1>0, <1>1 DEF WkTypes
  <2>2. \A k \in 1..Len(pending) : availRing[(s + k - 1) % Size] = pending[k]
    BY DEF RingsAt, Contents
  <2>3. ASSUME NEW k \in 1..(l + 1 - s) PROVE usedRing'[(s + k - 1) % Size] = pending[k]
    <3>0. l % Size \in Descs BY RingPlace
    <3>1. CASE k = l - s + 1
      <4>1. s + k - 1 = l BY <3>1
      <4> QED BY <1>0, <1>1, <1>2, <3>0, <3>1, <4>1
    <3>2. CASE k # l - s + 1
      <4>1. k \in 1..(l - s) BY <1>3, <3>2
      <4>2. s + k - 1 \in Nat /\ s + k - 1 < l /\ l - (s + k - 1) < Size
        BY <1>2, <1>3, <4>1, BackendConstants
      <4>3. (s + k - 1) % Size # l % Size BY <4>2, PlacesDiffer
      <4>4. (s + k - 1) % Size \in Descs BY <4>2, RingPlace
      <4>5. usedRing'[(s + k - 1) % Size] = usedRing[(s + k - 1) % Size]
        BY <1>0, <1>1, <1>2, <4>3, <4>4
      <4>6. usedRing[(s + k - 1) % Size] = pending[k] BY <4>1 DEF RingsAt, Contents
      <4> QED BY <4>5, <4>6
    <3> QED BY <3>1, <3>2
  <2> QED BY <1>1, <2>1, <2>2, <2>3 DEF Contents
<1>7. Hands(s, l + 1, a)'
  <2>1. \A v \in Threads : wk'[v].pc \in {"none", "check"}
    BY <1>0, <1>1, OnlyThread
  <2> QED BY <2>1 DEF Hands
<1> QED BY <1>4, <1>5, <1>6, <1>7 DEF RingsAt

LEMMA RingsPublish ==
  ASSUME Control, NEW s \in Nat, NEW u \in Nat, NEW l \in Nat, NEW a \in Nat,
         RingsAt(s, u, l, a), NEW w \in Threads, WPublish(w)
  PROVE  RingsAt(s, l, l, a)'
<1>0. wk \in [Threads -> WkTypes] BY DEF Control, ControlTypes
<1>1. /\ UNCHANGED <<at, vq, availRing, availIdx, usedRing, usedSeen, pending, unused>>
      /\ usedIdx' = vq[Tx].last_used_idx /\ wk' = [wk EXCEPT ![w].pc = "check"]
  BY DEF WPublish, peerVars, deviceVars, driverVars
<1>2. Indices(s, l, l, a)'
  <2>1. s <= l /\ l <= l BY DEF RingsAt, Indices
  <2> QED BY <1>1, <2>1 DEF RingsAt, Indices
<1>3. Driver' /\ Contents(s, l)' BY <1>1 DEF RingsAt, Driver, Contents
<1>4. wk'[w].pc = "check" /\ \A v \in Threads \ {w} : wk'[v] = wk[v] BY <1>0, <1>1
<1>5. Hands(s, l, a)'
  <2> SUFFICES ASSUME NEW v \in Threads
               PROVE  /\ wk'[v].pc \in {"fetch", "return"} => l < a
                      /\ wk'[v].pc = "return" => wk'[v].d = pending[l - s + 1]
                                                 /\ wk'[v].u = l % Size
    BY <1>1 DEF Hands
  <2>1. CASE v = w BY <1>4, <2>1
  <2>2. CASE v # w BY <1>4, <2>2 DEF RingsAt, Hands
  <2> QED BY <2>1, <2>2
<1> QED BY <1>2, <1>3, <1>5 DEF RingsAt

LEMMA RingsPost ==
  ASSUME Control, NEW s \in Nat, NEW u \in Nat, NEW l \in Nat, NEW a \in Nat,
         RingsAt(s, u, l, a), NEW d \in Descs, NEW c, Post(d, c)
  PROVE  RingsAt(s, u, l, a + 1)'
<1>0. availRing \in [Descs -> Descs] /\ pending \in Seq(Descs) /\ unused \subseteq Descs
  BY DEF Control, ControlTypes, RingsAt, Driver
<1>1. /\ at = StopAt /\ d \in unused
      /\ UNCHANGED <<at, vq, wk, usedRing, usedIdx, usedSeen>>
      /\ availRing' = [availRing EXCEPT ![availIdx % Size] = d]
      /\ availIdx' = Inc(availIdx) /\ unused' = unused \ {d} /\ pending' = Append(pending, d)
  BY DEF Post, Started, peerVars, deviceVars, workerVars
<1>2. /\ s <= u /\ u <= l /\ l <= a /\ Len(pending) = a - s /\ availIdx = a % IdxMod
      /\ Len(pending) \in Nat /\ IsFiniteSet(unused) /\ Cardinality(unused) \in Nat
      /\ Cardinality(unused) + Len(pending) = Size
  BY PendingBound DEF RingsAt, Indices, Driver
<1>3. /\ pending' \in Seq(Descs) /\ Len(pending') = Len(pending) + 1
      /\ pending'[Len(pending) + 1] = d
      /\ \A k \in 1..Len(pending) : pending'[k] = pending[k]
  BY <1>0, <1>1
<1>4. Indices(s, u, l, a + 1)'
  <2>1. availIdx' = (a + 1) % IdxMod BY <1>1, <1>2, RingPlace
  <2>2. l <= a + 1 /\ Len(pending') = (a + 1) - s BY <1>2, <1>3
  <2> QED BY <1>1, <2>1, <2>2, ScriptLen DEF RingsAt, Indices
<1>5. Cardinality(unused') = Cardinality(unused) - 1 BY <1>1, <1>2, FS_RemoveElement
<1>6. Cardinality(unused') \in Nat BY <1>1, <1>2, FS_RemoveElement, FS_CardinalityType
<1>7. Len(pending) < Size BY <1>2, <1>5, <1>6, BackendConstants
<1>8. Driver'
  <2>1. Cardinality(unused') + Len(pending') = Size
    BY <1>2, <1>3, <1>5, BackendConstants
  <2>2. \A i \in 1..Len(pending) : pending[i] \notin unused /\ pending[i] # d
    BY <1>1 DEF RingsAt, Driver
  <2>3. \A i \in 1..Len(pending') : pending'[i] \notin unused'
    <3> SUFFICES ASSUME NEW i \in 1..Len(pending') PROVE pending'[i] \notin unused'
      OBVIOUS
    <3>1. i \in 1..Len(pending) \/ i = Len(pending) + 1 BY <1>2, <1>3
    <3> QED BY <1>1, <1>3, <2>2, <3>1
  <2>4. \A i, j \in 1..Len(pending') : pending'[i] = pending'[j] => i = j
    <3> SUFFICES ASSUME NEW i \in 1..Len(pending'), NEW j \in 1..Len(pending'),
                        pending'[i] = pending'[j]
                 PROVE  i = j
      OBVIOUS
    <3>1. i \in 1..Len(pending) \/ i = Len(pending) + 1 BY <1>2, <1>3
    <3>2. j \in 1..Len(pending) \/ j = Len(pending) + 1 BY <1>2, <1>3
    <3>3. CASE i \in 1..Len(pending) /\ j \in 1..Len(pending)
      BY <1>3, <3>3 DEF RingsAt, Driver
    <3> QED BY <1>3, <2>2, <3>1, <3>2, <3>3
  <2>5. unused' \subseteq Descs BY <1>0, <1>1
  <2> QED BY <1>3, <2>1, <2>3, <2>4, <2>5 DEF Driver
<1>9. Contents(s, l)'
  <2>1. usedRing' \in [Descs -> Descs] BY <1>1 DEF RingsAt, Contents
  <2>2. availRing' = [availRing EXCEPT ![a % Size] = d] /\ a % Size \in Descs
    BY <1>1, <1>2, RingPlace
  <2>3. ASSUME NEW k \in 1..Len(pending') PROVE availRing'[(s + k - 1) % Size] = pending'[k]
    <3>1. CASE k = Len(pending) + 1
      <4>1. s + k - 1 = a BY <1>2, <3>1
      <4> QED BY <1>0, <1>3, <2>2, <3>1, <4>1
    <3>2. CASE k # Len(pending) + 1
      <4>1. k \in 1..Len(pending) BY <1>2, <1>3, <3>2
      <4>2. s + k - 1 \in Nat /\ s + k - 1 < a /\ a - (s + k - 1) < Size
        BY <1>2, <1>7, <4>1, BackendConstants
      <4>3. (s + k - 1) % Size # a % Size BY <4>2, PlacesDiffer
      <4>4. (s + k - 1) % Size \in Descs BY <4>2, RingPlace
      <4>5. availRing'[(s + k - 1) % Size] = availRing[(s + k - 1) % Size]
        BY <1>0, <2>2, <4>3, <4>4
      <4>6. availRing[(s + k - 1) % Size] = pending[k] BY <4>1 DEF RingsAt, Contents
      <4> QED BY <1>3, <4>1, <4>5, <4>6
    <3> QED BY <3>1, <3>2
  <2>4. ASSUME NEW k \in 1..(l - s) PROVE usedRing'[(s + k - 1) % Size] = pending'[k]
    <3>1. k \in 1..Len(pending) BY <1>2
    <3> QED BY <1>1, <1>3, <2>4, <3>1 DEF RingsAt, Contents
  <2> QED BY <2>1, <2>3, <2>4 DEF Contents
<1>10. Hands(s, l, a + 1)'
  <2> SUFFICES ASSUME NEW v \in Threads
               PROVE  /\ wk[v].pc \in {"fetch", "return"} => l < a + 1
                      /\ wk[v].pc = "return" => wk[v].d = pending'[l - s + 1]
                                                /\ wk[v].u = l % Size
    BY <1>1 DEF Hands
  <2>1. l < a + 1 BY <1>2
  <2>2. ASSUME wk[v].pc = "return" PROVE wk[v].d = pending'[l - s + 1] /\ wk[v].u = l % Size
    <3>1. l < a /\ wk[v].d = pending[l - s + 1] /\ wk[v].u = l % Size
      BY <2>2 DEF RingsAt, Hands
    <3>2. l - s + 1 \in 1..Len(pending) BY <1>2, <3>1
    <3> QED BY <1>3, <3>1, <3>2
  <2> QED BY <2>1, <2>2
<1> QED BY <1>4, <1>8, <1>9, <1>10 DEF RingsAt

LEMMA RingsReclaim ==
  ASSUME Control, NEW s \in Nat, NEW u \in Nat, NEW l \in Nat, NEW a \in Nat,
         RingsAt(s, u, l, a), Reclaim
  PROVE  RingsAt(s + 1, u, l, a)'
<1>0. pending \in Seq(Descs) /\ unused \subseteq Descs
  BY DEF RingsAt, Driver
<1>1. /\ at = StopAt /\ usedSeen # usedIdx /\ pending # <<>>
      /\ UNCHANGED <<at, vq, wk, availRing, availIdx, usedRing, usedIdx>>
      /\ unused' = unused \cup {usedRing[usedSeen % Size]}
      /\ pending' = Tail(pending) /\ usedSeen' = Inc(usedSeen)
  BY DEF Reclaim, Started, peerVars, deviceVars, workerVars, ringVars
<1>2. /\ s <= u /\ u <= l /\ l <= a /\ Len(pending) = a - s /\ usedSeen = s % IdxMod
      /\ Len(pending) \in Nat /\ IsFiniteSet(unused) /\ Cardinality(unused) \in Nat
      /\ Cardinality(unused) + Len(pending) = Size
  BY PendingBound DEF RingsAt, Indices, Driver
<1>3. s < u
  <2>1. s % IdxMod # u % IdxMod BY <1>1 DEF RingsAt, Indices
  <2>2. s # u BY <2>1
  <2> QED BY <1>2, <2>2
<1>4. /\ pending' \in Seq(Descs) /\ Len(pending') = Len(pending) - 1
      /\ \A k \in 1..Len(pending') : pending'[k] = pending[k + 1] /\ k + 1 \in 1..Len(pending)
  BY <1>0, <1>1
<1>5. unused' = unused \cup {pending[1]} /\ 1 \in 1..Len(pending)
  <2>1. 1 \in 1..(l - s) /\ 1 \in 1..Len(pending) BY <1>2, <1>3
  <2>2. usedRing[(s + 1 - 1) % Size] = pending[1] BY <2>1 DEF RingsAt, Contents
  <2>3. s + 1 - 1 = s OBVIOUS
  <2>4. usedSeen % Size = s % Size BY <1>2, RingPlace
  <2> QED BY <1>1, <2>1, <2>2, <2>3, <2>4
<1>6. Indices(s + 1, u, l, a)'
  <2>1. usedSeen' = (s + 1) % IdxMod BY <1>1, <1>2, RingPlace
  <2>2. s + 1 <= u /\ Len(pending') = a - (s + 1) BY <1>2, <1>3, <1>4
  <2> QED BY <1>1, <2>1, <2>2 DEF RingsAt, Indices
<1>7. Driver'
  <2>1. pending[1] \notin unused BY <1>5 DEF RingsAt, Driver
  <2>2. Cardinality(unused') = Cardinality(unused) + 1 BY <1>2, <1>5, <2>1, FS_AddElement
  <2>3. Cardinality(unused') + Len(pending') = Size
    BY <1>2, <1>4, <2>2, BackendConstants
  <2>4. unused' \subseteq Descs BY <1>0, <1>5
  <2>5. \A i \in 1..Len(pending') : pending'[i] \notin unused'
    <3> SUFFICES ASSUME NEW i \in 1..Len(pending') PROVE pending'[i] \notin unused'
      OBVIOUS
    <3>1. pending'[i] = pending[i + 1] /\ i + 1 \in 1..Len(pending) /\ i + 1 # 1 BY <1>4
    <3> QED BY <1>5, <3>1 DEF RingsAt, Driver
  <2>6. \A i, j \in 1..Len(pending') : pending'[i] = pending'[j] => i = j
    <3> SUFFICES ASSUME NEW i \in 1..Len(pending'), NEW j \in 1..Len(pending'),
                        pending'[i] = pending'[j]
                 PROVE  i = j
      OBVIOUS
    <3>1. i + 1 = j + 1 BY <1>4 DEF RingsAt, Driver
    <3> QED BY <1>2, <1>4, <3>1
  <2> QED BY <1>4, <2>3, <2>4, <2>5, <2>6 DEF Driver
<1>8. Contents(s + 1, l)'
  <2>1. usedRing' \in [Descs -> Descs] BY <1>1 DEF RingsAt, Contents
  <2>2. ASSUME NEW k \in 1..Len(pending') PROVE availRing'[((s + 1) + k - 1) % Size] = pending'[k]
    <3>1. pending'[k] = pending[k + 1] /\ k + 1 \in 1..Len(pending) BY <1>4
    <3>2. (s + 1) + k - 1 = s + (k + 1) - 1 BY <3>1
    <3>3. availRing[(s + (k + 1) - 1) % Size] = pending[k + 1]
      BY <3>1 DEF RingsAt, Contents
    <3> QED BY <1>1, <3>1, <3>2, <3>3
  <2>3. ASSUME NEW k \in 1..(l - (s + 1)) PROVE usedRing'[((s + 1) + k - 1) % Size] = pending'[k]
    <3>1. k + 1 \in 1..(l - s) /\ k \in 1..Len(pending') BY <1>2, <1>3, <1>4, SMTT(30)
    <3>2. (s + 1) + k - 1 = s + (k + 1) - 1 BY <3>1
    <3>3. usedRing[(s + (k + 1) - 1) % Size] = pending[k + 1]
      BY <3>1 DEF RingsAt, Contents
    <3> QED BY <1>1, <1>4, <3>1, <3>2, <3>3
  <2> QED BY <2>1, <2>2, <2>3 DEF Contents
<1>9. Hands(s + 1, l, a)'
  <2> SUFFICES ASSUME NEW v \in Threads
               PROVE  /\ wk[v].pc \in {"fetch", "return"} => l < a
                      /\ wk[v].pc = "return" => wk[v].d = pending'[l - (s + 1) + 1]
                                                /\ wk[v].u = l % Size
    BY <1>1 DEF Hands
  <2>1. wk[v].pc \in {"fetch", "return"} => l < a BY DEF RingsAt, Hands
  <2>2. ASSUME wk[v].pc = "return"
        PROVE  wk[v].d = pending'[l - (s + 1) + 1] /\ wk[v].u = l % Size
    <3>1. l < a /\ wk[v].d = pending[l - s + 1] /\ wk[v].u = l % Size
      BY <2>2 DEF RingsAt, Hands
    <3>2. l - s \in 1..Len(pending') /\ l - (s + 1) + 1 = l - s
      BY <1>2, <1>3, <1>4, <3>1
    <3>3. pending'[l - s] = pending[l - s + 1] BY <1>4, <3>2
    <3> QED BY <3>1, <3>2, <3>3
  <2> QED BY <2>1, <2>2
<1> QED BY <1>6, <1>7, <1>8, <1>9 DEF RingsAt

RingsInv == Control /\ OneLife /\ Rings

LEMMA RingsInit == Init => RingsInv
<1> SUFFICES ASSUME Init PROVE RingsInv
  OBVIOUS
<1> USE BackendConstants
<1>1. Control BY ControlInit
<1>2. OneLife BY ScriptLen DEF Init, OneLife
<1>3. 0 % IdxMod = 0 OBVIOUS
<1>4. pending = <<>> /\ Len(pending) = 0 /\ pending \in Seq(Descs) BY DEF Init
<1>5. vq[Tx].last_avail_idx = 0 /\ vq[Tx].last_used_idx = 0 BY DEF Init, Queues, Tx
<1>6. Indices(0, 0, 0, 0) BY <1>3, <1>4, <1>5 DEF Init, Indices
<1>7. Driver
  <2>1. 0 \in Int /\ Size - 1 \in Int OBVIOUS
  <2>2. Cardinality(0..(Size - 1)) = IF 0 > Size - 1 THEN 0 ELSE (Size - 1) - 0 + 1
    BY ONLY <2>1, FS_Interval
  <2>3. Cardinality(unused) = Size BY <2>2 DEF Init, Descs
  <2> QED BY <1>4, <2>3 DEF Init, Driver
<1>8. Contents(0, 0) BY <1>4 DEF Init, Contents, Descs
<1>9. Hands(0, 0, 0) BY DEF Init, Hands, Threads
<1>10. Rings BY <1>6, <1>7, <1>8, <1>9 DEF Rings, RingsAt
<1> QED BY <1>1, <1>2, <1>10 DEF RingsInv

LEMMA RingsStep ==
  ASSUME RxSize = Size, RingsInv, [Boots]_vars
  PROVE  RingsInv'
<1>0. Control /\ OneLife BY DEF RingsInv
<1>1. Control' BY <1>0, ControlNext DEF Next
<1>2. PICK s \in Nat, u \in Nat, l \in Nat, a \in Nat : RingsAt(s, u, l, a)
  BY DEF RingsInv, Rings
<1>3. s + 1 \in Nat /\ l + 1 \in Nat /\ a + 1 \in Nat OBVIOUS
<1>4. CASE Server
  <2>1. OneLife' BY <1>0, <1>2, <1>4, ServerRings DEF RingsAt
  <2>2. RingsAt(s, u, l, a)' BY <1>0, <1>2, <1>4, RingsServer
  <2> QED BY <1>1, <2>1, <2>2 DEF RingsInv, Rings
<1>5. CASE PeerRead \/ Disconnect \/ Terminated \/ UNCHANGED vars
  <2>1. /\ UNCHANGED <<at, starts, workers>>
        /\ UNCHANGED <<at, vq, wk, availRing, availIdx, usedRing, usedIdx, usedSeen,
                       pending, unused>>
    BY <1>5 DEF PeerRead, Disconnect, Terminated, vars, peerVars, deviceVars, workerVars,
       ringVars, driverVars
  <2>2. RingsAt(s, u, l, a)' BY <1>2, <2>1, RingsStutter
  <2> QED BY <1>0, <1>1, <2>1, <2>2, OneLifeStutter DEF RingsInv, Rings
<1>6. ASSUME NEW w \in Threads, Worker(w) PROVE RingsInv'
  <2>1. UNCHANGED <<at, starts, workers>>
    BY <1>6 DEF Worker, WCheck, WFetch, WReturn, WPublish, peerVars
  <2>2. CASE WCheck(w)
    BY <1>0, <1>1, <1>2, <2>1, <2>2, RingsCheck, OneLifeStutter DEF RingsInv, Rings
  <2>3. CASE WFetch(w)
    BY <1>0, <1>1, <1>2, <2>1, <2>3, RingsFetch, OneLifeStutter DEF RingsInv, Rings
  <2>4. CASE WReturn(w)
    <3>1. RingsAt(s, u, l + 1, a)' BY <1>0, <1>2, <2>4, RingsReturn
    <3> QED BY <1>0, <1>1, <1>3, <2>1, <3>1, OneLifeStutter DEF RingsInv, Rings
  <2>5. CASE WPublish(w)
    BY <1>0, <1>1, <1>2, <2>1, <2>5, RingsPublish, OneLifeStutter DEF RingsInv, Rings
  <2> QED BY <1>6, <2>2, <2>3, <2>4, <2>5 DEF Worker
<1>7. ASSUME NEW d \in Descs, NEW c \in Chains, Post(d, c) PROVE RingsInv'
  <2>1. UNCHANGED <<at, starts, workers>> BY <1>7 DEF Post, peerVars, workerVars
  <2>2. RingsAt(s, u, l, a + 1)' BY <1>0, <1>2, <1>7, RingsPost
  <2> QED BY <1>0, <1>1, <1>3, <2>1, <2>2, OneLifeStutter DEF RingsInv, Rings
<1>8. CASE Reclaim
  <2>1. UNCHANGED <<at, starts, workers>> BY <1>8 DEF Reclaim, peerVars, workerVars
  <2>2. RingsAt(s + 1, u, l, a)' BY <1>0, <1>2, <1>8, RingsReclaim
  <2> QED BY <1>0, <1>1, <1>3, <2>1, <2>2, OneLifeStutter DEF RingsInv, Rings
<1> QED BY <1>4, <1>5, <1>6, <1>7, <1>8 DEF Boots, Threads

LEMMA RingsAlways ==
  ASSUME RxSize = Size
  PROVE  FairSpec => []RingsInv
<1>1. RingsInv /\ [Boots]_vars => RingsInv' BY RingsStep
<1> QED BY <1>1, RingsInit, PTL DEF FairSpec

\* The distance of two indices is that of the numbers they stand for.
LEMMA AheadIs ==
  ASSUME NEW x \in Nat, NEW y \in Nat, x <= y, y - x <= Size
  PROVE  Ahead(y % IdxMod, x % IdxMod) = y - x
<1>1. IdxMod \in Nat /\ IdxMod > 0 /\ y - x < IdxMod BY BackendConstants
<1> QED BY <1>1, ModDiff DEF Ahead

\* In a guest's life the used ring gives the driver back what it posted, in the
\* order it posted it and once each, for any size that both queues have, any
\* range of the indices and any number of wrap-arounds.
THEOREM UsedAlwaysPosted ==
  ASSUME RxSize = Size
  PROVE  FairSpec => []UsedIsPosted
<1>1. RingsInv => UsedIsPosted
  <2> SUFFICES ASSUME RingsInv PROVE UsedIsPosted
    OBVIOUS
  <2>1. PICK s \in Nat, u \in Nat, l \in Nat, a \in Nat : RingsAt(s, u, l, a)
    BY DEF RingsInv, Rings
  <2>2. /\ s <= u /\ u <= l /\ l <= a /\ Len(pending) = a - s /\ Len(pending) <= Size
        /\ usedIdx = u % IdxMod /\ usedSeen = s % IdxMod
    BY <2>1, PendingBound DEF RingsAt, Indices
  <2>3. Ahead(usedIdx, usedSeen) = u - s
    <3>1. u - s <= Size BY <2>2, BackendConstants
    <3> QED BY <2>2, <3>1, AheadIs
  <2>4. u - s <= Len(pending) BY <2>2
  <2>5. ASSUME NEW k \in 1..(u - s) PROVE usedRing[(usedSeen + k - 1) % Size] = pending[k]
    <3>1. k \in 1..(l - s) BY <2>2
    <3>2. usedRing[(s + k - 1) % Size] = pending[k] BY <2>1, <3>1 DEF RingsAt, Contents
    <3>3. k - 1 \in Int /\ s + (k - 1) = s + k - 1 OBVIOUS
    <3>4. ((s % IdxMod) + (k - 1)) % Size = (s + (k - 1)) % Size BY <3>3, RingPlace
    <3>5. (s % IdxMod) + (k - 1) = (s % IdxMod) + k - 1
      <4>1. s % IdxMod \in Int BY DivMod, BackendConstants
      <4> QED BY <4>1
    <3> QED BY <2>2, <3>2, <3>3, <3>4, <3>5
  <2> QED BY <2>3, <2>4, <2>5 DEF UsedIsPosted
<1> QED BY <1>1, RingsAlways, PTL

\* "no more descriptors to process" (bkend.c): the test for equality is enough
\* to keep the dequeue thread from passing the available index.
THEOREM NeverEverPastAvail ==
  ASSUME RxSize = Size
  PROVE  FairSpec => []NeverPastAvail
<1>1. RingsInv => NeverPastAvail
  <2> SUFFICES ASSUME RingsInv
               PROVE  Ahead(availIdx, vq[Tx].last_avail_idx) <= Size
    BY DEF NeverPastAvail
  <2>1. PICK s \in Nat, u \in Nat, l \in Nat, a \in Nat : RingsAt(s, u, l, a)
    BY DEF RingsInv, Rings
  <2>2. /\ s <= u /\ u <= l /\ l <= a /\ Len(pending) = a - s /\ Len(pending) <= Size
        /\ availIdx = a % IdxMod /\ vq[Tx].last_avail_idx = l % IdxMod
    BY <2>1, PendingBound DEF RingsAt, Indices
  <2>3. a - l <= Size BY <2>2, BackendConstants
  <2> QED BY <2>2, <2>3, AheadIs
<1> QED BY <1>1, RingsAlways, PTL

\* The driver never gets to reuse a chain that the back end still copies or has
\* not yet put on the used ring.
THEOREM NeverReusedInFlight ==
  ASSUME RxSize = Size
  PROVE  FairSpec => []NoReuseInFlight
<1>1. RingsInv => NoReuseInFlight
  <2> SUFFICES ASSUME RingsInv, NEW w \in Threads, wk[w].pc = "return"
               PROVE  wk[w].d \notin unused
    BY DEF NoReuseInFlight, Threads
  <2>1. PICK s \in Nat, u \in Nat, l \in Nat, a \in Nat : RingsAt(s, u, l, a)
    BY DEF RingsInv, Rings
  <2>2. l < a /\ wk[w].d = pending[l - s + 1] BY <2>1 DEF RingsAt, Hands
  <2>3. l - s + 1 \in 1..Len(pending) BY <2>1, <2>2 DEF RingsAt, Indices
  <2> QED BY <2>1, <2>2, <2>3 DEF RingsAt, Driver
<1> QED BY <1>1, RingsAlways, PTL

=============================================================================
