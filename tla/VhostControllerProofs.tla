------------------------ MODULE VhostControllerProofs ------------------------
(***************************************************************************)
(* Theorems about VhostController for every pool, burst size, ring size,   *)
(* retry limit, set of device ids and number of packets.                   *)
(***************************************************************************)
EXTENDS VhostController, SequenceTheorems, TLAPS

LEMMA LeastProp ==
  ASSUME NEW a \in Int, NEW b \in Int
  PROVE  Least(a, b) \in Int /\ Least(a, b) <= a /\ Least(a, b) <= b
         /\ (Least(a, b) = a \/ Least(a, b) = b)
  BY DEF Least

\* What a prefix and the rest of a sequence of mbufs are.
LEMMA PrefixRest ==
  ASSUME NEW S, NEW s \in Seq(S), NEW n \in 0..Len(s)
  PROVE  /\ SubSeq(s, 1, n) \in Seq(S) /\ Len(SubSeq(s, 1, n)) = n
         /\ Rest(s, n) \in Seq(S) /\ Len(Rest(s, n)) = Len(s) - n
         /\ \A i \in 1..n : SubSeq(s, 1, n)[i] = s[i]
         /\ \A i \in 1..(Len(s) - n) : Rest(s, n)[i] = s[n + i]
  BY DEF Rest

\* The groups of variables a step leaves alone keep their types.
LEMMA TypeStutter ==
  /\ OwnerTypeOK /\ UNCHANGED ownerVars => OwnerTypeOK'
  /\ DeviceTypeOK /\ UNCHANGED deviceVars => DeviceTypeOK'
  /\ PacketTypeOK /\ UNCHANGED packetVars => PacketTypeOK'
  /\ ProducerTypeOK /\ UNCHANGED producerVars => ProducerTypeOK'
  /\ ConsumerTypeOK /\ UNCHANGED consumerVars => ConsumerTypeOK'
<1>1. OwnerTypeOK /\ UNCHANGED ownerVars => OwnerTypeOK'
  BY DEF OwnerTypeOK, ownerVars
<1>2. DeviceTypeOK /\ UNCHANGED deviceVars => DeviceTypeOK'
  BY DEF DeviceTypeOK, deviceVars
<1>3. PacketTypeOK /\ UNCHANGED packetVars => PacketTypeOK'
  BY DEF PacketTypeOK, packetVars
<1>4. ProducerTypeOK /\ UNCHANGED producerVars => ProducerTypeOK'
  BY DEF ProducerTypeOK, producerVars
<1>5. ConsumerTypeOK /\ UNCHANGED consumerVars => ConsumerTypeOK'
  BY DEF ConsumerTypeOK, consumerVars
<1> QED BY <1>1, <1>2, <1>3, <1>4, <1>5

LEMMA TypeInit == Init => TypeOK
<1> SUFFICES ASSUME Init PROVE TypeOK
  OBVIOUS
<1> USE ConstantsAssumption
<1>1. OwnerTypeOK BY DEF Init, OwnerTypeOK, Phases
<1>2. DeviceTypeOK
  <2>1. cb \in {"idle", "new", "destroy"} \X (Vids \cup {NoVid}) BY DEF Init
  <2>2. ready_ \in BOOLEAN /\ live \subseteq Vids BY DEF Init
  <2>3. vid_ \in Vids \cup {NoVid} BY DEF Init
  <2>4. conns \in 0..MaxConns BY DEF Init
  <2> QED BY <2>1, <2>2, <2>3, <2>4 DEF DeviceTypeOK
<1>3. PacketTypeOK
  <2>1. data \in [Mbufs -> 0..MaxPkts] BY DEF Init
  <2>2. delivered \in Seq(0..MaxPkts) /\ ring \in Seq(Mbufs) /\ Len(ring) = 0 BY DEF Init
  <2> QED BY <2>1, <2>2 DEF Init, PacketTypeOK
<1>4. ProducerTypeOK BY DEF Init, ProducerTypeOK, Threads
<1>5. ConsumerTypeOK BY DEF Init, ConsumerTypeOK, Threads
<1> QED BY <1>1, <1>2, <1>3, <1>4, <1>5 DEF Init, TypeOK

LEMMA TypeOwner == TypeOK /\ (Owner \/ Stop) => TypeOK'
<1> SUFFICES ASSUME TypeOK, Owner \/ Stop PROVE TypeOK'
  OBVIOUS
<1> USE TypeStutter DEF TypeOK
<1>1. CASE InitEal BY <1>1 DEF InitEal, OwnerTypeOK, Phases
<1>2. CASE Start BY <1>2 DEF Start, OwnerTypeOK, Phases
<1>3. CASE Run
  <2>1. OwnerTypeOK' BY <1>3 DEF Run, OwnerTypeOK, Phases
  <2>2. ProducerTypeOK' BY <1>3 DEF Run, ProducerTypeOK, Threads
  <2>3. ConsumerTypeOK' BY <1>3 DEF Run, ConsumerTypeOK, Threads
  <2> QED BY <1>3, <2>1, <2>2, <2>3 DEF Run
<1>4. CASE JoinProducer BY <1>4 DEF JoinProducer, OwnerTypeOK, Phases
<1>5. CASE JoinConsumer BY <1>5 DEF JoinConsumer, OwnerTypeOK, Phases
<1>6. CASE Destroy BY <1>6 DEF Destroy, OwnerTypeOK, Phases
<1>7. CASE DestroyJoin BY <1>7 DEF DestroyJoin, OwnerTypeOK, Phases
<1>8. CASE Unregister BY <1>8 DEF Unregister, OwnerTypeOK, Phases
<1>9. CASE Free BY <1>9 DEF Free, OwnerTypeOK, Phases
<1>10. CASE Stop BY <1>10 DEF Stop
<1> QED BY <1>1, <1>2, <1>3, <1>4, <1>5, <1>6, <1>7, <1>8, <1>9, <1>10 DEF Owner

LEMMA TypeDevice ==
  TypeOK /\ (Callback \/ \E v \in Vids : NewDevice(v) \/ DestroyDevice(v)) => TypeOK'
<1> SUFFICES ASSUME TypeOK, Callback \/ \E v \in Vids : NewDevice(v) \/ DestroyDevice(v)
             PROVE TypeOK'
  OBVIOUS
<1> USE TypeStutter, ConstantsAssumption DEF TypeOK, NoVid
<1>1. CASE NewDeviceReady BY <1>1 DEF NewDeviceReady, DeviceTypeOK
<1>2. CASE DestroyDeviceVid BY <1>2 DEF DestroyDeviceVid, DeviceTypeOK
<1>3. ASSUME NEW v \in Vids, NewDevice(v) PROVE TypeOK'
  <2>1. DeviceTypeOK' BY <1>3 DEF NewDevice, DeviceTypeOK
  <2> QED BY <1>3, <2>1 DEF NewDevice
<1>4. ASSUME NEW v \in Vids, DestroyDevice(v) PROVE TypeOK'
  <2>1. DeviceTypeOK'
    <3>1. CASE vid_ = v
      <4>1. cb' = <<"destroy", v>> BY <1>4, <3>1 DEF DestroyDevice
      <4>2. cb' \in {"idle", "new", "destroy"} \X (Vids \cup {NoVid}) BY <4>1
      <4> QED BY <1>4, <3>1, <4>2 DEF DestroyDevice, DeviceTypeOK
    <3>2. CASE vid_ # v BY <1>4, <3>2 DEF DestroyDevice, DeviceTypeOK
    <3> QED BY <3>1, <3>2
  <2> QED BY <1>4, <2>1 DEF DestroyDevice
<1> QED BY <1>1, <1>2, <1>3, <1>4 DEF Callback

LEMMA TypeProducer == TypeOK /\ Producer => TypeOK'
<1> SUFFICES ASSUME TypeOK, Producer PROVE TypeOK'
  OBVIOUS
<1> USE TypeStutter, ConstantsAssumption DEF TypeOK
<1>1. CASE PQuit BY <1>1 DEF PQuit, ProducerTypeOK, Threads
<1>2. CASE PReady BY <1>2 DEF PReady, ProducerTypeOK, Threads
<1>3. CASE PDequeueNone BY <1>3 DEF PDequeueNone, ProducerTypeOK, Threads
<1>4. CASE PDequeue
  <2> PICK n \in 1..Least(PKT_BURST_SZ, MaxPkts - taken) :
      \E b \in [1..n -> pool] :
         /\ ppkts' = b
         /\ pool' = pool \ {b[i] : i \in 1..n}
         /\ data' = [m \in Mbufs |->
                       IF \E i \in 1..n : b[i] = m
                       THEN taken + (CHOOSE i \in 1..n : b[i] = m)
                       ELSE data[m]]
         /\ taken' = taken + n
    BY <1>4 DEF PDequeue
  <2>0. n \in Nat /\ n >= 1 /\ n <= PKT_BURST_SZ /\ n <= MaxPkts - taken
    <3>1. MaxPkts - taken \in Int /\ PKT_BURST_SZ \in Int
      BY DEF PacketTypeOK
    <3> HIDE DEF TypeOK
    <3> QED BY <3>1, LeastProp
  <2> PICK b \in [1..n -> pool] :
         /\ ppkts' = b
         /\ pool' = pool \ {b[i] : i \in 1..n}
         /\ data' = [m \in Mbufs |->
                       IF \E i \in 1..n : b[i] = m
                       THEN taken + (CHOOSE i \in 1..n : b[i] = m)
                       ELSE data[m]]
         /\ taken' = taken + n
    OBVIOUS
  <2>1. b \in Seq(Mbufs) /\ Len(b) = n
    <3>1. b \in [1..n -> Mbufs] BY DEF PacketTypeOK
    <3> QED BY <2>0, <3>1
  <2>2. taken' \in 0..MaxPkts
    BY <2>0 DEF PacketTypeOK
  <2>3. data' \in [Mbufs -> 0..MaxPkts]
    <3> SUFFICES ASSUME NEW m \in Mbufs PROVE data'[m] \in 0..MaxPkts
      OBVIOUS
    <3>1. CASE \E i \in 1..n : b[i] = m
      <4>1. (CHOOSE i \in 1..n : b[i] = m) \in 1..n
        BY <3>1
      <4>2. data'[m] = taken + (CHOOSE i \in 1..n : b[i] = m)
        BY <3>1
      <4>3. taken \in 0..MaxPkts BY DEF PacketTypeOK
      <4> QED BY <2>0, <4>1, <4>2, <4>3
    <3>2. CASE ~ \E i \in 1..n : b[i] = m
      BY <3>2 DEF PacketTypeOK
    <3> QED BY <3>1, <3>2
  <2>4. PacketTypeOK'
    BY <1>4, <2>2, <2>3 DEF PDequeue, PacketTypeOK
  <2>5. ProducerTypeOK'
    BY <1>4, <2>0, <2>1 DEF PDequeue, ProducerTypeOK, Threads
  <2> QED BY <1>4, <2>4, <2>5 DEF PDequeue
<1>5. CASE PPush
  <2> DEFINE pushed == Least(Len(ppkts) - psent, RingCapacity - Len(ring))
  <2>1. /\ pushed \in Nat /\ pushed <= Len(ppkts) - psent /\ pushed <= RingCapacity - Len(ring)
        /\ psent + pushed \in 0..Len(ppkts)
    <3>1. /\ Len(ppkts) \in Nat /\ psent \in 0..Len(ppkts)
          /\ Len(ring) \in Nat /\ Len(ring) <= RingCapacity /\ RingCapacity \in Nat
      BY DEF PacketTypeOK, ProducerTypeOK
    <3> HIDE DEF TypeOK
    <3> QED BY <3>1, LeastProp DEF Least
  <2> HIDE DEF pushed
  <2>2. /\ SubSeq(ppkts, psent + 1, psent + pushed) \in Seq(Mbufs)
        /\ Len(SubSeq(ppkts, psent + 1, psent + pushed)) = pushed
    BY <2>1 DEF ProducerTypeOK
  <2>3. ring' = ring \o SubSeq(ppkts, psent + 1, psent + pushed)
    BY <1>5 DEF PPush, pushed
  <2>4. ring' \in Seq(Mbufs) /\ Len(ring') <= RingCapacity
    BY <2>1, <2>2, <2>3 DEF PacketTypeOK
  <2>5. PacketTypeOK'
    BY <1>5, <2>4 DEF PPush, PacketTypeOK
  <2>6. ProducerTypeOK'
    <3>1. CASE psent + pushed = Len(ppkts)
      BY <1>5, <3>1 DEF PPush, pushed, ProducerTypeOK, Threads
    <3>2. CASE psent + pushed # Len(ppkts)
      BY <1>5, <2>1, <3>2 DEF PPush, pushed, ProducerTypeOK
    <3> QED BY <3>1, <3>2
  <2> QED BY <1>5, <2>5, <2>6 DEF PPush
<1> QED BY <1>1, <1>2, <1>3, <1>4, <1>5 DEF Producer

LEMMA TypeConsumer == TypeOK /\ Consumer => TypeOK'
<1> SUFFICES ASSUME TypeOK, Consumer PROVE TypeOK'
  OBVIOUS
<1> USE TypeStutter, ConstantsAssumption DEF TypeOK
<1>1. CASE CQuit BY <1>1 DEF CQuit, ConsumerTypeOK, Threads
<1>2. CASE CReady BY <1>2 DEF CReady, ConsumerTypeOK, Threads
<1> DEFINE n == Least(PKT_BURST_SZ, Len(ring))
<1>n. n \in 0..Len(ring) /\ n <= PKT_BURST_SZ
  <2>1. Len(ring) \in Nat /\ PKT_BURST_SZ \in Nat BY DEF PacketTypeOK
  <2> QED BY <2>1, LeastProp DEF Least
<1> HIDE DEF n
<1>3. CASE CDequeue
  <2>1. /\ cpkts' = SubSeq(ring, 1, n) /\ ring' = Rest(ring, n)
        /\ cpc' = IF n = 0 THEN "quit" ELSE "enqueue"
    BY <1>3 DEF CDequeue, n
  <2>2. /\ cpkts' \in Seq(Mbufs) /\ Len(cpkts') <= PKT_BURST_SZ /\ Len(cpkts') \in Nat
        /\ ring' \in Seq(Mbufs) /\ Len(ring') <= RingCapacity
    BY <1>n, <2>1, PrefixRest DEF PacketTypeOK
  <2>3. PacketTypeOK' BY <1>3, <2>2 DEF CDequeue, PacketTypeOK
  <2>4. ConsumerTypeOK' BY <1>3, <2>1, <2>2 DEF CDequeue, ConsumerTypeOK, Threads
  <2> QED BY <1>3, <2>3, <2>4 DEF CDequeue
<1>4. CASE CEnqueue
  <2> PICK nb_tx \in 0..(Len(cpkts) - csent) :
         /\ csent' = csent + nb_tx
         /\ delivered' = delivered \o [i \in 1..nb_tx |-> data[cpkts[csent + i]]]
    BY <1>4 DEF CEnqueue
  <2>1. csent' \in 0..Len(cpkts) BY DEF ConsumerTypeOK
  <2>2. [i \in 1..nb_tx |-> data[cpkts[csent + i]]] \in Seq(0..MaxPkts)
    <3>1. \A i \in 1..nb_tx : csent + i \in 1..Len(cpkts) BY DEF ConsumerTypeOK
    <3>2. \A i \in 1..nb_tx : data[cpkts[csent + i]] \in 0..MaxPkts
      <4>1. \A i \in 1..nb_tx : cpkts[csent + i] \in Mbufs
        BY <3>1 DEF ConsumerTypeOK
      <4>2. \A m \in Mbufs : data[m] \in 0..MaxPkts BY DEF PacketTypeOK
      <4> QED BY <4>1, <4>2
    <3>3. nb_tx \in Nat BY DEF ConsumerTypeOK
    <3> QED BY <3>2, <3>3
  <2>3. delivered' \in Seq(0..MaxPkts) BY <2>2 DEF PacketTypeOK
  <2>4. PacketTypeOK' BY <1>4, <2>3 DEF CEnqueue, PacketTypeOK
  <2>5. ConsumerTypeOK' BY <1>4, <2>1 DEF CEnqueue, ConsumerTypeOK
  <2> QED BY <1>4, <2>4, <2>5 DEF CEnqueue
<1>5. CASE CFinish
  <2>1. Elems(cpkts) \subseteq Mbufs BY DEF Elems, ConsumerTypeOK
  <2>2. PacketTypeOK' BY <1>5, <2>1 DEF CFinish, PacketTypeOK, ConsumerTypeOK
  <2>3. ConsumerTypeOK' BY <1>5 DEF CFinish, ConsumerTypeOK, Threads
  <2> QED BY <1>5, <2>2, <2>3 DEF CFinish
<1>6. CASE CDrain
  <2>1. /\ pool' = pool \cup Elems(SubSeq(ring, 1, n)) /\ ring' = Rest(ring, n)
        /\ dropped' = dropped + n /\ cpc' = IF n = 0 THEN "exited" ELSE "drain"
    BY <1>6 DEF CDrain, n
  <2>2. /\ SubSeq(ring, 1, n) \in Seq(Mbufs)
        /\ ring' \in Seq(Mbufs) /\ Len(ring') <= RingCapacity
    BY <1>n, <2>1, PrefixRest DEF PacketTypeOK
  <2>3. pool' \subseteq Mbufs /\ dropped' \in Nat
    BY <1>n, <2>1, <2>2 DEF Elems, PacketTypeOK
  <2>4. PacketTypeOK' BY <1>6, <2>2, <2>3 DEF CDrain, PacketTypeOK
  <2>5. ConsumerTypeOK' BY <1>6, <2>1 DEF CDrain, ConsumerTypeOK, Threads
  <2> QED BY <1>6, <2>4, <2>5 DEF CDrain
<1> QED BY <1>1, <1>2, <1>3, <1>4, <1>5, <1>6 DEF Consumer

LEMMA TypeStep == TypeOK /\ [Next]_vars => TypeOK'
<1>1. TypeOK /\ UNCHANGED vars => TypeOK'
  BY TypeStutter DEF TypeOK, vars
<1> QED
  BY <1>1, TypeOwner, TypeDevice, TypeProducer, TypeConsumer DEF Next, Terminated

\* The controller never overfills the ring or a burst array, never counts more
\* retries than MAX_ENQUEUE_RETRIES, and every variable keeps its type.
THEOREM TypeCorrect == Spec => []TypeOK
  BY TypeInit, TypeStep, PTL DEF Spec

-----------------------------------------------------------------------------
(***************************************************************************)
(* The controller's safety properties that are about its control: device   *)
(* announcements, teardown and the drain.  Each part of the inductive      *)
(* invariant says what the threads' places imply about the state.          *)
(***************************************************************************)

\* ready_ and vid_ against the callback in progress.
DeviceInv ==
    /\ ready_ => vid_ \in live
    /\ cb[1] = "new" => vid_ \in live
    /\ cb[1] = "destroy" => ~ ready_

\* What has been built and taken down at each place of the owner.
TeardownInv ==
    /\ main \in {"constructed", "initialised", "started"} => ppc = "none" /\ cpc = "none"
    /\ main \in {"constructed", "initialised", "dtorFree", "destroyed"} =>
         ~ listening /\ live = {} /\ cb[1] = "idle"
    /\ main \in {"dtorUnregister", "dtorFree", "destroyed"} =>
         ppc \in {"none", "exited"} /\ cpc \in {"none", "exited"}
    /\ ring_ = "freed" \/ ~ instance_ => main = "destroyed"
    /\ listening \/ live # {} \/ cb[1] # "idle" => driver_registered_

\* After the consumer is gone: at most one burst is left, in the ring or in
\* the producer's hands, and the producer cannot take another.
DrainInv ==
    /\ ppc # "push" => ppkts = <<>> /\ psent = 0
    /\ main = "returned" => cpc = "exited"
    /\ cpc = "exited" => /\ quit_
                         /\ Len(ring) + (Len(ppkts) - psent) <= PKT_BURST_SZ
                         /\ ppc \in {"ready", "dequeue"} => ring = <<>>

-----------------------------------------------------------------------------
LEMMA DeviceInvInit == Init => DeviceInv
  BY DEF Init, DeviceInv

LEMMA DeviceInvStep == TypeOK /\ DeviceInv /\ [Next]_vars => DeviceInv'
<1> SUFFICES ASSUME TypeOK, DeviceInv, [Next]_vars PROVE DeviceInv'
  OBVIOUS
<1>1. CASE UNCHANGED deviceVars
  BY <1>1 DEF DeviceInv, deviceVars
<1>2. CASE Callback
  BY <1>2 DEF Callback, NewDeviceReady, DestroyDeviceVid, DeviceInv
<1>3. ASSUME NEW v \in Vids, NewDevice(v) PROVE DeviceInv'
  BY <1>3 DEF NewDevice, DeviceInv
<1>4. ASSUME NEW v \in Vids, DestroyDevice(v) PROVE DeviceInv'
  BY <1>4 DEF DestroyDevice, DeviceInv
<1>5. Owner \/ Stop \/ Producer \/ Consumer \/ UNCHANGED vars => UNCHANGED deviceVars
  BY DEF Owner, InitEal, Start, Run, JoinProducer, JoinConsumer, Destroy, DestroyJoin,
         Unregister, Free, Stop, Producer, PQuit, PReady, PDequeueNone, PDequeue, PPush,
         Consumer, CQuit, CReady, CDequeue, CEnqueue, CFinish, CDrain, vars
<1> QED BY <1>1, <1>2, <1>3, <1>4, <1>5 DEF Next, Terminated

\* While ready_ is set, vid_ names a device the vhost library knows.
THEOREM ReadyAlwaysNamesDevice == Spec => []ReadyNamesDevice
<1>1. DeviceInv => ReadyNamesDevice
  BY DEF DeviceInv, ReadyNamesDevice
<1> QED BY <1>1, DeviceInvInit, DeviceInvStep, TypeCorrect, PTL DEF Spec

-----------------------------------------------------------------------------
LEMMA TeardownInvInit == Init => TeardownInv
  BY DEF Init, TeardownInv

LEMMA TeardownInvOwner == TypeOK /\ TeardownInv /\ (Owner \/ Stop) => TeardownInv'
<1> SUFFICES ASSUME TypeOK, TeardownInv, Owner \/ Stop PROVE TeardownInv'
  OBVIOUS
<1> USE DEF TeardownInv, deviceVars, producerVars, consumerVars, ownerVars
<1>1. CASE InitEal BY <1>1 DEF InitEal
<1>2. CASE Start
  <2>1. PICK done \in 0..3 :
          /\ driver_registered_' = (done >= 1)
          /\ listening' = (done = 3)
          /\ main' = IF done = 3 THEN "started" ELSE "unwinding"
    BY <1>2 DEF Start
  <2>2. done = 3 => driver_registered_'
    <3>1. done = 3 => (done >= 1) = TRUE
      BY ONLY done \in 0..3
    <3> QED BY ONLY <2>1, <3>1, Zenon
  <2>3. main = "initialised" /\ UNCHANGED <<instance_, ring_, deviceVars, producerVars, consumerVars>>
    BY <1>2 DEF Start
  <2>4. ring_ # "freed" /\ instance_ /\ live = {} /\ cb[1] = "idle" /\ ppc = "none" /\ cpc = "none"
    BY <2>3
  <2>5. UNCHANGED <<instance_, ring_, live, cb, ppc, cpc>>
    BY <2>3
  <2>6. CASE done = 3
    BY <2>1, <2>2, <2>4, <2>5, <2>6
  <2>7. CASE done # 3
    BY <2>1, <2>4, <2>5, <2>7
  <2> QED BY <2>6, <2>7
<1>3. CASE Run BY <1>3 DEF Run
<1>4. CASE JoinProducer BY <1>4 DEF JoinProducer
<1>5. CASE JoinConsumer BY <1>5 DEF JoinConsumer
<1>6. CASE Destroy BY <1>6 DEF Destroy
<1>7. CASE DestroyJoin BY <1>7 DEF DestroyJoin
<1>8. CASE Unregister BY <1>8 DEF Unregister
<1>9. CASE Free BY <1>9 DEF Free
<1>10. CASE Stop BY <1>10 DEF Stop
<1> QED BY <1>1, <1>2, <1>3, <1>4, <1>5, <1>6, <1>7, <1>8, <1>9, <1>10 DEF Owner

LEMMA TeardownInvStep == TypeOK /\ TeardownInv /\ [Next]_vars => TeardownInv'
<1> SUFFICES ASSUME TypeOK, TeardownInv, [Next]_vars PROVE TeardownInv'
  OBVIOUS
<1>1. CASE Owner \/ Stop
  BY <1>1, TeardownInvOwner
<1>2. CASE Callback
  BY <1>2 DEF Callback, NewDeviceReady, DestroyDeviceVid, TeardownInv, ownerVars,
              producerVars, consumerVars
<1>3. ASSUME NEW v \in Vids, NewDevice(v) \/ DestroyDevice(v) PROVE TeardownInv'
  BY <1>3 DEF NewDevice, DestroyDevice, TeardownInv, ownerVars, producerVars, consumerVars
<1>4. CASE Producer
  BY <1>4 DEF Producer, PQuit, PReady, PDequeueNone, PDequeue, PPush, TeardownInv,
              ownerVars, deviceVars, consumerVars
<1>5. CASE Consumer
  BY <1>5 DEF Consumer, CQuit, CReady, CDequeue, CEnqueue, CFinish, CDrain, TeardownInv,
              ownerVars, deviceVars, producerVars
<1>6. CASE UNCHANGED vars
  BY <1>6 DEF vars, ownerVars, deviceVars, producerVars, consumerVars, TeardownInv
<1> QED BY <1>1, <1>2, <1>3, <1>4, <1>5, <1>6 DEF Next, Terminated

\* The destructor frees the ring only when no thread is left, and clears
\* instance_ only when no callback can come.
THEOREM TeardownAlwaysSafe == Spec => []TeardownSafe
<1>1. TeardownInv => TeardownSafe
  BY DEF TeardownInv, TeardownSafe
<1> QED BY <1>1, TeardownInvInit, TeardownInvStep, TypeCorrect, PTL DEF Spec

-----------------------------------------------------------------------------
LEMMA DrainInvInit == Init => DrainInv
  BY DEF Init, DrainInv

LEMMA DrainInvProducer == TypeOK /\ DrainInv /\ Producer => DrainInv'
<1> SUFFICES ASSUME TypeOK, DrainInv, Producer PROVE DrainInv'
  OBVIOUS
<1>0. /\ ring \in Seq(Mbufs) /\ Len(ring) \in Nat /\ Len(ring) <= RingCapacity
      /\ ppkts \in Seq(Mbufs) /\ Len(ppkts) \in Nat /\ Len(ppkts) <= PKT_BURST_SZ
      /\ psent \in 0..Len(ppkts) /\ PKT_BURST_SZ \in Nat /\ RingCapacity \in Nat
  BY ConstantsAssumption DEF TypeOK, PacketTypeOK, ProducerTypeOK
<1>1. CASE PQuit
  BY <1>1 DEF PQuit, DrainInv, ownerVars, consumerVars, packetVars
<1>2. CASE PReady \/ PDequeueNone
  BY <1>2 DEF PReady, PDequeueNone, DrainInv, ownerVars, consumerVars, packetVars
<1>3. CASE PDequeue
  <2>1. /\ UNCHANGED <<main, cpc, quit_, ring>> /\ psent' = 0 /\ ppc' = "push" /\ ppc = "dequeue"
    BY <1>3 DEF PDequeue, ownerVars, consumerVars
  <2>2. Len(ppkts') \in Nat /\ Len(ppkts') <= PKT_BURST_SZ
    BY <1>3, TypeProducer DEF Producer, TypeOK, ProducerTypeOK
  <2>3. cpc = "exited" => Len(ring) = 0
    BY <2>1 DEF DrainInv
  <2> QED BY <1>0, <2>1, <2>2, <2>3 DEF DrainInv
<1>4. CASE PPush
  <2> DEFINE pushed == Least(Len(ppkts) - psent, RingCapacity - Len(ring))
  <2>1. /\ pushed \in Nat /\ pushed <= Len(ppkts) - psent
    BY <1>0, LeastProp DEF Least
  <2> HIDE DEF pushed
  <2>2. Len(SubSeq(ppkts, psent + 1, psent + pushed)) = pushed
        /\ SubSeq(ppkts, psent + 1, psent + pushed) \in Seq(Mbufs)
    BY <1>0, <2>1
  <2>3. ring' = ring \o SubSeq(ppkts, psent + 1, psent + pushed)
    BY <1>4 DEF PPush, pushed
  <2>4. Len(ring') = Len(ring) + pushed
    BY <1>0, <2>2, <2>3
  <2>5. UNCHANGED <<main, cpc, quit_>> /\ ppc = "push"
    BY <1>4 DEF PPush, ownerVars, consumerVars
  <2>6. CASE psent + pushed = Len(ppkts)
    <3>1. ppkts' = <<>> /\ psent' = 0 /\ ppc' = "quit"
      BY <1>4, <2>6 DEF PPush, pushed
    <3>2. Len(ppkts') = 0 BY <3>1
    <3> QED BY <1>0, <2>1, <2>4, <2>5, <2>6, <3>1, <3>2 DEF DrainInv
  <2>7. CASE psent + pushed # Len(ppkts)
    <3>1. ppkts' = ppkts /\ psent' = psent + pushed /\ ppc' = "push"
      BY <1>4, <2>7 DEF PPush, pushed
    <3> QED BY <1>0, <2>1, <2>4, <2>5, <3>1 DEF DrainInv
  <2> QED BY <2>6, <2>7
<1> QED BY <1>1, <1>2, <1>3, <1>4 DEF Producer

LEMMA DrainInvConsumer ==
  TypeOK /\ TeardownInv /\ DrainInv /\ Consumer /\ (cpc = "drain" => quit_) => DrainInv'
<1> SUFFICES ASSUME TypeOK, DrainInv, Consumer, cpc = "drain" => quit_ PROVE DrainInv'
  OBVIOUS
<1>1. CASE CQuit \/ CReady \/ CDequeue \/ CEnqueue \/ CFinish
  <2>1. cpc # "exited" /\ cpc' # "exited" /\ UNCHANGED <<main, ppc, ppkts, psent>>
    BY <1>1 DEF CQuit, CReady, CDequeue, CEnqueue, CFinish, ownerVars, producerVars
  <2> QED BY <2>1 DEF DrainInv
<1>2. CASE CDrain
  <2> DEFINE n == Least(PKT_BURST_SZ, Len(ring))
  <2>1. /\ cpc = "drain" /\ quit_ /\ UNCHANGED <<main, ppc, ppkts, psent, quit_>>
        /\ ring' = Rest(ring, n) /\ cpc' = IF n = 0 THEN "exited" ELSE "drain"
    BY <1>2 DEF CDrain, ownerVars, producerVars
  <2>2. /\ Len(ring) \in Nat /\ PKT_BURST_SZ \in Nat \ {0} /\ ring \in Seq(Mbufs)
        /\ Len(ppkts) \in Nat /\ Len(ppkts) <= PKT_BURST_SZ /\ psent \in 0..Len(ppkts)
    BY ConstantsAssumption DEF TypeOK, PacketTypeOK, ProducerTypeOK
  <2>3. n \in 0..Len(ring) /\ (n = 0 => Len(ring) = 0)
    BY <2>2, LeastProp DEF Least
  <2> HIDE DEF n
  <2>4. CASE n # 0
    BY <2>1, <2>4 DEF DrainInv
  <2>5. CASE n = 0
    <3>0. ring = <<>> /\ ring' = SubSeq(ring, 1, Len(ring))
      BY <2>1, <2>2, <2>3, <2>5 DEF Rest
    <3>1. Len(ring') = 0 /\ ring' \in Seq(Mbufs)
      BY <2>2, <3>0
    <3>2. ring' = <<>>
      BY <3>1
    <3> QED BY <2>1, <2>2, <2>5, <3>1, <3>2 DEF DrainInv
  <2> QED BY <2>4, <2>5
<1> QED BY <1>1, <1>2 DEF Consumer

\* The consumer drains only when it was told to stop, and nothing takes that
\* back.
QuitInv == cpc \in {"drain", "exited"} => quit_

LEMMA QuitInvStep == TypeOK /\ TeardownInv /\ QuitInv /\ [Next]_vars => QuitInv'
<1> SUFFICES ASSUME TypeOK, TeardownInv, QuitInv, [Next]_vars PROVE QuitInv'
  OBVIOUS
<1>1. quit_ => quit_'
  BY DEF Next, Terminated, Owner, InitEal, Start, Run, JoinProducer, JoinConsumer, Destroy,
         DestroyJoin, Unregister, Free, Stop, NewDevice, DestroyDevice, Callback,
         NewDeviceReady, DestroyDeviceVid, Producer, PQuit, PReady, PDequeueNone, PDequeue,
         PPush, Consumer, CQuit, CReady, CDequeue, CEnqueue, CFinish, CDrain, vars
<1>2. CASE UNCHANGED cpc
  BY <1>1, <1>2 DEF QuitInv
<1>3. CASE Consumer
  BY <1>1, <1>3 DEF Consumer, CQuit, CReady, CDequeue, CEnqueue, CFinish, CDrain, QuitInv
<1>4. CASE Run
  BY <1>1, <1>4 DEF Run, QuitInv
<1>5. ~ Consumer /\ ~ Run => UNCHANGED cpc
  BY DEF Next, Terminated, Owner, InitEal, Start, JoinProducer, JoinConsumer, Destroy,
         DestroyJoin, Unregister, Free, Stop, NewDevice, DestroyDevice, Callback,
         NewDeviceReady, DestroyDeviceVid, Producer, PQuit, PReady, PDequeueNone, PDequeue,
         PPush, vars, consumerVars
<1> QED BY <1>2, <1>3, <1>4, <1>5

LEMMA DrainInvStep ==
  TypeOK /\ TeardownInv /\ QuitInv /\ DrainInv /\ [Next]_vars => DrainInv'
<1> SUFFICES ASSUME TypeOK, TeardownInv, QuitInv, DrainInv, [Next]_vars PROVE DrainInv'
  OBVIOUS
<1>1. CASE Producer
  BY <1>1, DrainInvProducer
<1>2. CASE Consumer
  BY <1>2, DrainInvConsumer DEF QuitInv
<1>3. CASE Run
  BY <1>3 DEF Run, TeardownInv, DrainInv, packetVars
<1>4. CASE JoinConsumer
  BY <1>4 DEF JoinConsumer, DrainInv, packetVars, producerVars, consumerVars
<1>5. CASE Destroy \/ Stop
  BY <1>5 DEF Destroy, Stop, ownerVars, DrainInv, packetVars, producerVars, consumerVars
<1>6. CASE InitEal \/ Start \/ JoinProducer \/ DestroyJoin \/ Unregister \/ Free
  BY <1>6 DEF InitEal, Start, JoinProducer, DestroyJoin, Unregister, Free, DrainInv,
              packetVars, producerVars, consumerVars
<1>7. CASE Callback \/ \E v \in Vids : NewDevice(v) \/ DestroyDevice(v)
  BY <1>7 DEF Callback, NewDeviceReady, DestroyDeviceVid, NewDevice, DestroyDevice,
              ownerVars, DrainInv, packetVars, producerVars, consumerVars
<1>8. CASE UNCHANGED vars
  BY <1>8 DEF vars, ownerVars, DrainInv, packetVars, producerVars, consumerVars
<1> QED BY <1>1, <1>2, <1>3, <1>4, <1>5, <1>6, <1>7, <1>8 DEF Next, Owner, Terminated

\* When run() returns at most one burst is left in the ring, wherever the two
\* threads were when stop() was called.
THEOREM LeakAlwaysBounded == Spec => []LeakBound
<1>1. TypeOK /\ DrainInv => LeakBound
  BY ConstantsAssumption DEF DrainInv, LeakBound, TypeOK, PacketTypeOK, ProducerTypeOK
<1>2. Init => QuitInv
  BY DEF Init, QuitInv
<1> QED
  BY <1>1, <1>2, TypeCorrect, TeardownInvInit, TeardownInvStep, QuitInvStep,
     DrainInvInit, DrainInvStep, PTL DEF Spec

-----------------------------------------------------------------------------
(***************************************************************************)
(* The controller's data path: every mbuf is in one place, and threads,    *)
(* batches and ring together are the pipe of PacketPipe.  Both arguments   *)
(* are algebra of sequences: Held and Flight are concatenations, and each  *)
(* step moves a piece from one part to the next, drops the first piece, or *)
(* adds one at the end.                                                    *)
(***************************************************************************)

(***************************************************************************)
(* Sequences of mbufs.                                                     *)
(***************************************************************************)

\* What a concatenation is, element by element.
LEMMA ConcatAt ==
  \A s, t \in Seq(Mbufs) :
    /\ s \o t \in Seq(Mbufs) /\ Len(s \o t) = Len(s) + Len(t)
    /\ \A i \in 1..Len(s) : (s \o t)[i] = s[i]
    /\ \A i \in 1..Len(t) : (s \o t)[Len(s) + i] = t[i]
    /\ \A i \in 1..(Len(s) + Len(t)) :
         (s \o t)[i] = IF i <= Len(s) THEN s[i] ELSE t[i - Len(s)]
<1> TAKE s, t \in Seq(Mbufs)
<1> QED BY ConcatProperties

LEMMA Assoc ==
  \A s, t, u \in Seq(Mbufs) : (s \o t) \o u = s \o (t \o u)
  BY ConcatAssociative

LEMMA Empty ==
  /\ <<>> \in Seq(Mbufs) /\ Len(<<>>) = 0
  /\ \A s \in Seq(Mbufs) : s \o <<>> = s /\ <<>> \o s = s
  BY ConcatEmptySeq

\* A piece of a sequence and what follows it.
LEMMA RestSplit ==
  ASSUME NEW s \in Seq(Mbufs), NEW a \in Nat, NEW n \in Nat, a + n <= Len(s)
  PROVE  /\ SubSeq(s, a + 1, a + n) \in Seq(Mbufs)
         /\ Len(SubSeq(s, a + 1, a + n)) = n
         /\ \A i \in 1..n : SubSeq(s, a + 1, a + n)[i] = s[a + i]
         /\ Rest(s, a + n) \in Seq(Mbufs)
         /\ Rest(s, a) \in Seq(Mbufs)
         /\ SubSeq(s, a + 1, a + n) \o Rest(s, a + n) = Rest(s, a)
<1>1. Len(s) \in Nat OBVIOUS
<1>2. /\ SubSeq(s, a + 1, a + n) \in Seq(Mbufs)
      /\ Len(SubSeq(s, a + 1, a + n)) = n
      /\ \A i \in 1..n : SubSeq(s, a + 1, a + n)[i] = s[a + i]
  BY <1>1, SMTT(30)
<1>3. a + n \in 0..Len(s) /\ a \in 0..Len(s)
  BY <1>1
<1>4. Rest(s, a + n) \in Seq(Mbufs) /\ Rest(s, a) \in Seq(Mbufs)
  BY <1>3, PrefixRest
<1>5. SubSeq(s, a + 1, a + n) \o SubSeq(s, a + n + 1, Len(s)) = SubSeq(s, a + 1, Len(s))
  <2>1. /\ a + 1 \in 1..(Len(s) + 1) /\ a + n \in (a + 1) - 1..Len(s)
        /\ Len(s) \in (a + n)..Len(s)
    BY <1>1
  <2> QED BY <2>1, ConcatAdjacentSubSeq
<1> QED BY <1>2, <1>4, <1>5 DEF Rest

-----------------------------------------------------------------------------
(***************************************************************************)
(* Conservation, of any sequence h of mbufs against any pool.              *)
(***************************************************************************)
Distinct(s) == \A i, j \in 1..Len(s) : s[i] = s[j] => i = j
Conserved(h, free) ==
    /\ Distinct(h)
    /\ free \cap Elems(h) = {}
    /\ free \cup Elems(h) = Mbufs

LEMMA ElemsConcat ==
  \A s, t \in Seq(Mbufs) : Elems(s \o t) = Elems(s) \cup Elems(t)
<1> TAKE s, t \in Seq(Mbufs)
<1>0. Len(s) \in Nat /\ Len(t) \in Nat OBVIOUS
<1>1. ASSUME NEW i \in 1..Len(s \o t) PROVE (s \o t)[i] \in Elems(s) \cup Elems(t)
  <2>1. CASE i <= Len(s)
    BY <1>0, <2>1, ConcatAt DEF Elems
  <2>2. CASE i > Len(s)
    <3>1. i - Len(s) \in 1..Len(t) /\ (s \o t)[i] = t[i - Len(s)]
      BY <1>0, <2>2, ConcatAt
    <3> QED BY <3>1 DEF Elems
  <2> QED BY <1>0, <2>1, <2>2
<1>2. ASSUME NEW i \in 1..Len(s) PROVE s[i] \in Elems(s \o t)
  <2>1. i \in 1..Len(s \o t) /\ (s \o t)[i] = s[i]
    BY <1>0, ConcatAt
  <2> QED BY <2>1 DEF Elems
<1>3. ASSUME NEW i \in 1..Len(t) PROVE t[i] \in Elems(s \o t)
  <2>1. Len(s) + i \in 1..Len(s \o t) /\ (s \o t)[Len(s) + i] = t[i]
    BY <1>0, ConcatAt
  <2> QED BY <2>1 DEF Elems
<1> QED BY <1>1, <1>2, <1>3 DEF Elems

LEMMA DistinctConcat ==
  \A s, t \in Seq(Mbufs) :
    Distinct(s \o t) <=> Distinct(s) /\ Distinct(t) /\ Elems(s) \cap Elems(t) = {}
<1> TAKE s, t \in Seq(Mbufs)
<1>0. /\ Len(s) \in Nat /\ Len(t) \in Nat /\ Len(s \o t) = Len(s) + Len(t)
      /\ \A i \in 1..Len(s) : (s \o t)[i] = s[i]
      /\ \A i \in 1..Len(t) : (s \o t)[Len(s) + i] = t[i]
  BY ConcatAt
<1>1. ASSUME Distinct(s \o t)
      PROVE  Distinct(s) /\ Distinct(t) /\ Elems(s) \cap Elems(t) = {}
  <2>1. Distinct(s)
    BY <1>0, <1>1 DEF Distinct
  <2>2. ASSUME NEW i \in 1..Len(t), NEW j \in 1..Len(t), t[i] = t[j] PROVE i = j
    <3>1. Len(s) + i \in 1..Len(s \o t) /\ Len(s) + j \in 1..Len(s \o t)
      BY <1>0
    <3>2. Len(s) + i = Len(s) + j
      BY <1>0, <1>1, <2>2, <3>1 DEF Distinct
    <3> QED BY <1>0, <3>2
  <2>3. ASSUME NEW i \in 1..Len(s), NEW j \in 1..Len(t), s[i] = t[j] PROVE FALSE
    <3>1. i \in 1..Len(s \o t) /\ Len(s) + j \in 1..Len(s \o t)
      BY <1>0
    <3>2. i = Len(s) + j
      BY <1>0, <1>1, <2>3, <3>1 DEF Distinct
    <3> QED BY <1>0, <3>2
  <2> QED BY <2>1, <2>2, <2>3 DEF Distinct, Elems
<1>2. ASSUME Distinct(s), Distinct(t), Elems(s) \cap Elems(t) = {}
      PROVE  Distinct(s \o t)
  <2> SUFFICES ASSUME NEW i \in 1..Len(s \o t), NEW j \in 1..Len(s \o t),
                      (s \o t)[i] = (s \o t)[j]
               PROVE  i = j
    BY DEF Distinct
  <2>1. \A k \in 1..Len(s \o t) :
          \/ k \in 1..Len(s) /\ (s \o t)[k] = s[k]
          \/ k - Len(s) \in 1..Len(t) /\ (s \o t)[k] = t[k - Len(s)]
    BY <1>0, ConcatAt
  <2>2. \A k \in 1..Len(s), l \in 1..Len(t) : s[k] # t[l]
    BY <1>2 DEF Elems
  <2>3. CASE i \in 1..Len(s) /\ (s \o t)[i] = s[i]
    BY <1>2, <2>1, <2>2, <2>3 DEF Distinct
  <2>4. CASE i - Len(s) \in 1..Len(t) /\ (s \o t)[i] = t[i - Len(s)]
    <3>1. j - Len(s) \in 1..Len(t) /\ (s \o t)[j] = t[j - Len(s)]
      BY <2>1, <2>2, <2>4
    <3>2. i - Len(s) = j - Len(s)
      BY <1>2, <2>4, <3>1 DEF Distinct
    <3> QED BY <1>0, <3>2
  <2> QED BY <2>1, <2>3, <2>4
<1> QED BY <1>1, <1>2

\* The first piece is freed.
LEMMA Release ==
  ASSUME NEW p \in Seq(Mbufs), NEW h \in Seq(Mbufs), NEW free, Conserved(p \o h, free)
  PROVE  Conserved(h, free \cup Elems(p))
<1>1. Distinct(h) /\ Elems(p) \cap Elems(h) = {}
  BY DistinctConcat DEF Conserved
<1>2. Elems(p \o h) = Elems(p) \cup Elems(h)
  BY ElemsConcat
<1> QED BY <1>1, <1>2 DEF Conserved

\* Free mbufs are put at the end.
LEMMA Take ==
  ASSUME NEW h \in Seq(Mbufs), NEW b \in Seq(Mbufs), NEW free, Conserved(h, free),
         Distinct(b), Elems(b) \subseteq free
  PROVE  Conserved(h \o b, free \ Elems(b))
<1>1. Distinct(h \o b)
  BY DistinctConcat DEF Conserved
<1>2. Elems(h \o b) = Elems(h) \cup Elems(b)
  BY ElemsConcat
<1> QED BY <1>1, <1>2 DEF Conserved

-----------------------------------------------------------------------------
(***************************************************************************)
(* A thread holds mbufs only inside the loop that gets rid of them.        *)
(***************************************************************************)
HandsEmpty ==
    /\ ppc # "push" => ppkts = <<>> /\ psent = 0
    /\ cpc # "enqueue" => cpkts = <<>> /\ csent = 0

LEMMA HandsInit == Init => HandsEmpty
  BY DEF Init, HandsEmpty

LEMMA HandsStep == TypeOK /\ TeardownInv /\ HandsEmpty /\ [Next]_vars => HandsEmpty'
<1> SUFFICES ASSUME TypeOK, TeardownInv, HandsEmpty, [Next]_vars PROVE HandsEmpty'
  OBVIOUS
<1> USE DEF HandsEmpty, producerVars, consumerVars
<1>1. CASE Owner
  <2>1. CASE Run BY <2>1 DEF Run, TeardownInv
  <2>2. CASE ~ Run
    BY <1>1, <2>2 DEF Owner, InitEal, Start, JoinProducer, JoinConsumer, Destroy,
                      DestroyJoin, Unregister, Free
  <2> QED BY <2>1, <2>2
<1>2. CASE Stop BY <1>2 DEF Stop
<1>3. CASE \E v \in Vids : NewDevice(v) \/ DestroyDevice(v)
  BY <1>3 DEF NewDevice, DestroyDevice
<1>4. CASE Callback BY <1>4 DEF Callback, NewDeviceReady, DestroyDeviceVid
<1>5. CASE PQuit \/ PReady \/ PDequeueNone BY <1>5 DEF PQuit, PReady, PDequeueNone
<1>6. CASE PDequeue BY <1>6 DEF PDequeue
<1>7. CASE PPush BY <1>7 DEF PPush
<1>8. CASE CQuit \/ CReady BY <1>8 DEF CQuit, CReady
<1>9. CASE CDequeue
  <2>1. Len(ring) \in Nat /\ PKT_BURST_SZ \in Nat \ {0} /\ ring \in Seq(Mbufs)
    BY ConstantsAssumption DEF TypeOK, PacketTypeOK
  <2>2. Least(PKT_BURST_SZ, Len(ring)) = 0 => SubSeq(ring, 1, Least(PKT_BURST_SZ, Len(ring))) = <<>>
    BY <2>1
  <2> QED BY <1>9, <2>2 DEF CDequeue
<1>10. CASE CEnqueue BY <1>10 DEF CEnqueue
<1>11. CASE CFinish BY <1>11 DEF CFinish
<1>12. CASE CDrain BY <1>12 DEF CDrain
<1>13. CASE UNCHANGED vars BY <1>13 DEF vars
<1> QED BY <1>1, <1>2, <1>3, <1>4, <1>5, <1>6, <1>7, <1>8, <1>9, <1>10, <1>11, <1>12, <1>13
        DEF Next, Producer, Consumer, Terminated

-----------------------------------------------------------------------------
(***************************************************************************)
(* Where an mbuf can be.                                                   *)
(***************************************************************************)
Burst == Rest(ppkts, psent)    \* what the producer has still to push

LEMMA Parts ==
  ASSUME TypeOK
  PROVE  /\ cpkts \in Seq(Mbufs) /\ ring \in Seq(Mbufs) /\ ppkts \in Seq(Mbufs)
         /\ Burst \in Seq(Mbufs)
         /\ Rest(cpkts, csent) \in Seq(Mbufs)
         /\ Len(ring) \in Nat /\ Len(cpkts) \in Nat /\ Len(ppkts) \in Nat
         /\ psent \in 0..Len(ppkts) /\ csent \in 0..Len(cpkts)
         /\ Len(ring) <= RingCapacity /\ RingCapacity \in Nat
         /\ PKT_BURST_SZ \in Nat \ {0}
  BY PrefixRest, ConstantsAssumption, SMTT(30)
     DEF TypeOK, PacketTypeOK, ProducerTypeOK, ConsumerTypeOK, Burst

LEMMA LeastNat ==
  \A a, b \in Nat : Least(a, b) \in Nat /\ Least(a, b) <= a /\ Least(a, b) <= b
  BY DEF Least

LEMMA RestAll ==
  ASSUME NEW s \in Seq(Mbufs)
  PROVE  Rest(s, 0) = s /\ Rest(s, Len(s)) = <<>>
  BY DEF Rest

LEMMA FrontRest ==
  ASSUME NEW s \in Seq(Mbufs), NEW n \in Nat, n <= Len(s)
  PROVE  /\ SubSeq(s, 1, n) \in Seq(Mbufs) /\ Len(SubSeq(s, 1, n)) = n
         /\ Rest(s, n) \in Seq(Mbufs)
         /\ SubSeq(s, 1, n) \o Rest(s, n) = s
<1>1. Len(s) \in Nat /\ n \in 0..Len(s)
  OBVIOUS
<1>2. SubSeq(s, 1, n) \o SubSeq(s, n + 1, Len(s)) = SubSeq(s, 1, Len(s))
  <2>1. 1 \in 1..(Len(s) + 1) /\ n \in 1 - 1..Len(s) /\ Len(s) \in n..Len(s)
    BY <1>1
  <2> QED BY <2>1, ConcatAdjacentSubSeq
<1>3. SubSeq(s, 1, Len(s)) = s
  OBVIOUS
<1> QED BY <1>1, <1>2, <1>3, PrefixRest, ZenonT(30) DEF Rest

\* PPush moves the front of the burst to the end of the ring.
LEMMA PushMoves ==
  ASSUME TypeOK, PPush
  PROVE  ring' \o Burst' = ring \o Burst /\ ring' \in Seq(Mbufs) /\ Burst' \in Seq(Mbufs)
<1> DEFINE n == Least(Len(ppkts) - psent, RingCapacity - Len(ring))
           b == SubSeq(ppkts, psent + 1, psent + n)
<1>0. /\ ring \in Seq(Mbufs) /\ ppkts \in Seq(Mbufs) /\ Burst \in Seq(Mbufs)
      /\ psent \in Nat /\ n \in Nat /\ psent + n <= Len(ppkts)
  <2>1. /\ ring \in Seq(Mbufs) /\ ppkts \in Seq(Mbufs) /\ Burst \in Seq(Mbufs)
        /\ psent \in 0..Len(ppkts) /\ Len(ppkts) \in Nat /\ Len(ring) \in Nat
        /\ Len(ring) <= RingCapacity /\ RingCapacity \in Nat
    BY Parts
  <2>2. Len(ppkts) - psent \in Nat /\ RingCapacity - Len(ring) \in Nat /\ psent \in Nat
    BY ONLY <2>1
  <2>3. n \in Nat /\ n <= Len(ppkts) - psent
    BY ONLY <2>2, LeastNat, Zenon
  <2>4. psent + n <= Len(ppkts)
    BY ONLY <2>1, <2>2, <2>3
  <2> QED BY ONLY <2>1, <2>2, <2>3, <2>4
<1>1. ring' = ring \o b
  BY DEF PPush
<1>2. b \in Seq(Mbufs) /\ Rest(ppkts, psent + n) \in Seq(Mbufs)
      /\ b \o Rest(ppkts, psent + n) = Rest(ppkts, psent)
  BY <1>0, RestSplit
<1>3. Burst' = Rest(ppkts, psent + n)
  <2>1. CASE psent + n = Len(ppkts)
    <3>1. ppkts' = <<>> /\ psent' = 0
      BY <2>1 DEF PPush
    <3>2. Burst' = Rest(ppkts', psent')
      BY DEF Burst
    <3>3. Rest(<<>>, 0) = <<>> /\ Rest(ppkts, psent + n) = <<>>
      BY <1>0, <2>1, RestAll, Empty
    <3> QED BY <3>1, <3>2, <3>3
  <2>2. CASE psent + n # Len(ppkts)
    BY <2>2 DEF PPush, Burst
  <2> QED BY <2>1, <2>2
<1> HIDE DEF n, b
<1>4. (ring \o b) \o Rest(ppkts, psent + n) = ring \o (b \o Rest(ppkts, psent + n))
  BY <1>0, <1>2, Assoc
<1>5. ring \o b \in Seq(Mbufs)
  BY <1>0, <1>2, ConcatAt
<1> QED BY <1>1, <1>2, <1>3, <1>4, <1>5 DEF Burst

\* PDequeue gives the producer a burst of distinct free mbufs.
LEMMA DequeueTakes ==
  ASSUME TypeOK, HandsEmpty, PDequeue
  PROVE  /\ Burst = <<>> /\ Burst' = ppkts' /\ ppkts' \in Seq(Mbufs)
         /\ Distinct(ppkts') /\ Elems(ppkts') \subseteq pool
         /\ pool' = pool \ Elems(ppkts')
         /\ Len(ppkts') \in 1..PKT_BURST_SZ /\ taken' = taken + Len(ppkts')
         /\ \A i \in 1..Len(ppkts') : data'[ppkts'[i]] = taken + i
         /\ \A m \in Mbufs \ Elems(ppkts') : data'[m] = data[m]
<1>0. taken \in 0..MaxPkts /\ MaxPkts \in Nat /\ PKT_BURST_SZ \in Nat \ {0} /\ pool \subseteq Mbufs
  BY ConstantsAssumption DEF TypeOK, PacketTypeOK
<1>1. Burst = <<>>
  <2>1. ppkts = <<>> /\ psent = 0 BY DEF PDequeue, HandsEmpty
  <2> QED BY <2>1, RestAll, Empty DEF Burst
<1> DEFINE P(n, b) ==
         /\ \A i, j \in 1..n : b[i] = b[j] => i = j
         /\ ppkts' = b
         /\ pool' = pool \ {b[i] : i \in 1..n}
         /\ data' = [m \in Mbufs |->
                       IF \E i \in 1..n : b[i] = m
                       THEN taken + (CHOOSE i \in 1..n : b[i] = m)
                       ELSE data[m]]
         /\ taken' = taken + n
<1> PICK n \in 1..Least(PKT_BURST_SZ, MaxPkts - taken) : \E b \in [1..n -> pool] : P(n, b)
  BY DEF PDequeue
<1> PICK b \in [1..n -> pool] : P(n, b)
  OBVIOUS
<1>2. n \in 1..PKT_BURST_SZ /\ n \in Nat
  BY <1>0, LeastProp
<1>3. b \in Seq(Mbufs) /\ Len(b) = n /\ psent' = 0
  BY <1>0, <1>2 DEF PDequeue
<1>4. Burst' = ppkts'
  <2>1. Burst' = Rest(ppkts', psent') BY DEF Burst
  <2> QED BY <2>1, <1>3, RestAll
<1>5. Distinct(b) /\ Elems(b) = {b[i] : i \in 1..n} /\ Elems(b) \subseteq pool
  BY <1>3 DEF Distinct, Elems
<1>6. \A i \in 1..n : data'[b[i]] = taken + i
  <2> TAKE i \in 1..n
  <2>1. b[i] \in Mbufs BY <1>0
  <2>2. (CHOOSE k \in 1..n : b[k] = b[i]) = i
    <3>1. (CHOOSE k \in 1..n : b[k] = b[i]) \in 1..n /\ b[CHOOSE k \in 1..n : b[k] = b[i]] = b[i]
      OBVIOUS
    <3> QED BY <3>1
  <2> QED BY <2>1, <2>2
<1>7. \A m \in Mbufs \ Elems(b) : data'[m] = data[m]
  BY <1>5
<1> QED BY <1>1, <1>2, <1>3, <1>4, <1>5, <1>6, <1>7

\* A batch is the front of the ring.
LEMMA FrontOfRing ==
  ASSUME TypeOK
  PROVE  LET n == Least(PKT_BURST_SZ, Len(ring))
         IN  /\ n \in Nat /\ n <= Len(ring)
             /\ SubSeq(ring, 1, n) \in Seq(Mbufs) /\ Len(SubSeq(ring, 1, n)) = n
             /\ Rest(ring, n) \in Seq(Mbufs)
             /\ SubSeq(ring, 1, n) \o Rest(ring, n) = ring
<1> DEFINE n == Least(PKT_BURST_SZ, Len(ring))
<1>0. ring \in Seq(Mbufs) /\ Len(ring) \in Nat /\ PKT_BURST_SZ \in Nat
  BY Parts
<1>1. ring \in Seq(Mbufs) /\ n \in Nat /\ n <= Len(ring)
  BY ONLY <1>0, LeastNat, Zenon
<1> HIDE DEF n
<1>2. /\ SubSeq(ring, 1, n) \in Seq(Mbufs) /\ Len(SubSeq(ring, 1, n)) = n
      /\ Rest(ring, n) \in Seq(Mbufs)
      /\ SubSeq(ring, 1, n) \o Rest(ring, n) = ring
  BY <1>1, FrontRest
<1> QED BY <1>1, <1>2 DEF n

-----------------------------------------------------------------------------
(***************************************************************************)
(* Every mbuf is free or held in one place.                                *)
(***************************************************************************)
DataStep == PDequeue \/ PPush \/ CDequeue \/ CEnqueue \/ CFinish \/ CDrain

\* All other steps leave the packets where they are.
LEMMA QuietStep ==
  [Next]_vars /\ ~ DataStep =>
    UNCHANGED <<packetVars, ppkts, psent, rx_pkts_, cpkts, csent, tx_pkts_>>
<1> SUFFICES ASSUME [Next]_vars, ~ DataStep
             PROVE  UNCHANGED <<packetVars, ppkts, psent, rx_pkts_, cpkts, csent, tx_pkts_>>
  OBVIOUS
<1> USE DEF producerVars, consumerVars
<1>1. CASE Owner
  BY <1>1 DEF Owner, InitEal, Start, Run, JoinProducer, JoinConsumer, Destroy,
              DestroyJoin, Unregister, Free
<1>2. CASE Stop BY <1>2 DEF Stop
<1>3. CASE \E v \in Vids : NewDevice(v) \/ DestroyDevice(v)
  BY <1>3 DEF NewDevice, DestroyDevice
<1>4. CASE Callback BY <1>4 DEF Callback, NewDeviceReady, DestroyDeviceVid
<1>5. CASE PQuit \/ PReady \/ PDequeueNone BY <1>5 DEF PQuit, PReady, PDequeueNone
<1>6. CASE CQuit \/ CReady BY <1>6 DEF CQuit, CReady
<1>7. CASE UNCHANGED vars BY <1>7 DEF vars
<1> QED BY <1>1, <1>2, <1>3, <1>4, <1>5, <1>6, <1>7
        DEF Next, Producer, Consumer, Terminated, DataStep

LEMMA Three ==
  \A s, t, u \in Seq(Mbufs) :
    /\ t \o u \in Seq(Mbufs) /\ s \o (t \o u) \in Seq(Mbufs)
    /\ s \o t \o u = s \o (t \o u)
<1> TAKE s, t, u \in Seq(Mbufs)
<1>1. t \o u \in Seq(Mbufs)
  BY ONLY ConcatAt, Zenon
<1>2. s \o (t \o u) \in Seq(Mbufs)
  BY ONLY <1>1, ConcatAt, Zenon
<1>3. (s \o t) \o u = s \o (t \o u)
  BY ONLY Assoc, Zenon
<1> QED BY <1>1, <1>2, <1>3

LEMMA HeldParts ==
  ASSUME TypeOK
  PROVE  /\ cpkts \in Seq(Mbufs) /\ ring \in Seq(Mbufs) /\ Burst \in Seq(Mbufs)
         /\ Held \in Seq(Mbufs) /\ ring \o Burst \in Seq(Mbufs)
         /\ Held = cpkts \o (ring \o Burst)
<1>1. cpkts \in Seq(Mbufs) /\ ring \in Seq(Mbufs) /\ Burst \in Seq(Mbufs)
  BY Parts
<1>2. Held = cpkts \o ring \o Burst
  BY DEF Held, Burst
<1> QED BY ONLY <1>1, <1>2, Three, Zenon

LEMMA HeldPartsNext ==
  ASSUME TypeOK'
  PROVE  /\ cpkts' \in Seq(Mbufs) /\ ring' \in Seq(Mbufs) /\ Burst' \in Seq(Mbufs)
         /\ Held' \in Seq(Mbufs) /\ ring' \o Burst' \in Seq(Mbufs)
         /\ Held' = cpkts' \o (ring' \o Burst')
<1>1. /\ cpkts' \in Seq(Mbufs) /\ ring' \in Seq(Mbufs)
      /\ ppkts' \in Seq(Mbufs) /\ psent' \in 0..Len(ppkts')
  BY DEF TypeOK, PacketTypeOK, ProducerTypeOK, ConsumerTypeOK
<1> DEFINE b == Rest(ppkts', psent')
<1>2. b \in Seq(Mbufs)
  BY <1>1, PrefixRest
<1> HIDE DEF b
<1>3. /\ ring' \o b \in Seq(Mbufs) /\ cpkts' \o (ring' \o b) \in Seq(Mbufs)
      /\ cpkts' \o ring' \o b = cpkts' \o (ring' \o b)
  BY ONLY <1>1, <1>2, Three, SMTT(30)
<1>4. Burst' = b /\ Held' = cpkts' \o ring' \o b
  BY DEF Held, Burst, b
<1> QED BY <1>1, <1>2, <1>3, <1>4

LEMMA ConservationInit == Init => MbufConservation
<1> SUFFICES ASSUME Init PROVE MbufConservation
  OBVIOUS
<1>1. cpkts = <<>> /\ ring = <<>> /\ ppkts = <<>> /\ psent = 0 /\ pool = Mbufs
  BY DEF Init
<1>2. Held = <<>>
  BY <1>1, RestAll, Empty DEF Held
<1>3. Len(Held) = 0 /\ Elems(Held) = {}
  BY <1>2 DEF Elems
<1> QED BY <1>1, <1>3 DEF MbufConservation

LEMMA ConservationStep ==
  TypeOK /\ TypeOK' /\ HandsEmpty /\ MbufConservation /\ [Next]_vars => MbufConservation'
<1> SUFFICES ASSUME TypeOK, TypeOK', HandsEmpty, Conserved(Held, pool), [Next]_vars
             PROVE  Conserved(Held', pool')
  BY DEF MbufConservation, Conserved, Distinct, Elems
<1>0. /\ cpkts \in Seq(Mbufs) /\ ring \in Seq(Mbufs) /\ Burst \in Seq(Mbufs)
      /\ Held \in Seq(Mbufs) /\ ring \o Burst \in Seq(Mbufs)
      /\ Held = cpkts \o (ring \o Burst)
  BY HeldParts
<1>1. /\ cpkts' \in Seq(Mbufs) /\ ring' \in Seq(Mbufs) /\ Burst' \in Seq(Mbufs)
      /\ Held' \in Seq(Mbufs) /\ ring' \o Burst' \in Seq(Mbufs)
      /\ Held' = cpkts' \o (ring' \o Burst')
  BY HeldPartsNext
<1>2. CASE PDequeue
  <2>1. /\ Burst = <<>> /\ Burst' = ppkts' /\ ppkts' \in Seq(Mbufs)
        /\ Distinct(ppkts') /\ Elems(ppkts') \subseteq pool
        /\ pool' = pool \ Elems(ppkts')
    BY <1>2, DequeueTakes
  <2>2. cpkts' = cpkts /\ ring' = ring
    BY <1>2 DEF PDequeue, consumerVars
  <2>3. Held = cpkts \o ring
    BY <1>0, <2>1, Empty
  <2>4. Held' = (cpkts \o ring) \o ppkts'
    BY ONLY <1>0, <1>1, <2>1, <2>2, Assoc
  <2> QED BY ONLY <1>0, <2>1, <2>3, <2>4, Conserved(Held, pool), Take
<1>3. CASE PPush
  <2>1. ring' \o Burst' = ring \o Burst
    BY <1>3, PushMoves
  <2>2. cpkts' = cpkts /\ pool' = pool
    BY <1>3 DEF PPush, consumerVars
  <2> QED BY <1>0, <1>1, <2>1, <2>2
<1>4. CASE CDequeue
  <2> DEFINE n == Least(PKT_BURST_SZ, Len(ring))
  <2>1. cpkts' = SubSeq(ring, 1, n) /\ ring' = Rest(ring, n) /\ pool' = pool /\ Burst' = Burst
    BY <1>4 DEF CDequeue, producerVars, Burst
  <2>2. cpkts = <<>>
    BY <1>4 DEF CDequeue, HandsEmpty
  <2>3. ring = cpkts' \o ring'
    BY <2>1, FrontOfRing
  <2>4. Held = ring \o Burst
    BY <1>0, <2>2, Empty
  <2>5. Held' = (cpkts' \o ring') \o Burst
    <3>1. (cpkts' \o ring') \o Burst = cpkts' \o (ring' \o Burst)
      <4>1. cpkts' \in Seq(Mbufs) /\ ring' \in Seq(Mbufs) /\ Burst \in Seq(Mbufs)
        BY <1>0, <1>1
      <4> QED BY ONLY <4>1, Assoc, Zenon
    <3>2. Burst' = Burst BY <2>1
    <3> QED BY ONLY <1>1, <3>1, <3>2, Zenon
  <2> QED BY ONLY <2>1, <2>3, <2>4, <2>5, Conserved(Held, pool)
<1>5. CASE CEnqueue
  <2>1. cpkts' = cpkts /\ ring' = ring /\ pool' = pool /\ Burst' = Burst
    BY <1>5 DEF CEnqueue, producerVars, Burst
  <2> QED BY <1>0, <1>1, <2>1
<1>6. CASE CFinish
  <2>1. cpkts' = <<>> /\ ring' = ring /\ pool' = pool \cup Elems(cpkts) /\ Burst' = Burst
    BY <1>6 DEF CFinish, producerVars, Burst
  <2>2. Held' = ring \o Burst
    BY <1>0, <1>1, <2>1, Empty
  <2> QED BY ONLY <1>0, <2>1, <2>2, Conserved(Held, pool), Release
<1>7. CASE CDrain
  <2> DEFINE n == Least(PKT_BURST_SZ, Len(ring))
             p == SubSeq(ring, 1, n)
  <2>1. /\ cpkts' = cpkts /\ ring' = Rest(ring, n) /\ pool' = pool \cup Elems(p)
        /\ Burst' = Burst
    BY <1>7 DEF CDrain, producerVars, Burst
  <2>2. cpkts = <<>>
    BY <1>7 DEF CDrain, HandsEmpty
  <2>3. ring = p \o ring' /\ p \in Seq(Mbufs)
    BY <2>1, FrontOfRing
  <2> HIDE DEF p
  <2>4. Held = ring \o Burst /\ Held' = ring' \o Burst
    BY <1>0, <1>1, <2>1, <2>2, Empty
  <2>5. Held = p \o Held'
    <3>1. (p \o ring') \o Burst = p \o (ring' \o Burst)
      <4>1. p \in Seq(Mbufs) /\ ring' \in Seq(Mbufs) /\ Burst \in Seq(Mbufs)
        BY <1>0, <1>1, <2>3
      <4> QED BY ONLY <4>1, Assoc, Zenon
    <3> QED BY ONLY <2>3, <2>4, <3>1, Zenon
  <2> QED BY ONLY <1>1, <2>1, <2>3, <2>5, Conserved(Held, pool), Release
<1>8. CASE ~ DataStep
  <2>1. cpkts' = cpkts /\ ring' = ring /\ pool' = pool /\ Burst' = Burst
    BY <1>8, QuietStep DEF packetVars, Burst
  <2> QED BY <1>0, <1>1, <2>1
<1> QED BY <1>2, <1>3, <1>4, <1>5, <1>6, <1>7, <1>8 DEF DataStep

\* Every mbuf is free or held in exactly one place, whatever the threads do:
\* no double free, no free of a packet in use, no mbuf forgotten.
THEOREM MbufsConserved == Spec => []MbufConservation
  BY TypeCorrect, TeardownInvInit, TeardownInvStep, HandsInit, HandsStep,
     ConservationInit, ConservationStep, PTL DEF Spec

-----------------------------------------------------------------------------
(***************************************************************************)
(* The packets in a sequence s of mbufs that carry what d says.            *)
(***************************************************************************)
Carried(d, s) == [i \in 1..Len(s) |-> d[s[i]]]

\* Two sequences of numbers with the same elements are the same.
LEMMA SameSeq ==
  ASSUME NEW s \in Seq(Int), NEW t \in Seq(Int), NEW n \in Nat,
         Len(s) = n, Len(t) = n, \A i \in 1..n : s[i] = t[i]
  PROVE  s = t
  BY SeqEqual

\* A concatenation and its halves.
LEMMA ConcatInt ==
  \A s, t \in Seq(Int) :
    /\ s \o t \in Seq(Int) /\ Len(s \o t) = Len(s) + Len(t)
    /\ \A i \in 1..(Len(s) + Len(t)) :
         (s \o t)[i] = IF i <= Len(s) THEN s[i] ELSE t[i - Len(s)]
    /\ SubSeq(s \o t, 1, Len(s)) = s
    /\ SubSeq(s \o t, Len(s) + 1, Len(s \o t)) = t
<1> TAKE s, t \in Seq(Int)
<1> DEFINE q == s \o t
<1>1. /\ q \in Seq(Int) /\ Len(q) = Len(s) + Len(t)
      /\ \A i \in 1..(Len(s) + Len(t)) :
           q[i] = IF i <= Len(s) THEN s[i] ELSE t[i - Len(s)]
      /\ Len(s) \in Nat /\ Len(t) \in Nat
  BY ConcatProperties
<1>a. \A i \in 1..Len(t) : Len(s) + i \in 1..(Len(s) + Len(t)) /\ ~ (Len(s) + i <= Len(s))
                          /\ (Len(s) + i) - Len(s) = i
  BY <1>1
<1>b. \A i \in 1..Len(t) : q[Len(s) + i] = t[i]
  BY <1>1, <1>a
<1> HIDE DEF q
<1>2. SubSeq(q, 1, Len(s)) = s
  <2>1. /\ SubSeq(q, 1, Len(s)) \in Seq(Int) /\ Len(SubSeq(q, 1, Len(s))) = Len(s)
        /\ \A i \in 1..Len(s) : SubSeq(q, 1, Len(s))[i] = s[i]
    BY <1>1
  <2> QED BY ONLY <1>1, <2>1, SameSeq, s \in Seq(Int)
<1>3. SubSeq(q, Len(s) + 1, Len(q)) = t
  <2> DEFINE r == SubSeq(q, Len(s) + 1, Len(q))
  <2>1. r \in Seq(Int) /\ Len(r) = Len(t) /\ \A i \in 1..Len(t) : r[i] = q[Len(s) + i]
    BY <1>1
  <2> HIDE DEF r
  <2>2. \A i \in 1..Len(t) : r[i] = t[i]
    BY <1>b, <2>1
  <2>3. r = t
    BY ONLY <1>1, <2>1, <2>2, SameSeq, t \in Seq(Int)
  <2> QED BY <2>3 DEF r
<1> QED BY <1>1, <1>2, <1>3 DEF q

LEMMA CarriedSeq ==
  ASSUME NEW d \in [Mbufs -> Int], NEW s \in Seq(Mbufs)
  PROVE  /\ Carried(d, s) \in Seq(Int) /\ Len(Carried(d, s)) = Len(s)
         /\ \A i \in 1..Len(s) : Carried(d, s)[i] = d[s[i]]
<1>1. Len(s) \in Nat /\ \A i \in 1..Len(s) : s[i] \in Mbufs
  OBVIOUS
<1>2. \A i \in 1..Len(s) : d[s[i]] \in Int
  BY <1>1
<1> QED BY <1>1, <1>2 DEF Carried

\* Packets are appended when mbufs are.
LEMMA CarriedConcat ==
  ASSUME NEW d \in [Mbufs -> Int], NEW s \in Seq(Mbufs), NEW t \in Seq(Mbufs)
  PROVE  Carried(d, s \o t) = Carried(d, s) \o Carried(d, t)
<1> DEFINE a == Carried(d, s)
           b == Carried(d, t)
           c == Carried(d, s \o t)
<1>1. /\ s \o t \in Seq(Mbufs) /\ Len(s \o t) = Len(s) + Len(t)
      /\ \A i \in 1..(Len(s) + Len(t)) :
           (s \o t)[i] = IF i <= Len(s) THEN s[i] ELSE t[i - Len(s)]
      /\ Len(s) \in Nat /\ Len(t) \in Nat
  BY ConcatAt
<1>2. /\ a \in Seq(Int) /\ Len(a) = Len(s) /\ \A i \in 1..Len(s) : a[i] = d[s[i]]
      /\ b \in Seq(Int) /\ Len(b) = Len(t) /\ \A i \in 1..Len(t) : b[i] = d[t[i]]
  BY CarriedSeq
<1>3. /\ c \in Seq(Int) /\ Len(c) = Len(s) + Len(t)
      /\ \A i \in 1..(Len(s) + Len(t)) : c[i] = d[(s \o t)[i]]
  BY <1>1, CarriedSeq, ZenonT(30)
<1> HIDE DEF a, b, c
<1>4. /\ a \o b \in Seq(Int) /\ Len(a \o b) = Len(s) + Len(t)
      /\ \A i \in 1..(Len(s) + Len(t)) :
           (a \o b)[i] = IF i <= Len(s) THEN a[i] ELSE b[i - Len(s)]
  <2>1. /\ a \o b \in Seq(Int) /\ Len(a \o b) = Len(a) + Len(b)
        /\ \A i \in 1..(Len(a) + Len(b)) :
             (a \o b)[i] = IF i <= Len(a) THEN a[i] ELSE b[i - Len(a)]
    BY ONLY <1>2, ConcatInt, Zenon
  <2> QED BY ONLY <1>2, <2>1
<1>5. ASSUME NEW i \in 1..(Len(s) + Len(t)) PROVE c[i] = (a \o b)[i]
  <2>1. CASE i <= Len(s)
    <3>1. i \in 1..Len(s) BY <1>1, <2>1
    <3> QED BY <1>1, <1>2, <1>3, <1>4, <2>1, <3>1
  <2>2. CASE ~ (i <= Len(s))
    <3>1. i - Len(s) \in 1..Len(t) BY <1>1, <2>2
    <3>2. c[i] = d[t[i - Len(s)]] BY <1>1, <1>3, <2>2
    <3>3. (a \o b)[i] = b[i - Len(s)] BY <1>4, <2>2
    <3>4. b[i - Len(s)] = d[t[i - Len(s)]] BY <1>2, <3>1
    <3> QED BY <3>2, <3>3, <3>4
  <2> QED BY <2>1, <2>2
<1>6. c = a \o b
  <2>1. Len(s) + Len(t) \in Nat BY <1>1
  <2> QED BY ONLY <1>3, <1>4, <1>5, <2>1, SameSeq
<1> QED BY <1>6 DEF a, b, c

\* The packets in the first piece, and the packets after it.
LEMMA CarriedFront ==
  \A d \in [Mbufs -> Int], x, y \in Seq(Mbufs) : \A q :
    q = Carried(d, x \o y) =>
      /\ Len(q) = Len(x) + Len(y)
      /\ SubSeq(q, 1, Len(x)) = Carried(d, x)
      /\ SubSeq(q, Len(x) + 1, Len(q)) = Carried(d, y)
<1> TAKE d \in [Mbufs -> Int], x, y \in Seq(Mbufs)
<1> SUFFICES ASSUME NEW q, q = Carried(d, x \o y)
             PROVE  /\ Len(q) = Len(x) + Len(y)
                    /\ SubSeq(q, 1, Len(x)) = Carried(d, x)
                    /\ SubSeq(q, Len(x) + 1, Len(q)) = Carried(d, y)
  OBVIOUS
<1> DEFINE a == Carried(d, x)
           b == Carried(d, y)
<1>0. a \in Seq(Int) /\ Len(a) = Len(x) /\ b \in Seq(Int) /\ Len(b) = Len(y)
  BY CarriedSeq
<1>1. q = a \o b
  BY CarriedConcat
<1> HIDE DEF a, b
<1>2. /\ Len(q) = Len(a) + Len(b)
      /\ SubSeq(q, 1, Len(a)) = a /\ SubSeq(q, Len(a) + 1, Len(q)) = b
  BY ONLY <1>0, <1>1, ConcatInt, Zenon
<1> QED BY <1>0, <1>2 DEF a, b

-----------------------------------------------------------------------------
(***************************************************************************)
(* The controller implements the pipe.                                     *)
(***************************************************************************)
Queue == Packets(Flight)

LEMMA FlightParts ==
  ASSUME TypeOK
  PROVE  /\ Rest(cpkts, csent) \in Seq(Mbufs) /\ Flight \in Seq(Mbufs)
         /\ Flight = Rest(cpkts, csent) \o (ring \o Burst)
         /\ Queue = Carried(data, Flight) /\ data \in [Mbufs -> Int]
<1>1. Rest(cpkts, csent) \in Seq(Mbufs) /\ ring \in Seq(Mbufs) /\ Burst \in Seq(Mbufs)
  BY Parts
<1>2. Flight = Rest(cpkts, csent) \o ring \o Burst
  BY DEF Flight, Burst
<1>3. Queue = Carried(data, Flight)
  BY DEF Queue, Packets, Carried
<1>4. data \in [Mbufs -> Int]
  BY ConstantsAssumption DEF TypeOK, PacketTypeOK
<1>5. Flight \in Seq(Mbufs) /\ Flight = Rest(cpkts, csent) \o (ring \o Burst)
  BY ONLY <1>1, <1>2, Three, Zenon
<1> QED BY <1>1, <1>3, <1>4, <1>5

LEMMA FlightPartsNext ==
  ASSUME TypeOK'
  PROVE  /\ Rest(cpkts', csent') \in Seq(Mbufs) /\ Flight' \in Seq(Mbufs)
         /\ Flight' = Rest(cpkts', csent') \o (ring' \o Burst')
         /\ Queue' = Carried(data', Flight') /\ data' \in [Mbufs -> Int]
<1>1. /\ cpkts' \in Seq(Mbufs) /\ csent' \in 0..Len(cpkts') /\ ring' \in Seq(Mbufs)
      /\ ppkts' \in Seq(Mbufs) /\ psent' \in 0..Len(ppkts')
  BY DEF TypeOK, PacketTypeOK, ProducerTypeOK, ConsumerTypeOK
<1> DEFINE b == Rest(ppkts', psent')
           c == Rest(cpkts', csent')
<1>2. b \in Seq(Mbufs) /\ c \in Seq(Mbufs)
  BY <1>1, PrefixRest
<1> HIDE DEF b, c
<1>3. c \o (ring' \o b) \in Seq(Mbufs) /\ c \o ring' \o b = c \o (ring' \o b)
  <2>1. c \in Seq(Mbufs) /\ ring' \in Seq(Mbufs) /\ b \in Seq(Mbufs)
    BY <1>1, <1>2
  <2> QED BY ONLY <2>1, Three, Zenon
<1>4. Burst' = b /\ Flight' = c \o ring' \o b
  BY DEF Flight, Burst, b, c
<1>5. Queue' = Carried(data', Flight')
  BY DEF Queue, Packets, Carried, Flight
<1>6. data' \in [Mbufs -> Int]
  BY ConstantsAssumption DEF TypeOK, PacketTypeOK
<1> QED BY <1>2, <1>3, <1>4, <1>5, <1>6 DEF c

\* A step that leaves the mbufs in flight and their packets alone.
LEMMA KeepsQueue ==
  ASSUME Flight' = Flight, data' = data
  PROVE  Queue' = Queue
  BY DEF Queue, Packets

\* A step that takes the piece x off the front.
LEMMA PopsQueue ==
  ASSUME TypeOK, TypeOK', NEW x \in Seq(Mbufs), Flight = x \o Flight', data' = data
  PROVE  /\ Len(x) <= Len(Queue) /\ Len(x) \in Nat /\ Len(Queue) \in Nat
         /\ SubSeq(Queue, 1, Len(x)) = Carried(data, x)
         /\ Queue' = SubSeq(Queue, Len(x) + 1, Len(Queue))
         /\ Len(x) = 0 => Queue' = Queue
<1>1. /\ Flight' \in Seq(Mbufs) /\ Queue' = Carried(data, Flight')
      /\ Queue = Carried(data, Flight) /\ data \in [Mbufs -> Int]
  BY FlightParts, FlightPartsNext
<1> PICK g \in Seq(Mbufs) : g = Flight'
  BY <1>1
<1>2. Queue = Carried(data, x \o g)
  BY <1>1
<1>3. /\ Len(Queue) = Len(x) + Len(g)
      /\ SubSeq(Queue, 1, Len(x)) = Carried(data, x)
      /\ SubSeq(Queue, Len(x) + 1, Len(Queue)) = Carried(data, g)
  <2>1. data \in [Mbufs -> Int] BY <1>1
  <2>2. \A q : q = Carried(data, x \o g) =>
               /\ Len(q) = Len(x) + Len(g)
               /\ SubSeq(q, 1, Len(x)) = Carried(data, x)
               /\ SubSeq(q, Len(x) + 1, Len(q)) = Carried(data, g)
    BY ONLY <2>1, CarriedFront, g \in Seq(Mbufs), x \in Seq(Mbufs), Zenon
  <2> QED BY ONLY <1>2, <2>2, Zenon
<1>4. Len(x) \in Nat /\ Len(g) \in Nat
  OBVIOUS
<1>5. Queue' = Carried(data, g)
  BY <1>1
<1>6. Len(x) = 0 => Queue' = Queue
  <2> SUFFICES ASSUME Len(x) = 0 PROVE Queue' = Queue
    OBVIOUS
  <2>1. x = <<>> BY EmptySeq
  <2>2. x \o g = g BY <2>1, Empty
  <2> QED BY <1>2, <1>5, <2>2
<1>7. Len(x) <= Len(Queue) /\ Len(Queue) \in Nat
  BY ONLY <1>3, <1>4
<1> QED BY <1>3, <1>4, <1>5, <1>6, <1>7

\* A step that puts the piece b at the end, in mbufs that were not in flight.
LEMMA PushesQueue ==
  ASSUME TypeOK, TypeOK', NEW b \in Seq(Mbufs), Flight' = Flight \o b,
         NEW first \in Nat,
         \A i \in 1..Len(b) : data'[b[i]] = first + i,
         \A m \in Elems(Flight) : data'[m] = data[m]
  PROVE  Queue' = Queue \o [i \in 1..Len(b) |-> first + i]
<1>1. /\ Flight \in Seq(Mbufs) /\ Queue' = Carried(data', Flight')
      /\ Queue = Carried(data, Flight) /\ data \in [Mbufs -> Int] /\ data' \in [Mbufs -> Int]
  BY FlightParts, FlightPartsNext
<1> PICK d, e, f : d = data /\ e = data' /\ f = Flight
  OBVIOUS
<1>2. /\ f \in Seq(Mbufs) /\ d \in [Mbufs -> Int] /\ e \in [Mbufs -> Int]
      /\ Queue' = Carried(e, f \o b) /\ Queue = Carried(d, f)
      /\ \A i \in 1..Len(b) : e[b[i]] = first + i
      /\ \A m \in Elems(f) : e[m] = d[m]
  BY <1>1
<1>3. Carried(e, f \o b) = Carried(e, f) \o Carried(e, b)
  BY <1>2, CarriedConcat
<1>4. Carried(e, b) = [i \in 1..Len(b) |-> first + i]
  BY <1>2 DEF Carried
<1>5. Carried(e, f) = Carried(d, f)
  BY <1>2 DEF Carried, Elems
<1> QED BY ONLY <1>2, <1>3, <1>4, <1>5, Zenon

\* The steps that move mbufs, as changes of Flight.
LEMMA FlightStep ==
  ASSUME TypeOK, TypeOK', HandsEmpty
  PROVE  /\ PPush \/ CDequeue => Flight' = Flight
         /\ PDequeue => Flight' = Flight \o ppkts'
         /\ CFinish => Flight = Rest(cpkts, csent) \o Flight'
         /\ CDrain => Flight = SubSeq(ring, 1, Least(PKT_BURST_SZ, Len(ring))) \o Flight'
<1> DEFINE c == Rest(cpkts, csent)
<1>0. /\ cpkts \in Seq(Mbufs) /\ ring \in Seq(Mbufs) /\ Burst \in Seq(Mbufs)
      /\ c \in Seq(Mbufs) /\ ring \o Burst \in Seq(Mbufs)
      /\ Flight = c \o (ring \o Burst)
  BY Parts, HeldParts, FlightParts
<1>1. /\ cpkts' \in Seq(Mbufs) /\ ring' \in Seq(Mbufs) /\ Burst' \in Seq(Mbufs)
      /\ ring' \o Burst' \in Seq(Mbufs)
      /\ Flight' = Rest(cpkts', csent') \o (ring' \o Burst')
  BY HeldPartsNext, FlightPartsNext
<1>2. ASSUME cpkts = <<>>, csent = 0 PROVE Flight = ring \o Burst
  <2>1. c = <<>> BY <1>2, RestAll, Empty
  <2> QED BY <1>0, <2>1, Empty
<1>3. ASSUME cpkts' = <<>>, csent' = 0 PROVE Flight' = ring' \o Burst'
  <2>1. Rest(cpkts', csent') = <<>> BY <1>3, RestAll, Empty
  <2> QED BY <1>1, <2>1, Empty
<1>4. ASSUME PPush PROVE Flight' = Flight
  <2>1. ring' \o Burst' = ring \o Burst BY <1>4, PushMoves
  <2>2. cpkts' = cpkts /\ csent' = csent BY <1>4 DEF PPush, consumerVars
  <2> QED BY <1>0, <1>1, <2>1, <2>2
<1>5. ASSUME CDequeue PROVE Flight' = Flight
  <2>1. /\ cpkts' = SubSeq(ring, 1, Least(PKT_BURST_SZ, Len(ring)))
        /\ ring' = Rest(ring, Least(PKT_BURST_SZ, Len(ring)))
        /\ csent' = 0 /\ Burst' = Burst
    BY <1>5 DEF CDequeue, producerVars, Burst
  <2>2. Flight = ring \o Burst
    BY <1>2, <1>5 DEF CDequeue, HandsEmpty
  <2>3. ring = cpkts' \o ring'
    BY <2>1, FrontOfRing
  <2>4. Flight' = cpkts' \o (ring' \o Burst)
    BY <1>1, <2>1, RestAll
  <2>5. (cpkts' \o ring') \o Burst = cpkts' \o (ring' \o Burst)
    <3>1. cpkts' \in Seq(Mbufs) /\ ring' \in Seq(Mbufs) /\ Burst \in Seq(Mbufs)
      BY <1>0, <1>1
    <3> QED BY ONLY <3>1, Assoc, Zenon
  <2> QED BY <2>2, <2>3, <2>4, <2>5
<1>6. ASSUME PDequeue PROVE Flight' = Flight \o ppkts'
  <2>1. Burst = <<>> /\ Burst' = ppkts' /\ ppkts' \in Seq(Mbufs)
    BY <1>6, DequeueTakes
  <2>2. cpkts' = cpkts /\ csent' = csent /\ ring' = ring
    BY <1>6 DEF PDequeue, consumerVars
  <2>3. Flight = c \o ring
    BY <1>0, <2>1, Empty
  <2>4. Flight' = c \o (ring \o ppkts')
    BY <1>1, <2>1, <2>2
  <2>5. (c \o ring) \o ppkts' = c \o (ring \o ppkts')
    <3>1. c \in Seq(Mbufs) /\ ring \in Seq(Mbufs) /\ ppkts' \in Seq(Mbufs)
      BY <1>0, <2>1
    <3> HIDE DEF c
    <3> QED BY ONLY <3>1, Assoc, Zenon
  <2> QED BY <2>3, <2>4, <2>5
<1>7. ASSUME CFinish PROVE Flight = c \o Flight'
  <2>1. cpkts' = <<>> /\ csent' = 0 /\ ring' = ring /\ Burst' = Burst
    BY <1>7 DEF CFinish, producerVars, Burst
  <2> QED BY <1>0, <1>3, <2>1
<1>8. ASSUME CDrain
      PROVE  Flight = SubSeq(ring, 1, Least(PKT_BURST_SZ, Len(ring))) \o Flight'
  <2> DEFINE p == SubSeq(ring, 1, Least(PKT_BURST_SZ, Len(ring)))
  <2>1. /\ cpkts = <<>> /\ csent = 0 /\ cpkts' = cpkts /\ csent' = csent
        /\ ring' = Rest(ring, Least(PKT_BURST_SZ, Len(ring))) /\ Burst' = Burst
    BY <1>8 DEF CDrain, HandsEmpty, producerVars, Burst
  <2>2. ring = p \o ring' /\ p \in Seq(Mbufs)
    BY <2>1, FrontOfRing
  <2>3. Flight = ring \o Burst /\ Flight' = ring' \o Burst
    BY <1>2, <1>3, <2>1
  <2> HIDE DEF p
  <2>4. (p \o ring') \o Burst = p \o (ring' \o Burst)
    <3>1. p \in Seq(Mbufs) /\ ring' \in Seq(Mbufs) /\ Burst \in Seq(Mbufs)
      BY <1>0, <1>1, <2>2
    <3> QED BY ONLY <3>1, Assoc, Zenon
  <2>5. Flight = p \o Flight'
    BY <2>2, <2>3, <2>4
  <2> QED BY <2>5 DEF p
<1> QED BY <1>4, <1>5, <1>6, <1>7, <1>8

\* What CEnqueue delivers is the front of what is in flight.
LEMMA EnqueueStep ==
  ASSUME TypeOK, TypeOK', CEnqueue
  PROVE  \E x \in Seq(Mbufs) : /\ Flight = x \o Flight'
                               /\ delivered' = delivered \o Carried(data, x)
                               /\ csent' = csent + Len(x)
<1>0. /\ cpkts \in Seq(Mbufs) /\ csent \in 0..Len(cpkts) /\ Len(cpkts) \in Nat
      /\ ring \o Burst \in Seq(Mbufs) /\ data \in [Mbufs -> Int]
      /\ Flight = Rest(cpkts, csent) \o (ring \o Burst)
  BY Parts, HeldParts, FlightParts
<1> PICK n \in 0..(Len(cpkts) - csent) :
      /\ csent' = csent + n
      /\ delivered' = delivered \o [i \in 1..n |-> data[cpkts[csent + i]]]
  BY DEF CEnqueue
<1> DEFINE x == SubSeq(cpkts, csent + 1, csent + n)
<1>1. n \in Nat /\ csent \in Nat /\ csent + n <= Len(cpkts)
  BY <1>0
<1>2. /\ x \in Seq(Mbufs) /\ Len(x) = n /\ \A i \in 1..n : x[i] = cpkts[csent + i]
      /\ Rest(cpkts, csent + n) \in Seq(Mbufs)
      /\ x \o Rest(cpkts, csent + n) = Rest(cpkts, csent)
  BY <1>0, <1>1, RestSplit
<1>3. Flight' = Rest(cpkts, csent + n) \o (ring \o Burst)
  <2>1. cpkts' = cpkts /\ ring' = ring /\ Burst' = Burst
    BY DEF CEnqueue, producerVars, Burst
  <2>2. Flight' = Rest(cpkts', csent') \o (ring' \o Burst')
    BY FlightPartsNext
  <2> QED BY <2>1, <2>2
<1> HIDE DEF x
<1>4. Flight = x \o Flight'
  <2> PICK r \in Seq(Mbufs) : r = Rest(cpkts, csent + n)
    BY <1>2
  <2> PICK t \in Seq(Mbufs) : t = ring \o Burst
    BY <1>0
  <2>1. (x \o r) \o t = x \o (r \o t)
    <3>1. x \in Seq(Mbufs) /\ r \in Seq(Mbufs) /\ t \in Seq(Mbufs)
      BY <1>2
    <3> QED BY ONLY <3>1, Assoc, Zenon
  <2> QED BY <1>0, <1>2, <1>3, <2>1
<1>5. Carried(data, x) = [i \in 1..n |-> data[cpkts[csent + i]]]
  BY <1>2 DEF Carried
<1> QED BY <1>2, <1>4, <1>5

\* What is in flight is held.
LEMMA FlightInHeld ==
  ASSUME TypeOK
  PROVE  Elems(Flight) \subseteq Elems(Held)
<1> PICK c, f, t : c = cpkts /\ f = Rest(cpkts, csent) /\ t = ring \o Burst
  OBVIOUS
<1>1. /\ c \in Seq(Mbufs) /\ f \in Seq(Mbufs) /\ t \in Seq(Mbufs)
      /\ Held = c \o t /\ Flight = f \o t
      /\ csent \in 0..Len(c) /\ f = Rest(c, csent)
  BY Parts, HeldParts, FlightParts
<1>2. Elems(Held) = Elems(c) \cup Elems(t) /\ Elems(Flight) = Elems(f) \cup Elems(t)
  BY ONLY <1>1, ElemsConcat, Zenon
<1>3. Elems(f) \subseteq Elems(c)
  <2>1. Len(f) = Len(c) - csent /\ \A i \in 1..(Len(c) - csent) : f[i] = c[csent + i]
    BY <1>1, PrefixRest, ZenonT(30)
  <2>2. \A i \in 1..(Len(c) - csent) : csent + i \in 1..Len(c)
    BY <1>1
  <2> QED BY <2>1, <2>2 DEF Elems
<1> QED BY <1>2, <1>3

LEMMA PipeInitMap == Init => Pipe!PipeInit
<1> SUFFICES ASSUME Init PROVE Pipe!PipeInit
  OBVIOUS
<1>1. /\ cpkts = <<>> /\ csent = 0 /\ ring = <<>> /\ ppkts = <<>> /\ psent = 0
      /\ taken = 0 /\ delivered = <<>>
  BY DEF Init
<1>2. Flight = <<>>
  BY <1>1, RestAll, Empty DEF Flight
<1>3. Packets(Flight) = <<>>
  BY <1>2 DEF Packets
<1> QED BY <1>1, <1>3 DEF Pipe!PipeInit

\* Each step accepts a burst, delivers from the front, loses from the front,
\* or leaves the pipe alone.
LEMMA PipeStep ==
  TypeOK /\ TypeOK' /\ HandsEmpty /\ MbufConservation /\ [Next]_vars
    => [Pipe!PipeNext]_(Pipe!pipeVars)
<1> SUFFICES ASSUME TypeOK, TypeOK', HandsEmpty, MbufConservation, [Next]_vars
             PROVE  Pipe!PipeNext \/ UNCHANGED <<taken, Queue, delivered>>
  BY DEF Pipe!pipeVars, Queue
<1>1. CASE PDequeue
  <2>1. Flight' = Flight \o ppkts'
    BY <1>1, FlightStep
  <2>2. /\ ppkts' \in Seq(Mbufs) /\ Elems(ppkts') \subseteq pool
        /\ Len(ppkts') \in 1..PKT_BURST_SZ /\ taken' = taken + Len(ppkts')
        /\ \A i \in 1..Len(ppkts') : data'[ppkts'[i]] = taken + i
        /\ \A m \in Mbufs \ Elems(ppkts') : data'[m] = data[m]
    BY <1>1, DequeueTakes
  <2>3. \A m \in Elems(Flight) : data'[m] = data[m]
    <3>1. Elems(Flight) \subseteq Elems(Held)
      BY FlightInHeld
    <3>2. pool \cap Elems(Held) = {} /\ Elems(Held) \subseteq Mbufs
      BY DEF MbufConservation
    <3> QED BY <2>2, <3>1, <3>2
  <2>4. taken \in Nat
    BY DEF TypeOK, PacketTypeOK
  <2>5. Queue' = Queue \o [i \in 1..Len(ppkts') |-> taken + i]
    <3> PICK b \in Seq(Mbufs) : b = ppkts'
      BY <2>2
    <3>1. /\ Flight' = Flight \o b
          /\ \A i \in 1..Len(b) : data'[b[i]] = taken + i
      BY <2>1, <2>2
    <3>2. Queue' = Queue \o [i \in 1..Len(b) |-> taken + i]
      BY <2>3, <2>4, <3>1, PushesQueue
    <3> QED BY <3>2
  <2>6. delivered' = delivered
    BY <1>1 DEF PDequeue
  <2>7. Pipe!Accept
    BY <2>2, <2>5, <2>6 DEF Pipe!Accept, Queue
  <2> QED BY <2>7 DEF Pipe!PipeNext
<1>2. CASE PPush \/ CDequeue
  <2>1. Flight' = Flight /\ data' = data /\ taken' = taken /\ delivered' = delivered
    BY <1>2, FlightStep DEF PPush, CDequeue
  <2> QED BY <2>1, KeepsQueue
<1>3. CASE CEnqueue
  <2> PICK x \in Seq(Mbufs) : /\ Flight = x \o Flight'
                              /\ delivered' = delivered \o Carried(data, x)
    BY <1>3, EnqueueStep
  <2>1. data' = data /\ taken' = taken
    BY <1>3 DEF CEnqueue
  <2>2. /\ Len(x) <= Len(Queue) /\ Len(x) \in Nat /\ Len(Queue) \in Nat
        /\ SubSeq(Queue, 1, Len(x)) = Carried(data, x)
        /\ Queue' = SubSeq(Queue, Len(x) + 1, Len(Queue))
        /\ Len(x) = 0 => Queue' = Queue
    BY <2>1, PopsQueue
  <2>3. CASE Len(x) = 0
    <3>1. Carried(data, x) = <<>>
      BY <2>3 DEF Carried
    <3>2. delivered \in Seq(0..MaxPkts)
      BY DEF TypeOK, PacketTypeOK
    <3>3. delivered' = delivered
      BY <3>1, <3>2, ConcatEmptySeq
    <3> QED BY <2>1, <2>2, <2>3, <3>3
  <2>4. CASE Len(x) # 0
    <3>1. Len(x) \in 1..Len(Queue)
      BY <2>2, <2>4
    <3>2. Pipe!Deliver
      BY <2>1, <2>2, <3>1 DEF Pipe!Deliver, Queue
    <3> QED BY <3>2 DEF Pipe!PipeNext
  <2> QED BY <2>3, <2>4
<1>4. CASE CFinish \/ CDrain
  <2>0. \E x \in Seq(Mbufs) : Flight = x \o Flight'
    <3>1. CASE CFinish BY <3>1, FlightStep, FlightParts
    <3>2. CASE CDrain BY <3>2, FlightStep, FrontOfRing
    <3> QED BY <1>4, <3>1, <3>2
  <2> PICK x \in Seq(Mbufs) : Flight = x \o Flight'
    BY <2>0
  <2>1. data' = data /\ taken' = taken /\ delivered' = delivered
    BY <1>4 DEF CFinish, CDrain
  <2>2. /\ Len(x) <= Len(Queue) /\ Len(x) \in Nat /\ Len(Queue) \in Nat
        /\ Queue' = SubSeq(Queue, Len(x) + 1, Len(Queue))
        /\ Len(x) = 0 => Queue' = Queue
    BY <2>1, PopsQueue
  <2>3. CASE Len(x) = 0
    BY <2>1, <2>2, <2>3
  <2>4. CASE Len(x) # 0
    <3>1. Len(x) \in 1..Len(Queue)
      BY <2>2, <2>4
    <3>2. Pipe!Lose
      BY <2>1, <2>2, <3>1 DEF Pipe!Lose, Queue
    <3> QED BY <3>2 DEF Pipe!PipeNext
  <2> QED BY <2>3, <2>4
<1>5. CASE ~ DataStep
  <2>1. /\ cpkts' = cpkts /\ csent' = csent /\ ring' = ring /\ ppkts' = ppkts
        /\ psent' = psent /\ data' = data /\ taken' = taken /\ delivered' = delivered
    BY <1>5, QuietStep DEF packetVars
  <2>2. Flight' = Flight
    BY <2>1 DEF Flight
  <2> QED BY <2>1, <2>2, KeepsQueue
<1> QED BY <1>1, <1>2, <1>3, <1>4, <1>5 DEF DataStep

\* The two threads, their bursts and the ring are one first-in first-out pipe
\* that loses packets only from its head, for every size of burst, ring, pool
\* and retry limit.
THEOREM ControllerImplementsPipe == Spec => ImplementsPipe
  BY TypeCorrect, TeardownInvInit, TeardownInvStep, HandsInit, HandsStep,
     MbufsConserved, PipeInitMap, PipeStep, PTL
     DEF Spec, ImplementsPipe, Pipe!PipeSpec

-----------------------------------------------------------------------------
(***************************************************************************)
(* The statistics.                                                         *)
(***************************************************************************)
LEMMA AccountingInit == Init => Accounting
<1> SUFFICES ASSUME Init PROVE Accounting
  OBVIOUS
<1>1. /\ cpkts = <<>> /\ csent = 0 /\ ring = <<>> /\ ppkts = <<>> /\ psent = 0
      /\ taken = 0 /\ delivered = <<>> /\ dropped = 0 /\ rx_pkts_ = 0 /\ tx_pkts_ = 0
  BY DEF Init
<1>2. Flight = <<>>
  BY <1>1, RestAll, Empty DEF Flight
<1>3. Len(Flight) = 0 /\ Len(ppkts) = 0 /\ Len(delivered) = 0
  BY <1>1, <1>2
<1> QED BY <1>1, <1>3 DEF Accounting

LEMMA AccountingStep ==
  TypeOK /\ TypeOK' /\ HandsEmpty /\ Accounting /\ [Next]_vars => Accounting'
<1> SUFFICES ASSUME TypeOK, TypeOK', HandsEmpty, Accounting, [Next]_vars
             PROVE  /\ taken' = rx_pkts_' + Len(ppkts')
                    /\ Len(delivered') = tx_pkts_' + csent'
                    /\ taken' = Len(delivered') + dropped' + Len(Flight')
  BY DEF Accounting, Flight
<1>0. /\ taken = rx_pkts_ + Len(ppkts) /\ Len(delivered) = tx_pkts_ + csent
      /\ taken = Len(delivered) + dropped + Len(Flight)
  BY DEF Accounting
<1>a. /\ rx_pkts_ \in Nat /\ tx_pkts_ \in Nat /\ dropped \in Nat /\ taken \in Nat
      /\ csent \in Nat /\ Len(delivered) \in Nat /\ Len(ppkts) \in Nat /\ Len(cpkts) \in Nat
  <2>1. /\ rx_pkts_ \in Nat /\ tx_pkts_ \in Nat /\ dropped \in Nat
        /\ taken \in 0..MaxPkts /\ csent \in 0..Len(cpkts)
        /\ delivered \in Seq(0..MaxPkts) /\ ppkts \in Seq(Mbufs) /\ cpkts \in Seq(Mbufs)
    BY DEF TypeOK, PacketTypeOK, ProducerTypeOK, ConsumerTypeOK
  <2>2. Len(delivered) \in Nat /\ Len(ppkts) \in Nat /\ Len(cpkts) \in Nat
    BY <2>1, LenProperties
  <2> QED BY <2>1, <2>2
<1>1. Flight \in Seq(Mbufs) /\ Flight' \in Seq(Mbufs)
  BY FlightParts, FlightPartsNext
<1> PICK f, g : f = Len(Flight) /\ g = Len(Flight')
  OBVIOUS
<1>b. f \in Nat /\ g \in Nat /\ taken = Len(delivered) + dropped + f
  BY <1>0, <1>1
<1>2. ASSUME NEW x \in Seq(Mbufs), Flight = x \o Flight'
      PROVE  Len(x) \in Nat /\ f = Len(x) + g
  <2> PICK y \in Seq(Mbufs) : y = Flight'
    BY <1>1
  <2>1. Len(x \o y) = Len(x) + Len(y) /\ Len(x) \in Nat
    OBVIOUS
  <2> QED BY <1>2, <2>1
<1>3. CASE PDequeue
  <2>1. Flight' = Flight \o ppkts' /\ ppkts' \in Seq(Mbufs) /\ taken' = taken + Len(ppkts')
    BY <1>3, FlightStep, DequeueTakes
  <2>2. g = f + Len(ppkts') /\ Len(ppkts') \in Nat
    <3> PICK x \in Seq(Mbufs), y \in Seq(Mbufs) : x = Flight /\ y = ppkts'
      BY <1>1, <2>1
    <3>1. Len(x \o y) = Len(x) + Len(y) /\ Len(y) \in Nat
      OBVIOUS
    <3> QED BY <2>1, <3>1
  <2>3. /\ ppkts = <<>> /\ rx_pkts_' = rx_pkts_ /\ tx_pkts_' = tx_pkts_ /\ csent' = csent
        /\ delivered' = delivered /\ dropped' = dropped
    BY <1>3 DEF PDequeue, HandsEmpty, consumerVars
  <2>4. Len(ppkts) = 0
    BY <2>3
  <2>5. taken' = rx_pkts_' + Len(ppkts')
    BY <1>0, <1>a, <2>1, <2>2, <2>3, <2>4
  <2>6. taken' = Len(delivered') + dropped' + g
    BY <1>a, <1>b, <2>1, <2>2, <2>3
  <2> QED BY <1>0, <2>3, <2>5, <2>6
<1>4. CASE PPush
  <2>1. Flight' = Flight
    BY <1>4, FlightStep
  <2>2. /\ taken' = taken /\ tx_pkts_' = tx_pkts_ /\ csent' = csent
        /\ delivered' = delivered /\ dropped' = dropped
    BY <1>4 DEF PPush, consumerVars
  <2>3. \/ rx_pkts_' = rx_pkts_ + Len(ppkts) /\ ppkts' = <<>>
        \/ rx_pkts_' = rx_pkts_ /\ ppkts' = ppkts
    BY <1>4 DEF PPush
  <2>4. rx_pkts_' + Len(ppkts') = rx_pkts_ + Len(ppkts)
    BY <1>a, <2>3
  <2> QED BY <1>0, <2>1, <2>2, <2>4
<1>5. CASE CDequeue
  <2>1. Flight' = Flight
    BY <1>5, FlightStep
  <2>2. /\ taken' = taken /\ tx_pkts_' = tx_pkts_ /\ csent' = 0 /\ csent = 0
        /\ delivered' = delivered /\ dropped' = dropped
        /\ rx_pkts_' = rx_pkts_ /\ ppkts' = ppkts
    BY <1>5 DEF CDequeue, HandsEmpty, producerVars
  <2> QED BY <1>0, <2>1, <2>2
<1>6. CASE CEnqueue
  <2> PICK x \in Seq(Mbufs) : /\ Flight = x \o Flight'
                              /\ delivered' = delivered \o Carried(data, x)
                              /\ csent' = csent + Len(x)
    BY <1>6, EnqueueStep
  <2>1. /\ taken' = taken /\ tx_pkts_' = tx_pkts_ /\ dropped' = dropped
        /\ rx_pkts_' = rx_pkts_ /\ ppkts' = ppkts
    BY <1>6 DEF CEnqueue, producerVars
  <2>2. Len(x) \in Nat /\ f = Len(x) + g
    BY <1>2
  <2>3. Len(delivered') = Len(delivered) + Len(x)
    <3>1. data \in [Mbufs -> Int]
      BY FlightParts
    <3>2. delivered \in Seq(Int)
      <4>1. delivered \in Seq(0..MaxPkts) BY DEF TypeOK, PacketTypeOK
      <4>2. /\ Len(delivered) \in Nat /\ delivered \in [1..Len(delivered) -> 0..MaxPkts]
        BY <4>1, LenProperties
      <4>3. 0..MaxPkts \subseteq Int
        BY ConstantsAssumption
      <4>4. delivered \in [1..Len(delivered) -> Int]
        BY <4>2, <4>3
      <4> QED BY <4>2, <4>4, SMTT(30)
    <3>3. Carried(data, x) \in Seq(Int) /\ Len(Carried(data, x)) = Len(x)
      BY <3>1, CarriedSeq
    <3> PICK u \in Seq(Int) : u = Carried(data, x)
      BY <3>3
    <3>4. Len(delivered \o u) = Len(delivered) + Len(u)
      BY <3>2
    <3> QED BY <3>3, <3>4
  <2>4. Len(delivered') = tx_pkts_' + csent'
    BY <1>0, <1>a, <2>1, <2>2, <2>3
  <2>5. taken' = Len(delivered') + dropped' + g
    BY <1>a, <1>b, <2>1, <2>2, <2>3
  <2> QED BY <1>0, <2>1, <2>4, <2>5
<1>7. CASE CFinish
  <2>1. Flight = Rest(cpkts, csent) \o Flight' /\ Rest(cpkts, csent) \in Seq(Mbufs)
    BY <1>7, FlightStep, FlightParts
  <2>2. Len(Rest(cpkts, csent)) = Len(cpkts) - csent
    BY PrefixRest DEF TypeOK, ConsumerTypeOK
  <2>3. /\ taken' = taken /\ tx_pkts_' = tx_pkts_ + csent /\ csent' = 0
        /\ delivered' = delivered /\ dropped' = dropped + (Len(cpkts) - csent)
        /\ rx_pkts_' = rx_pkts_ /\ ppkts' = ppkts
    BY <1>7 DEF CFinish, producerVars
  <2>4. f = (Len(cpkts) - csent) + g
    BY <1>2, <2>1, <2>2
  <2>5. taken' = Len(delivered') + dropped' + g
    BY <1>a, <1>b, <2>3, <2>4
  <2>6. Len(delivered') = tx_pkts_' + csent'
    BY <1>0, <1>a, <2>3
  <2> QED BY <1>0, <2>3, <2>5, <2>6
<1>8. CASE CDrain
  <2> DEFINE n == Least(PKT_BURST_SZ, Len(ring))
             p == SubSeq(ring, 1, n)
  <2>1. Flight = p \o Flight' /\ p \in Seq(Mbufs) /\ Len(p) = n /\ n \in Nat
    BY <1>8, FlightStep, FrontOfRing
  <2>2. /\ taken' = taken /\ tx_pkts_' = tx_pkts_ /\ csent' = csent
        /\ delivered' = delivered /\ dropped' = dropped + n
        /\ rx_pkts_' = rx_pkts_ /\ ppkts' = ppkts
    BY <1>8 DEF CDrain, producerVars
  <2> HIDE DEF n, p
  <2>3. f = n + g
    BY <1>2, <2>1
  <2>4. taken' = Len(delivered') + dropped' + g
    BY <1>a, <1>b, <2>1, <2>2, <2>3
  <2> QED BY <1>0, <2>2, <2>4
<1>9. CASE ~ DataStep
  <2>1. /\ cpkts' = cpkts /\ csent' = csent /\ ring' = ring /\ ppkts' = ppkts
        /\ psent' = psent /\ taken' = taken /\ delivered' = delivered
        /\ dropped' = dropped /\ rx_pkts_' = rx_pkts_ /\ tx_pkts_' = tx_pkts_
    BY <1>9, QuietStep DEF packetVars
  <2>2. Flight' = Flight
    BY <2>1 DEF Flight
  <2> QED BY <1>0, <2>1, <2>2
<1> QED BY <1>3, <1>4, <1>5, <1>6, <1>7, <1>8, <1>9 DEF DataStep

\* The counters the program prints are exact in every reachable state: every
\* packet taken is delivered, dropped or still on its way.
THEOREM AlwaysAccounted == Spec => []Accounting
  BY TypeCorrect, TeardownInvInit, TeardownInvStep, HandsInit, HandsStep,
     AccountingInit, AccountingStep, PTL DEF Spec

-----------------------------------------------------------------------------
PP == INSTANCE PacketPipeProofs
          WITH BurstSize <- PKT_BURST_SZ, accepted <- taken,
               queue <- Packets(Flight), delivered <- delivered

\* The guest receives packets in the order the guest sent them, none twice:
\* what the pipe promises, and the controller implements the pipe.
THEOREM AlwaysDeliveredInOrder == Spec => []DeliveredInOrder
<1>1. PP!PipeSpec => []PP!InOrder
  BY PP!PipeKeepsOrder
<1>2. Pipe!PipeInit => PP!PipeInit
  BY DEF Pipe!PipeInit, PP!PipeInit
<1>3. [Pipe!PipeNext]_(Pipe!pipeVars) => [PP!PipeNext]_(PP!pipeVars)
  BY DEF Pipe!PipeNext, Pipe!Accept, Pipe!Deliver, Pipe!Lose, Pipe!pipeVars,
         PP!PipeNext, PP!Accept, PP!Deliver, PP!Lose, PP!pipeVars
<1>4. PP!InOrder => DeliveredInOrder
  BY DEF PP!InOrder, PP!Increasing, DeliveredInOrder
<1> QED BY <1>1, <1>2, <1>3, <1>4, ControllerImplementsPipe, PTL
        DEF ImplementsPipe, Pipe!PipeSpec, PP!PipeSpec
=============================================================================
