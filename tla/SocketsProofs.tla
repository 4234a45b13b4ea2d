---------------------------- MODULE SocketsProofs ----------------------------
(***************************************************************************)
(* The relays and the socket servers: what they pass on is what was sent,  *)
(* in order, whatever the reads and writes cut it into.                    *)
(***************************************************************************)
EXTENDS SocketServers, Relay, SequenceTheorems, FiniteSetTheorems, TLAPS

Ascends(s) == \A a, b \in 1..Len(s) : a < b => s[a] < s[b]

(***************************************************************************)
(* Sequences of numbers.                                                   *)
(***************************************************************************)
LEMMA NatConcat ==
  \A s, t \in Seq(Nat) :
    /\ s \o t \in Seq(Nat) /\ Len(s \o t) = Len(s) + Len(t)
    /\ \A i \in 1..Len(s) : (s \o t)[i] = s[i]
    /\ \A i \in 1..Len(t) : (s \o t)[Len(s) + i] = t[i]
<1> TAKE s, t \in Seq(Nat)
<1> QED BY ConcatProperties

LEMMA NatAssoc ==
  \A s, t, u \in Seq(Nat) : (s \o t) \o u = s \o (t \o u)
  BY ConcatAssociative, SMTT(30)

LEMMA NatEmpty ==
  /\ <<>> \in Seq(Nat) /\ Len(<<>>) = 0
  /\ \A s \in Seq(Nat) : s \o <<>> = s /\ <<>> \o s = s
  BY ConcatEmptySeq

LEMMA NatToSet == \A s \in Seq(Nat) : ToSet(s) = {s[i] : i \in 1..Len(s)}
  BY DEF ToSet

\* A sequence cut in two after n.
LEMMA Cut ==
  ASSUME NEW s \in Seq(Nat), NEW n \in 0..Len(s)
  PROVE  /\ SubSeq(s, 1, n) \in Seq(Nat) /\ Len(SubSeq(s, 1, n)) = n
         /\ SubSeq(s, n + 1, Len(s)) \in Seq(Nat)
         /\ Len(SubSeq(s, n + 1, Len(s))) = Len(s) - n
         /\ SubSeq(s, 1, n) \o SubSeq(s, n + 1, Len(s)) = s
<1>1. Len(s) \in Nat /\ n \in Nat /\ n <= Len(s)
  OBVIOUS
<1>2. /\ SubSeq(s, 1, n) \in Seq(Nat) /\ Len(SubSeq(s, 1, n)) = n
      /\ SubSeq(s, n + 1, Len(s)) \in Seq(Nat)
      /\ Len(SubSeq(s, n + 1, Len(s))) = Len(s) - n
  BY <1>1
<1>3. SubSeq(s, 1, n) \o SubSeq(s, n + 1, Len(s)) = SubSeq(s, 1, Len(s))
  <2>1. 1 \in 1..(Len(s) + 1) /\ n \in (1 - 1)..Len(s) /\ Len(s) \in n..Len(s)
    BY <1>1
  <2> QED BY <2>1, ConcatAdjacentSubSeq
<1>4. SubSeq(s, 1, Len(s)) = s
  BY SubSeqFull
<1> QED BY <1>2, <1>3, <1>4

\* The front of an ascending sequence.
LEMMA FrontAscends ==
  ASSUME NEW s \in Seq(Nat), NEW t \in Seq(Nat), NEW all, all = s \o t, Ascends(all)
  PROVE  Ascends(s) /\ ToSet(s) \subseteq ToSet(all)
<1>1. /\ all \in Seq(Nat) /\ Len(all) = Len(s) + Len(t) /\ Len(s) \in Nat /\ Len(t) \in Nat
      /\ \A i \in 1..Len(s) : all[i] = s[i]
  BY NatConcat
<1>2. \A i \in 1..Len(s) : i \in 1..Len(all)
  BY <1>1
<1>3. Ascends(s)
  BY <1>1, <1>2 DEF Ascends
<1>4. ToSet(s) = {s[i] : i \in 1..Len(s)} /\ ToSet(all) = {all[i] : i \in 1..Len(all)}
  BY <1>1, NatToSet
<1>5. ToSet(s) \subseteq ToSet(all)
  BY <1>1, <1>2, <1>4
<1> QED BY <1>3, <1>5

-----------------------------------------------------------------------------
(***************************************************************************)
(* The relays.                                                             *)
(***************************************************************************)
Copying == {"select", "xfer", "write", "wait"}
VbPlaces == {"start", "blind", "blocked", "select", "copy", "end"}
NcPlaces == {"start", "listen", "connect", "resolve", "tcp", "end"} \cup Copying

RelayTypes ==
    /\ \/ relay = "vb" /\ at \in VbPlaces /\ fds \subseteq Ends
       \/ relay = "nc" /\ at \in NcPlaces
    /\ todo \in [Ends -> Seq(Nat)] /\ got \in [Ends -> Seq(Nat)] /\ held \in [Ends -> Nat]
    /\ selected \subseteq Ends /\ from \in Ends /\ buf \in Seq(Nat)

\* How far nc-vsock is connected at each place of its setup.
Connecting ==
    relay = "nc" =>
      /\ at = "start" => stdio = "terminal" /\ tcp = "-1"
      /\ at = "listen" => stdio = "terminal" /\ tcp = "-1"
      /\ at = "connect" => stdio = "terminal" /\ mode = "connect"
      /\ at = "resolve" => mode = "listen_tcp" /\ "remote" \in fds /\ tcp = "-1"
      /\ at = "tcp" => /\ mode = "listen_tcp" /\ "remote" \in fds
                       /\ tcp = "open" => "tcp" \in fds

ConnInv == RelayTypes /\ Connecting /\ StartsConnected

LEMMA EndsFacts ==
  \A i \in Ends : Other(i) \in Ends /\ Other(i) # i /\ Other(Other(i)) = i
  BY DEF Ends, Other

LEMMA MinReady ==
  ASSUME NEW S, S \subseteq Ends, S # {}
  PROVE  Min(S) \in S /\ Min(S) \in Ends
<1>1. \E x \in S : \A y \in S : x <= y
  <2>1. CASE 0 \in S BY <2>1 DEF Ends
  <2>2. CASE 0 \notin S
    <3>1. S = {1} BY <2>2 DEF Ends
    <3> QED BY <3>1
  <2> QED BY <2>1, <2>2
<1>2. Min(S) \in S
  BY <1>1 DEF Min
<1> QED BY <1>2

LEMMA MinOfTwo ==
  ASSUME NEW a \in Int, NEW b \in Int
  PROVE  Min({a, b}) \in Int /\ Min({a, b}) <= a /\ Min({a, b}) <= b
<1>1. \E x \in {a, b} : \A y \in {a, b} : x <= y
  <2>1. CASE a <= b BY <2>1
  <2>2. CASE b <= a BY <2>2
  <2> QED BY <2>1, <2>2
<1>2. Min({a, b}) \in {a, b} /\ \A y \in {a, b} : Min({a, b}) <= y
  BY <1>1 DEF Min
<1> QED BY <1>2

\* What read() and write() may move.
LEMMA Moved ==
  ASSUME RelayTypes
  PROVE  /\ \A i \in Ends : todo[i] # <<>> =>
              \A n \in 1..Min({BufSize, Len(todo[i])}) : n \in 0..Len(todo[i])
         /\ \A n \in (IF Room = 0 THEN {0} ELSE 1..Min({Room, Len(buf)})) : n \in 0..Len(buf)
<1>0. BufSize \in Nat /\ Capacity \in Nat
  BY RelayAssumption
<1>1. \A i \in Ends : todo[i] \in Seq(Nat) /\ Len(todo[i]) \in Nat
  BY DEF RelayTypes
<1>2. buf \in Seq(Nat) /\ Len(buf) \in Nat
  BY DEF RelayTypes
<1>3. Room \in Int
  <2>1. held[Other(from)] \in Nat BY EndsFacts DEF RelayTypes
  <2> QED BY <1>0, <2>1 DEF Room
<1>4. ASSUME NEW i \in Ends, NEW n \in 1..Min({BufSize, Len(todo[i])})
      PROVE  n \in 0..Len(todo[i])
  <2>1. Min({BufSize, Len(todo[i])}) \in Int /\ Min({BufSize, Len(todo[i])}) <= Len(todo[i])
    <3>1. BufSize \in Int /\ Len(todo[i]) \in Int BY <1>0, <1>1
    <3> QED BY ONLY <3>1, MinOfTwo, Zenon
  <2> QED BY <1>1, <2>1
<1>5. ASSUME NEW n \in (IF Room = 0 THEN {0} ELSE 1..Min({Room, Len(buf)}))
      PROVE  n \in 0..Len(buf)
  <2>1. Min({Room, Len(buf)}) \in Int /\ Min({Room, Len(buf)}) <= Len(buf)
    <3>1. Len(buf) \in Int BY <1>2
    <3> QED BY ONLY <1>3, <3>1, MinOfTwo, Zenon
  <2> QED BY <1>2, <2>1
<1> QED BY <1>4, <1>5

\* One write of nc-vsock.
LEMMA WriteStep ==
  ASSUME RelayTypes, XferWrite
  PROVE  \E n \in 0..Len(buf) :
           /\ got' = [got EXCEPT ![Other(from)] = @ \o SubSeq(buf, 1, n)]
           /\ held' = [held EXCEPT ![Other(from)] = @ + n]
           /\ buf' = SubSeq(buf, n + 1, Len(buf))
           /\ at' = IF n = Len(buf) THEN "xfer" ELSE "wait"
<1>1. PICK n \in (IF Room = 0 THEN {0} ELSE 1..Min({Room, Len(buf)})) :
         /\ got' = [got EXCEPT ![Other(from)] = @ \o SubSeq(buf, 1, n)]
         /\ held' = [held EXCEPT ![Other(from)] = @ + n]
         /\ buf' = SubSeq(buf, n + 1, Len(buf))
         /\ at' = IF n = Len(buf) THEN "xfer" ELSE "wait"
  BY DEF XferWrite, Goto
<1>2. n \in 0..Len(buf)
  BY <1>1, Moved
<1> QED BY <1>1, <1>2

\* One read.
LEMMA ReadStep ==
  ASSUME RelayTypes, XferRead
  PROVE  \E i \in Ends :
           /\ selected' = selected \ {i} /\ from' = i
           /\ \/ at' = "end" /\ UNCHANGED <<buf, todo>>
              \/ \E n \in 0..Len(todo[i]) :
                   /\ buf' = SubSeq(todo[i], 1, n) /\ at' = "write"
                   /\ todo' = [todo EXCEPT ![i] = SubSeq(@, n + 1, Len(@))]
<1> DEFINE i == Min(selected)
<1>1. i \in Ends
  BY MinReady DEF XferRead, RelayTypes
<1>2. /\ selected' = selected \ {i} /\ from' = i
      /\ IF todo[i] = <<>> THEN at' = "end" /\ UNCHANGED <<buf, todo>>
         ELSE \E n \in 1..Min({BufSize, Len(todo[i])}) :
                /\ buf' = SubSeq(todo[i], 1, n) /\ at' = "write"
                /\ todo' = [todo EXCEPT ![i] = SubSeq(@, n + 1, Len(@))]
  BY DEF XferRead, Goto
<1> HIDE DEF i
<1>3. CASE todo[i] = <<>>
  BY <1>1, <1>2, <1>3
<1>4. CASE todo[i] # <<>>
  <2>1. PICK n \in 1..Min({BufSize, Len(todo[i])}) :
                /\ buf' = SubSeq(todo[i], 1, n) /\ at' = "write"
                /\ todo' = [todo EXCEPT ![i] = SubSeq(@, n + 1, Len(@))]
    BY <1>2, <1>4
  <2>2. n \in 0..Len(todo[i])
    BY <1>1, <1>4, Moved
  <2> QED BY <1>1, <1>2, <2>1, <2>2
<1> QED BY <1>3, <1>4

\* vb copies only from ends that had a frame when select() returned.
CopyHasFrames == relay = "vb" /\ at = "copy" => \A i \in selected : todo[i] # <<>>

\* One frame: taken from an end, and passed on or dropped.
LEMMA ForwardStep ==
  ASSUME RelayTypes, CopyHasFrames, Forward
  PROVE  \/ UNCHANGED <<todo, got>> /\ selected' \subseteq selected
         \/ \E i \in Ends :
              /\ todo[i] # <<>> /\ todo' = [todo EXCEPT ![i] = Tail(@)]
              /\ selected' = selected \ {i}
              /\ \/ got' = [got EXCEPT ![Other(i)] = Append(@, Head(todo[i]))]
                 \/ got' = got
<1>1. CASE selected = {}
  BY <1>1 DEF Forward
<1>2. CASE selected # {}
  <2> DEFINE i == Min(selected)
  <2>1. i \in Ends /\ i \in selected
    BY <1>2, MinReady DEF RelayTypes
  <2>2. /\ selected' = selected \ {i}
        /\ IF i \in fds
            THEN /\ todo' = [todo EXCEPT ![i] = Tail(@)]
                 /\ \/ Other(i) \in fds /\ got' = [got EXCEPT ![Other(i)] = Append(@, Head(todo[i]))]
                    \/ UNCHANGED got
            ELSE UNCHANGED <<todo, got>>
    BY <1>2 DEF Forward
  <2> HIDE DEF i
  <2>3. todo[i] # <<>>
    BY <2>1 DEF CopyHasFrames, Forward
  <2> QED BY <2>1, <2>2, <2>3
<1> QED BY <1>1, <1>2

LEMMA RelayTypesStep ==
  ASSUME RelayTypes, CopyHasFrames, [RelayNext]_relayVars
  PROVE  RelayTypes' /\ CopyHasFrames'
<1> USE DEF setupVars, endVars, Goto, VbPlaces, NcPlaces, Copying
<1>1. CASE OpenSockets \/ BlindSelect \/ CtrlCHandler
  BY <1>1 DEF OpenSockets, BlindSelect, CtrlCHandler, RelayTypes, CopyHasFrames
<1>2. CASE MakeBridge
  <2>1. selected' \subseteq Ends /\ \A i \in selected' : at' = "copy" => todo[i] # <<>>
    <3>0. relay = "vb" /\ fds \subseteq Ends
      BY <1>2 DEF MakeBridge, RelayTypes
    <3>1. CASE sigint /\ Goto("end") /\ UNCHANGED selected
      BY <3>1 DEF RelayTypes
    <3>2. CASE selected' \in (SUBSET {i \in fds : todo[i] # <<>>}) \ {{}} /\ Goto("copy")
      BY <3>0, <3>2
    <3> QED BY <1>2, <3>1, <3>2 DEF MakeBridge
  <2> QED BY <1>2, <2>1 DEF MakeBridge, RelayTypes, CopyHasFrames
<1>3. CASE Forward
  <2>1. at' \in VbPlaces /\ relay = "vb" /\ at = "copy"
        /\ UNCHANGED <<relay, fds, held, from, buf>>
    BY <1>3 DEF Forward, RelayTypes
  <2>2. CASE UNCHANGED <<todo, got>> /\ selected' \subseteq selected
    BY <2>1, <2>2 DEF RelayTypes, CopyHasFrames
  <2>3. ASSUME NEW i \in Ends,
               todo[i] # <<>>, todo' = [todo EXCEPT ![i] = Tail(@)], selected' = selected \ {i},
               \/ got' = [got EXCEPT ![Other(i)] = Append(@, Head(todo[i]))]
               \/ got' = got
        PROVE  RelayTypes' /\ CopyHasFrames'
    <3>1. todo[i] \in Seq(Nat) /\ Tail(todo[i]) \in Seq(Nat) /\ Head(todo[i]) \in Nat
      BY <2>3 DEF RelayTypes
    <3>2. todo' \in [Ends -> Seq(Nat)] /\ \A j \in Ends \ {i} : todo'[j] = todo[j]
      BY <2>3, <3>1 DEF RelayTypes
    <3>3. got' \in [Ends -> Seq(Nat)]
      <4>1. got[Other(i)] \in Seq(Nat) BY EndsFacts DEF RelayTypes
      <4>2. Append(got[Other(i)], Head(todo[i])) \in Seq(Nat) BY <3>1, <4>1
      <4> QED BY <2>3, <4>2 DEF RelayTypes
    <3>4. RelayTypes'
      BY <2>1, <2>3, <3>2, <3>3 DEF RelayTypes
    <3>5. CopyHasFrames'
      BY <2>1, <2>3, <3>2 DEF RelayTypes, CopyHasFrames
    <3> QED BY <3>4, <3>5
  <2> QED BY <1>3, <2>2, <2>3, ForwardStep
<1>4. CASE ReadArgs
  BY <1>4 DEF ReadArgs, RelayTypes, CopyHasFrames
<1>5. CASE VsockFails \/ VsockListen \/ VsockConnect
  BY <1>5 DEF VsockFails, VsockListen, VsockConnect, RelayTypes, CopyHasFrames
<1>6. CASE Resolve \/ TcpConnect \/ Dup2
  BY <1>6 DEF Resolve, TcpConnect, Dup2, RelayTypes, CopyHasFrames
<1>7. CASE MainLoop
  BY <1>7 DEF MainLoop, ReadableEnds, RelayTypes, CopyHasFrames
<1>8. CASE XferRead
  <2>1. PICK i \in Ends :
           /\ selected' = selected \ {i} /\ from' = i
           /\ \/ at' = "end" /\ UNCHANGED <<buf, todo>>
              \/ \E n \in 0..Len(todo[i]) :
                   /\ buf' = SubSeq(todo[i], 1, n) /\ at' = "write"
                   /\ todo' = [todo EXCEPT ![i] = SubSeq(@, n + 1, Len(@))]
    BY <1>8, ReadStep
  <2>2. relay = "nc" /\ UNCHANGED <<relay, fds, got, held>> /\ at' \in {"end", "write"}
    BY <1>8, <2>1 DEF XferRead, RelayTypes
  <2>3. buf' \in Seq(Nat) /\ todo' \in [Ends -> Seq(Nat)]
    <3>1. CASE UNCHANGED <<buf, todo>> BY <3>1 DEF RelayTypes
    <3>2. ASSUME NEW n \in 0..Len(todo[i]), buf' = SubSeq(todo[i], 1, n),
                 todo' = [todo EXCEPT ![i] = SubSeq(@, n + 1, Len(@))]
          PROVE  buf' \in Seq(Nat) /\ todo' \in [Ends -> Seq(Nat)]
      <4>1. todo[i] \in Seq(Nat) BY DEF RelayTypes
      <4>2. SubSeq(todo[i], 1, n) \in Seq(Nat) /\ SubSeq(todo[i], n + 1, Len(todo[i])) \in Seq(Nat)
        BY <4>1, Cut
      <4> QED BY <3>2, <4>2 DEF RelayTypes
    <3> QED BY <2>1, <3>1, <3>2
  <2> QED BY <2>1, <2>2, <2>3 DEF RelayTypes, CopyHasFrames
<1>9. CASE XferWrite
  <2>1. PICK n \in 0..Len(buf) :
           /\ got' = [got EXCEPT ![Other(from)] = @ \o SubSeq(buf, 1, n)]
           /\ held' = [held EXCEPT ![Other(from)] = @ + n]
           /\ buf' = SubSeq(buf, n + 1, Len(buf))
           /\ at' = IF n = Len(buf) THEN "xfer" ELSE "wait"
    BY <1>9, WriteStep
  <2>2. relay = "nc" /\ UNCHANGED <<relay, fds, todo, selected, from>> /\ at' \in {"xfer", "wait"}
    BY <1>9, <2>1 DEF XferWrite, RelayTypes
  <2>3. buf \in Seq(Nat) /\ n \in Nat /\ Other(from) \in Ends
    BY EndsFacts DEF RelayTypes
  <2>4. SubSeq(buf, 1, n) \in Seq(Nat) /\ SubSeq(buf, n + 1, Len(buf)) \in Seq(Nat)
    BY <2>3, Cut
  <2>5. got' \in [Ends -> Seq(Nat)]
    <3>1. got[Other(from)] \in Seq(Nat) BY <2>3 DEF RelayTypes
    <3>2. got[Other(from)] \o SubSeq(buf, 1, n) \in Seq(Nat)
      BY ONLY <2>4, <3>1, NatConcat, Zenon
    <3> QED BY <2>1, <3>2 DEF RelayTypes
  <2>6. held' \in [Ends -> Nat]
    BY <2>1, <2>3, SMTT(30) DEF RelayTypes
  <2> QED BY <2>1, <2>2, <2>4, <2>5, <2>6 DEF RelayTypes, CopyHasFrames
<1>10. CASE XferNone \/ XferWriteFails \/ XferWait
  BY <1>10 DEF XferNone, XferWriteFails, XferWait, RelayTypes, CopyHasFrames
<1>11. CASE \E i \in Ends : Drain(i) \/ Hangup(i)
  <2>1. UNCHANGED <<relay, at, fds, todo, got, selected, from, buf>>
    BY <1>11 DEF Drain, Hangup
  <2>2. held' \in [Ends -> Nat]
    <3>1. PICK i \in Ends : Drain(i) \/ Hangup(i) BY <1>11
    <3>2. held \in [Ends -> Nat] BY DEF RelayTypes
    <3>3. CASE Drain(i)
      <4>1. held' = [held EXCEPT ![i] = 0] BY <3>3 DEF Drain
      <4> QED BY <3>2, <4>1
    <3>4. CASE Hangup(i) BY <3>2, <3>4 DEF Hangup
    <3> QED BY <3>1, <3>3, <3>4
  <2> QED BY <2>1, <2>2 DEF RelayTypes, CopyHasFrames
<1>12. CASE UNCHANGED relayVars
  BY <1>12 DEF relayVars, RelayTypes, CopyHasFrames
<1> QED BY <1>1, <1>2, <1>3, <1>4, <1>5, <1>6, <1>7, <1>8, <1>9, <1>10, <1>11, <1>12
       DEF RelayNext, BridgeStep, NcSetup, NcStep

LEMMA ConnectingStep ==
  ASSUME RelayTypes, Connecting, StartsConnected, [RelayNext]_relayVars
  PROVE  Connecting' /\ StartsConnected'
<1> USE DEF setupVars, endVars, Goto, VbPlaces, NcPlaces, Copying
<1>1. CASE OpenSockets \/ BlindSelect \/ CtrlCHandler \/ MakeBridge \/ Forward
  BY <1>1 DEF OpenSockets, BlindSelect, CtrlCHandler, MakeBridge, Forward, Connecting, StartsConnected
<1>2. CASE ReadArgs
  BY <1>2 DEF ReadArgs, Connecting, StartsConnected
<1>3. CASE VsockFails \/ VsockListen \/ VsockConnect
  BY <1>3 DEF VsockFails, VsockListen, VsockConnect, Connecting, StartsConnected
<1>4. CASE Resolve
  BY <1>4 DEF Resolve, Connecting, StartsConnected
<1>5. CASE TcpConnect
  BY <1>5 DEF TcpConnect, Connecting, StartsConnected
<1>6. CASE Dup2
  BY <1>6 DEF Dup2, Connecting, StartsConnected
<1>7. CASE MainLoop \/ XferNone \/ XferWriteFails \/ XferWait
  BY <1>7 DEF MainLoop, XferNone, XferWriteFails, XferWait, Connecting, StartsConnected
<1>8. CASE XferRead
  <2>1. at' \in {"end", "write"}
    BY <1>8, ReadStep
  <2> QED BY <1>8, <2>1 DEF XferRead, Connecting, StartsConnected
<1>9. CASE XferWrite
  <2>1. at' \in {"xfer", "wait"}
    BY <1>9, WriteStep
  <2> QED BY <1>9, <2>1 DEF XferWrite, Connecting, StartsConnected
<1>10. CASE \E i \in Ends : Drain(i) \/ Hangup(i)
  BY <1>10 DEF Drain, Hangup, Connecting, StartsConnected
<1>11. CASE UNCHANGED relayVars
  BY <1>11 DEF relayVars, Connecting, StartsConnected
<1> QED BY <1>1, <1>2, <1>3, <1>4, <1>5, <1>6, <1>7, <1>8, <1>9, <1>10, <1>11
       DEF RelayNext, BridgeStep, NcSetup, NcStep

LEMMA RelayTypesInit == RelayInit => RelayTypes /\ CopyHasFrames /\ Connecting /\ StartsConnected
<1> SUFFICES ASSUME RelayInit PROVE RelayTypes /\ CopyHasFrames /\ Connecting /\ StartsConnected
  OBVIOUS
<1>1. <<>> \in Seq(Nat) BY NatEmpty
<1>2. got \in [Ends -> Seq(Nat)] /\ held \in [Ends -> Nat]
  BY <1>1 DEF RelayInit
<1>3. todo \in [Ends -> Seq(Nat)]
  BY RelayAssumption DEF RelayInit
<1> QED BY <1>1, <1>2, <1>3
       DEF RelayInit, RelayTypes, CopyHasFrames, Connecting, StartsConnected, VbPlaces,
           NcPlaces, Ends

-----------------------------------------------------------------------------
(***************************************************************************)
(* What has passed, what is in hand and what is still to come.             *)
(***************************************************************************)
InHand(i) == IF from = i THEN buf ELSE <<>>

\* nc-vsock loses nothing.
NcFlow ==
    relay = "nc" =>
      /\ \A i \in Ends : Input[i] = got[Other(i)] \o InHand(i) \o todo[i]
      /\ at \notin {"write", "wait", "end"} => buf = <<>>

\* vb may lose a frame: what has passed precedes what is still to come.
Passed(i) ==
    /\ ToSet(got[Other(i)]) \subseteq ToSet(Input[i])
    /\ ToSet(todo[i]) \subseteq ToSet(Input[i])
    /\ Ascends(got[Other(i)]) /\ Ascends(todo[i])
    /\ \A a \in 1..Len(got[Other(i)]), b \in 1..Len(todo[i]) : got[Other(i)][a] < todo[i][b]
VbFlow == relay = "vb" => \A i \in Ends : Passed(i)

RelayInv == RelayTypes /\ CopyHasFrames /\ Connecting /\ StartsConnected /\ NcFlow /\ VbFlow

LEMMA FlowInit == RelayInit => NcFlow /\ VbFlow
<1> SUFFICES ASSUME RelayInit PROVE NcFlow /\ VbFlow
  OBVIOUS
<1>1. \A i \in Ends : /\ todo[i] = Input[i] /\ got[Other(i)] = <<>> /\ InHand(i) = <<>>
                      /\ Input[i] \in Seq(Nat) /\ Ascends(Input[i])
  BY EndsFacts, RelayAssumption DEF RelayInit, InHand, Ascends
<1>2. \A s \in Seq(Nat) : <<>> \o <<>> \o s = s
  BY NatEmpty
<1>3. NcFlow
  BY <1>1, <1>2 DEF NcFlow, RelayInit
<1>4. ToSet(<<>>) = {} /\ Len(<<>>) = 0
  <2>1. <<>> \in Seq(Nat) /\ Len(<<>>) = 0 BY NatEmpty
  <2>2. ToSet(<<>>) = {<<>>[i] : i \in 1..0} BY ONLY <2>1, NatToSet
  <2>3. 1..0 = {} OBVIOUS
  <2> QED BY <2>1, <2>2, <2>3
<1>5. ASSUME NEW i \in Ends PROVE Passed(i)
  <2>1. ToSet(got[Other(i)]) \subseteq ToSet(Input[i]) /\ ToSet(todo[i]) \subseteq ToSet(Input[i])
    BY <1>1, <1>4
  <2>2. Ascends(got[Other(i)]) /\ Ascends(todo[i])
    BY <1>1, <1>4 DEF Ascends
  <2>3. \A a \in 1..Len(got[Other(i)]) : FALSE
    BY <1>1, <1>4
  <2> QED BY <2>1, <2>2, <2>3 DEF Passed
<1> QED BY <1>3, <1>5 DEF VbFlow

\* The front of todo[i] comes into the hand: NcFlow's equation for that end.
LEMMA NcRead ==
  ASSUME RelayTypes, NcFlow, XferRead
  PROVE  NcFlow'
<1> USE DEF setupVars, endVars
<1>1. PICK i \in Ends :
         /\ selected' = selected \ {i} /\ from' = i
         /\ \/ at' = "end" /\ UNCHANGED <<buf, todo>>
            \/ \E n \in 0..Len(todo[i]) :
                 /\ buf' = SubSeq(todo[i], 1, n) /\ at' = "write"
                 /\ todo' = [todo EXCEPT ![i] = SubSeq(@, n + 1, Len(@))]
  BY ReadStep
<1>2. relay = "nc" /\ at = "xfer" /\ UNCHANGED <<relay, got>> /\ at' \in {"end", "write"}
  BY <1>1 DEF XferRead, RelayTypes, VbPlaces
<1>3. buf = <<>> /\ \A j \in Ends : InHand(j) = <<>> /\ todo[j] \in Seq(Nat) /\ got[Other(j)] \in Seq(Nat)
  BY <1>2, EndsFacts DEF NcFlow, InHand, RelayTypes
<1>4. \A j \in Ends : Input[j] = got[Other(j)] \o todo[j]
  <2> TAKE j \in Ends
  <2>1. Input[j] = got[Other(j)] \o <<>> \o todo[j] BY <1>2, <1>3 DEF NcFlow
  <2>2. got[Other(j)] \o <<>> = got[Other(j)] BY <1>3, NatEmpty
  <2> QED BY <2>1, <2>2
<1>5. ASSUME NEW j \in Ends, InHand(j)' = <<>>, todo'[j] = todo[j]
      PROVE  Input[j] = (got[Other(j)] \o InHand(j) \o todo[j])'
  <2>1. got[Other(j)] \o <<>> = got[Other(j)] BY <1>3, NatEmpty
  <2>2. got'[Other(j)] = got[Other(j)] BY <1>2
  <2> QED BY <1>4, <1>5, <2>1, <2>2 DEF Other
<1>6. CASE UNCHANGED <<buf, todo>>
  <2>1. \A j \in Ends : InHand(j)' = <<>> /\ todo'[j] = todo[j]
    BY <1>3, <1>6 DEF InHand
  <2> QED BY <1>2, <1>5, <2>1 DEF NcFlow
<1>7. ASSUME NEW n \in 0..Len(todo[i]), buf' = SubSeq(todo[i], 1, n),
             todo' = [todo EXCEPT ![i] = SubSeq(@, n + 1, Len(@))], at' = "write"
      PROVE  NcFlow'
  <2>1. \A j \in Ends : j # i => InHand(j)' = <<>> /\ todo'[j] = todo[j]
    BY <1>1, <1>7 DEF InHand, RelayTypes
  <2>2. InHand(i)' = SubSeq(todo[i], 1, n) /\ todo'[i] = SubSeq(todo[i], n + 1, Len(todo[i]))
    BY <1>1, <1>7 DEF InHand, RelayTypes
  <2>3. /\ SubSeq(todo[i], 1, n) \o SubSeq(todo[i], n + 1, Len(todo[i])) = todo[i]
        /\ SubSeq(todo[i], 1, n) \in Seq(Nat) /\ SubSeq(todo[i], n + 1, Len(todo[i])) \in Seq(Nat)
    BY <1>3, Cut
  <2>4. (got[Other(i)] \o SubSeq(todo[i], 1, n)) \o SubSeq(todo[i], n + 1, Len(todo[i]))
          = got[Other(i)] \o (SubSeq(todo[i], 1, n) \o SubSeq(todo[i], n + 1, Len(todo[i])))
    BY ONLY <1>3, <2>3, i \in Ends, NatAssoc, Zenon
  <2>5. got'[Other(i)] = got[Other(i)] BY <1>2
  <2>6. Input[i] = (got[Other(i)] \o InHand(i) \o todo[i])'
    BY <1>4, <2>2, <2>3, <2>4, <2>5 DEF Other
  <2> QED BY <1>2, <1>5, <1>7, <2>1, <2>6 DEF NcFlow
<1> QED BY <1>1, <1>6, <1>7

\* The front of the hand goes to the other end.
LEMMA NcWrite ==
  ASSUME RelayTypes, NcFlow, XferWrite
  PROVE  NcFlow'
<1> USE DEF setupVars, endVars
<1>1. PICK n \in 0..Len(buf) :
           /\ got' = [got EXCEPT ![Other(from)] = @ \o SubSeq(buf, 1, n)]
           /\ held' = [held EXCEPT ![Other(from)] = @ + n]
           /\ buf' = SubSeq(buf, n + 1, Len(buf))
           /\ at' = IF n = Len(buf) THEN "xfer" ELSE "wait"
  BY WriteStep
<1>2. relay = "nc" /\ UNCHANGED <<relay, todo, from>> /\ at' \in {"xfer", "wait"}
  BY <1>1 DEF XferWrite, RelayTypes, VbPlaces
<1>3. /\ buf \in Seq(Nat) /\ from \in Ends /\ Len(buf) \in Nat
      /\ \A j \in Ends : todo[j] \in Seq(Nat) /\ got[Other(j)] \in Seq(Nat)
  BY EndsFacts DEF RelayTypes
<1>4. /\ SubSeq(buf, 1, n) \o SubSeq(buf, n + 1, Len(buf)) = buf
      /\ SubSeq(buf, 1, n) \in Seq(Nat) /\ SubSeq(buf, n + 1, Len(buf)) \in Seq(Nat)
      /\ Len(SubSeq(buf, n + 1, Len(buf))) = Len(buf) - n
  BY <1>3, Cut
<1>5. at' = "xfer" => buf' = <<>>
  <2> SUFFICES ASSUME n = Len(buf) PROVE buf' = <<>>
    BY <1>1
  <2>1. Len(SubSeq(buf, n + 1, Len(buf))) = 0 BY <1>3, <1>4
  <2> QED BY <1>1, <1>4, <2>1, EmptySeq
<1>6. ASSUME NEW j \in Ends PROVE Input[j] = (got[Other(j)] \o InHand(j) \o todo[j])'
  <2>0. Input[j] = got[Other(j)] \o InHand(j) \o todo[j]
    BY <1>2 DEF NcFlow
  <2>1. CASE j # from
    <3>1. Other(j) # Other(from) BY <1>3, <2>1 DEF Ends, Other
    <3>2. got'[Other(j)] = got[Other(j)] BY <1>1, <1>3, <3>1, EndsFacts DEF RelayTypes
    <3>3. InHand(j) = <<>> /\ InHand(j)' = <<>> BY <1>2, <2>1 DEF InHand
    <3> QED BY <1>2, <2>0, <3>2, <3>3 DEF Other
  <2>2. CASE j = from
    <3>1. got'[Other(j)] = got[Other(j)] \o SubSeq(buf, 1, n)
      BY <1>1, <1>3, <2>2, EndsFacts DEF RelayTypes
    <3>2. InHand(j) = buf /\ InHand(j)' = SubSeq(buf, n + 1, Len(buf)) BY <1>1, <1>2, <2>2 DEF InHand
    <3>3. (got[Other(j)] \o SubSeq(buf, 1, n)) \o SubSeq(buf, n + 1, Len(buf))
            = got[Other(j)] \o (SubSeq(buf, 1, n) \o SubSeq(buf, n + 1, Len(buf)))
      BY ONLY <1>3, <1>4, <1>6, NatAssoc, ZenonT(30)
    <3>4. got'[Other(j)] \o InHand(j)' = got[Other(j)] \o InHand(j)
      BY <1>4, <3>1, <3>2, <3>3
    <3> QED BY <1>2, <2>0, <3>4 DEF Other
  <2> QED BY <2>1, <2>2
<1> QED BY <1>2, <1>5, <1>6 DEF NcFlow

LEMMA NcFlowStep ==
  ASSUME RelayTypes, NcFlow, [RelayNext]_relayVars
  PROVE  NcFlow'
<1> USE DEF setupVars, endVars, Goto
<1>1. CASE XferRead BY <1>1, NcRead
<1>2. CASE XferWrite BY <1>2, NcWrite
<1>3. CASE BridgeStep \/ CtrlCHandler
  <2>1. relay = "vb" /\ relay' = relay
    BY <1>3 DEF BridgeStep, OpenSockets, BlindSelect, MakeBridge, Forward, CtrlCHandler
  <2> QED BY <2>1 DEF NcFlow
<1>4. ASSUME UNCHANGED <<relay, todo, got, from, buf>>,
             at \notin {"write", "wait", "end"} \/ at' \in {"write", "wait", "end"}
      PROVE  NcFlow'
  BY <1>4 DEF NcFlow, InHand, Other
<1>5. CASE NcSetup
  <2>1. /\ UNCHANGED <<relay, todo, got, from, buf>>
        /\ at \notin {"write", "wait", "end"}
    BY <1>5 DEF NcSetup, ReadArgs, VsockFails, VsockListen, VsockConnect, Resolve, TcpConnect, Dup2
  <2> QED BY <1>4, <2>1
<1>6. CASE MainLoop \/ XferNone \/ XferWriteFails \/ XferWait
  <2>1. /\ UNCHANGED <<relay, todo, got, from, buf>>
        /\ at \notin {"write", "wait", "end"} \/ at' \in {"write", "wait", "end"}
    BY <1>6 DEF MainLoop, XferNone, XferWriteFails, XferWait
  <2> QED BY <1>4, <2>1
<1>7. CASE \E i \in Ends : Drain(i) \/ Hangup(i)
  <2>1. UNCHANGED <<relay, at, todo, got, from, buf>>
    BY <1>7 DEF Drain, Hangup
  <2> QED BY <1>4, <2>1
<1>8. CASE UNCHANGED relayVars
  <2>1. UNCHANGED <<relay, at, todo, got, from, buf>>
    BY <1>8 DEF relayVars
  <2> QED BY <1>4, <2>1
<1> QED BY <1>1, <1>2, <1>3, <1>5, <1>6, <1>7, <1>8 DEF RelayNext, NcStep

\* One frame: the first of what is to come is passed on, or dropped.
LEMMA FrameOn ==
  ASSUME NEW out \in Seq(Nat), NEW in \in Seq(Nat), in # <<>>, NEW all,
         ToSet(out) \subseteq all, ToSet(in) \subseteq all, Ascends(out), Ascends(in),
         \A a \in 1..Len(out), b \in 1..Len(in) : out[a] < in[b]
  PROVE  LET rest == Tail(in)
             new  == Append(out, Head(in))
         IN  /\ ToSet(rest) \subseteq all /\ ToSet(new) \subseteq all
             /\ Ascends(rest) /\ Ascends(new)
             /\ \A a \in 1..Len(out), b \in 1..Len(rest) : out[a] < rest[b]
             /\ \A a \in 1..Len(new), b \in 1..Len(rest) : new[a] < rest[b]
<1> DEFINE rest == Tail(in)
           new  == Append(out, Head(in))
<1>0. Len(out) \in Nat /\ Len(in) \in Nat /\ Len(in) >= 1 /\ 1 \in 1..Len(in) /\ Head(in) = in[1]
  BY EmptySeq
<1>1. /\ rest \in Seq(Nat) /\ Len(rest) = Len(in) - 1
      /\ \A b \in 1..Len(rest) : b + 1 \in 1..Len(in) /\ rest[b] = in[b + 1]
  BY <1>0
<1>2. /\ new \in Seq(Nat) /\ Len(new) = Len(out) + 1 /\ new[Len(out) + 1] = in[1]
      /\ \A a \in 1..Len(out) : new[a] = out[a]
  BY <1>0
<1>3. \A a \in 1..Len(new) :
        \/ a \in 1..Len(out) /\ new[a] = out[a]
        \/ a = Len(out) + 1 /\ new[a] = in[1]
  <2> HIDE DEF rest, new
  <2> TAKE a \in 1..Len(new)
  <2>1. a \in 1..Len(out) \/ a = Len(out) + 1 BY <1>0, <1>2
  <2> QED BY <1>2, <2>1
<1> HIDE DEF rest, new
<1>4. /\ \A a \in 1..Len(out) : out[a] \in all
      /\ \A b \in 1..Len(in) : in[b] \in all
  BY NatToSet
<1>5. ToSet(rest) \subseteq all
  <2>1. ToSet(rest) = {rest[b] : b \in 1..Len(rest)} BY <1>1, NatToSet
  <2> QED BY <1>1, <1>4, <2>1
<1>6. ToSet(new) \subseteq all
  <2>1. ToSet(new) = {new[b] : b \in 1..Len(new)} BY <1>2, NatToSet
  <2> QED BY <1>0, <1>3, <1>4, <2>1
<1>7. Ascends(rest)
  <2> SUFFICES ASSUME NEW a \in 1..Len(rest), NEW b \in 1..Len(rest), a < b
               PROVE  rest[a] < rest[b]
    BY DEF Ascends
  <2>1. a + 1 < b + 1 /\ a + 1 \in 1..Len(in) /\ b + 1 \in 1..Len(in) BY <1>1
  <2> QED BY <1>1, <2>1 DEF Ascends
<1>8. Ascends(new)
  <2> SUFFICES ASSUME NEW a \in 1..Len(new), NEW b \in 1..Len(new), a < b
               PROVE  new[a] < new[b]
    BY DEF Ascends
  <2>1. a \in 1..Len(out) /\ new[a] = out[a] BY <1>0, <1>2, <1>3, SMTT(30)
  <2>2. CASE b \in 1..Len(out) /\ new[b] = out[b] BY <2>1, <2>2 DEF Ascends
  <2>3. CASE b = Len(out) + 1 /\ new[b] = in[1] BY <1>0, <2>1, <2>3
  <2> QED BY <1>3, <2>2, <2>3
<1>9. \A a \in 1..Len(out), b \in 1..Len(rest) : out[a] < rest[b]
  BY <1>1
<1>10. ASSUME NEW a \in 1..Len(new), NEW b \in 1..Len(rest) PROVE new[a] < rest[b]
  <2>1. CASE a \in 1..Len(out) /\ new[a] = out[a] BY <1>9, <2>1
  <2>2. CASE a = Len(out) + 1 /\ new[a] = in[1]
    <3>1. 1 < b + 1 /\ b + 1 \in 1..Len(in) /\ rest[b] = in[b + 1] BY <1>1
    <3> QED BY <1>0, <2>2, <3>1 DEF Ascends
  <2> QED BY <1>3, <2>1, <2>2
<1> QED BY <1>5, <1>6, <1>7, <1>8, <1>9, <1>10 DEF rest, new

LEMMA VbForward ==
  ASSUME RelayTypes, CopyHasFrames, VbFlow, Forward
  PROVE  VbFlow'
<1>0. relay = "vb" /\ relay' = relay
  BY DEF Forward
<1>1. CASE UNCHANGED <<todo, got>>
  BY <1>0, <1>1 DEF VbFlow, Passed, Other
<1>2. ASSUME NEW i \in Ends,
             todo[i] # <<>>, todo' = [todo EXCEPT ![i] = Tail(@)],
             \/ got' = [got EXCEPT ![Other(i)] = Append(@, Head(todo[i]))]
             \/ got' = got
      PROVE  VbFlow'
  <2>1. todo[i] \in Seq(Nat) /\ got[Other(i)] \in Seq(Nat) /\ Passed(i)
    BY <1>0, EndsFacts DEF RelayTypes, VbFlow
  <2>2. todo'[i] = Tail(todo[i])
    BY <1>2 DEF RelayTypes
  <2>3. got'[Other(i)] = Append(got[Other(i)], Head(todo[i])) \/ got'[Other(i)] = got[Other(i)]
    BY <1>2, EndsFacts DEF RelayTypes
  <2>4. /\ ToSet(Tail(todo[i])) \subseteq ToSet(Input[i])
        /\ ToSet(Append(got[Other(i)], Head(todo[i]))) \subseteq ToSet(Input[i])
        /\ Ascends(Tail(todo[i])) /\ Ascends(Append(got[Other(i)], Head(todo[i])))
        /\ \A a \in 1..Len(got[Other(i)]), b \in 1..Len(Tail(todo[i])) :
             got[Other(i)][a] < Tail(todo[i])[b]
        /\ \A a \in 1..Len(Append(got[Other(i)], Head(todo[i]))), b \in 1..Len(Tail(todo[i])) :
             Append(got[Other(i)], Head(todo[i]))[a] < Tail(todo[i])[b]
    <3> DEFINE out == got[Other(i)]
               in == todo[i]
               all == ToSet(Input[i])
    <3>1. /\ out \in Seq(Nat) /\ in \in Seq(Nat) /\ in # <<>>
          /\ ToSet(out) \subseteq all /\ ToSet(in) \subseteq all /\ Ascends(out) /\ Ascends(in)
          /\ \A a \in 1..Len(out), b \in 1..Len(in) : out[a] < in[b]
      BY <1>2, <2>1 DEF Passed
    <3> HIDE DEF out, in, all
    <3>2. /\ ToSet(Tail(in)) \subseteq all /\ ToSet(Append(out, Head(in))) \subseteq all
          /\ Ascends(Tail(in)) /\ Ascends(Append(out, Head(in)))
          /\ \A a \in 1..Len(out), b \in 1..Len(Tail(in)) : out[a] < Tail(in)[b]
          /\ \A a \in 1..Len(Append(out, Head(in))), b \in 1..Len(Tail(in)) :
               Append(out, Head(in))[a] < Tail(in)[b]
      BY ONLY <3>1, FrameOn, Zenon
    <3> QED BY <3>2 DEF out, in, all
  <2>5. Passed(i)'
    <3>1. CASE got'[Other(i)] = Append(got[Other(i)], Head(todo[i]))
      BY <2>2, <2>4, <3>1 DEF Passed, Other
    <3>2. CASE got'[Other(i)] = got[Other(i)]
      BY <2>1, <2>2, <2>4, <3>2 DEF Passed, Other
    <3> QED BY <2>3, <3>1, <3>2
  <2>6. ASSUME NEW j \in Ends, j # i PROVE Passed(j)'
    <3>1. Other(j) # Other(i) /\ Other(j) \in Ends BY <2>6 DEF Ends, Other
    <3>2. got'[Other(j)] = got[Other(j)] /\ todo'[j] = todo[j]
      BY <1>2, <2>6, <3>1, EndsFacts DEF RelayTypes
    <3>3. Passed(j) BY <1>0 DEF VbFlow
    <3> QED BY <3>2, <3>3 DEF Passed, Other
  <2> QED BY <2>5, <2>6 DEF VbFlow
<1> QED BY <1>1, <1>2, ForwardStep

LEMMA VbFlowStep ==
  ASSUME RelayTypes, CopyHasFrames, VbFlow, [RelayNext]_relayVars
  PROVE  VbFlow'
<1> USE DEF setupVars, endVars, Goto
<1>1. CASE Forward BY <1>1, VbForward
<1>2. ASSUME UNCHANGED <<relay, todo, got>> PROVE VbFlow'
  BY <1>2 DEF VbFlow, Passed, Other
<1>3. CASE OpenSockets \/ BlindSelect \/ MakeBridge \/ CtrlCHandler
  <2>1. UNCHANGED <<relay, todo, got>>
    BY <1>3 DEF OpenSockets, BlindSelect, MakeBridge, CtrlCHandler
  <2> QED BY <1>2, <2>1
<1>4. CASE NcSetup
  <2>1. UNCHANGED <<relay, todo, got>>
    BY <1>4 DEF NcSetup, ReadArgs, VsockFails, VsockListen, VsockConnect, Resolve, TcpConnect, Dup2
  <2> QED BY <1>2, <2>1
<1>5. CASE NcStep
  <2>1. relay = "nc" /\ relay' = relay
    BY <1>5 DEF NcStep, MainLoop, XferRead, XferNone, XferWrite, XferWriteFails, XferWait,
                RelayTypes, VbPlaces
  <2> QED BY <2>1 DEF VbFlow
<1>6. CASE \E i \in Ends : Drain(i) \/ Hangup(i)
  <2>1. UNCHANGED <<relay, todo, got>> BY <1>6 DEF Drain, Hangup
  <2> QED BY <1>2, <2>1
<1>7. CASE UNCHANGED relayVars
  <2>1. UNCHANGED <<relay, todo, got>> BY <1>7 DEF relayVars
  <2> QED BY <1>2, <2>1
<1> QED BY <1>1, <1>3, <1>4, <1>5, <1>6, <1>7 DEF RelayNext, BridgeStep

LEMMA RelayAlways == RelaySpec => []RelayInv
<1>1. RelayInit => RelayInv
  BY RelayTypesInit, FlowInit DEF RelayInv
<1>2. RelayInv /\ [RelayNext]_relayVars => RelayInv'
  BY RelayTypesStep, ConnectingStep, NcFlowStep, VbFlowStep DEF RelayInv
<1> QED BY <1>1, <1>2, PTL DEF RelaySpec

LEMMA RelayInvImplies == RelayInv => RelayInOrder
<1> SUFFICES ASSUME RelayInv, NEW i \in Ends
             PROVE  LET out == got[Other(i)] IN
                    /\ relay = "nc" => Input[i] = out \o (IF from = i THEN buf ELSE <<>>) \o todo[i]
                    /\ ToSet(out) \subseteq ToSet(Input[i])
                    /\ \A a, b \in 1..Len(out) : a < b => out[a] < out[b]
  BY DEF RelayInOrder
<1>1. CASE relay = "nc"
  <2>1. Input[i] = got[Other(i)] \o InHand(i) \o todo[i]
    BY <1>1 DEF RelayInv, NcFlow
  <2>2. got[Other(i)] \in Seq(Nat) /\ InHand(i) \in Seq(Nat) /\ todo[i] \in Seq(Nat)
    BY EndsFacts, NatEmpty DEF RelayInv, RelayTypes, InHand
  <2>3. InHand(i) \o todo[i] \in Seq(Nat)
    BY ONLY <2>2, NatConcat, Zenon
  <2>4. (got[Other(i)] \o InHand(i)) \o todo[i] = got[Other(i)] \o (InHand(i) \o todo[i])
    BY ONLY <2>2, NatAssoc, Zenon
  <2>5. Ascends(Input[i]) BY RelayAssumption DEF Ascends
  <2>6. Ascends(got[Other(i)]) /\ ToSet(got[Other(i)]) \subseteq ToSet(Input[i])
    BY <2>1, <2>2, <2>3, <2>4, <2>5, FrontAscends
  <2> QED BY <2>1, <2>6 DEF InHand, Ascends
<1>2. CASE relay # "nc"
  <2>1. Passed(i) BY <1>2 DEF RelayInv, RelayTypes, VbFlow
  <2> QED BY <1>2, <2>1 DEF Passed, Ascends
<1> QED BY <1>1, <1>2

\* nc-vsock relays only between ends that are connected: with -t, dup2() has
\* put an open TCP connection in the place of the terminal.
THEOREM AlwaysStartsConnected == RelaySpec => []StartsConnected
  BY RelayAlways, PTL DEF RelayInv

\* nc-vsock's xfer_data passes on every byte once and in order through any
\* partial reads and writes; the bridge drops frames but repeats, reorders and
\* invents none.
THEOREM RelayAlwaysInOrder == RelaySpec => []RelayInOrder
  BY RelayAlways, RelayInvImplies, PTL

-----------------------------------------------------------------------------
(***************************************************************************)
(* The socket servers.                                                     *)
(***************************************************************************)
Uniq(s) == \A i, j \in 1..Len(s) : s[i] = s[j] => i = j

ServerTypes ==
    /\ prog \in Epoll \cup Once
    /\ server \in {"setup", "wait", "read", "close", "exited", "deaf"}
    /\ server \in {"read", "close"} => prog \in Once
    /\ backlog \in Seq(Clients) /\ batch \in Seq(Fds \cup {Listen})
    /\ prog \in Once => batch = <<>>
    /\ conn \in [Fds -> Clients \cup {None}]
    /\ client \in [Clients -> {"start", "write", "reply", "close", "closed"}]
    /\ sent \in [Clients -> Seq(Nat)] /\ stream \in [Clients -> Seq(Nat)]
    /\ shown \in [Clients -> Seq(Nat)]

\* An epoll server and its connections: every client that has connected is
\* behind one descriptor or in the backlog once, the events still to be
\* handled are of descriptors that are open, and data waits only where it
\* will be read.
Links ==
    prog \in Epoll =>
      /\ Uniq(batch) /\ Uniq(backlog)
      /\ Listen \in ToSet(batch) => backlog # <<>>
      /\ \A f \in Fds : f \in ToSet(batch) => conn[f] \in Clients
      /\ \A f, g \in Fds : conn[f] = conn[g] /\ conn[f] \in Clients => f = g
      /\ \A c \in Clients : /\ c \in ToSet(backlog) => ~ Open(c)
                            /\ client[c] = "start" => ~ Linked(c)
                            /\ stream[c] # <<>> => Linked(c)

\* Text is shown as it is read.
Text(c) == prog \in Epoll \ {"ints"} => sent[c] = shown[c] \o stream[c]

\* A Packet is written once; it waits, or it was shown, or it was cut short and
\* dropped.
Packet(c) ==
    prog = "ints" =>
      /\ client[c] \in {"start", "write"} => sent[c] = <<>>
      /\ Len(sent[c]) <= Len(Message)
      /\ \/ stream[c] = sent[c] /\ shown[c] = <<>>
         \/ stream[c] = <<>> /\ shown[c] = sent[c] /\ Len(sent[c]) = Len(Message)
         \/ stream[c] = <<>> /\ shown[c] = <<>> /\ Len(sent[c]) < Len(Message)

\* The servers that read once show the front of what was sent.
Single(c) ==
    prog \in Once =>
      /\ server \in {"setup", "wait", "read"} => stream[c] = sent[c] /\ shown[c] = <<>>
      /\ \E n \in 0..Len(sent[c]) : shown[c] = SubSeq(sent[c], 1, n)

Streams == \A c \in Clients : Text(c) /\ Packet(c) /\ Single(c)
SockInv == ServerTypes /\ Links /\ Streams

(***************************************************************************)
(* Sequences without repetition.                                           *)
(***************************************************************************)
LEMMA UniqTail ==
  ASSUME NEW S, NEW s \in Seq(S), s # <<>>, Uniq(s)
  PROVE  /\ Head(s) \in S /\ Tail(s) \in Seq(S) /\ Uniq(Tail(s))
         /\ ToSet(s) = ToSet(Tail(s)) \cup {Head(s)} /\ Head(s) \notin ToSet(Tail(s))
<1>0. Len(s) \in Nat /\ Len(s) >= 1 /\ Head(s) = s[1] /\ 1 \in 1..Len(s) /\ s[1] \in S
  BY EmptySeq
<1>1. /\ Tail(s) \in Seq(S) /\ Len(Tail(s)) = Len(s) - 1
      /\ \A i \in 1..Len(Tail(s)) : i + 1 \in 1..Len(s) /\ Tail(s)[i] = s[i + 1]
  BY <1>0
<1>2. ToSet(s) = {s[i] : i \in 1..Len(s)} /\ ToSet(Tail(s)) = {Tail(s)[i] : i \in 1..Len(Tail(s))}
  <2>1. DOMAIN s = 1..Len(s) /\ DOMAIN Tail(s) = 1..Len(Tail(s)) BY <1>1, LenProperties
  <2> QED BY <2>1, Zenon DEF ToSet
<1>3. Uniq(Tail(s))
  BY <1>0, <1>1 DEF Uniq
<1>4. Head(s) \notin ToSet(Tail(s))
  <2> SUFFICES ASSUME NEW i \in 1..Len(Tail(s)), Tail(s)[i] = s[1] PROVE FALSE
    BY <1>0, <1>2
  <2>1. i + 1 \in 1..Len(s) /\ s[i + 1] = s[1] BY <1>1
  <2>2. i + 1 = 1 BY <1>0, <2>1 DEF Uniq
  <2> QED BY <1>1, <2>2
<1>5. ASSUME NEW i \in 1..Len(s) PROVE s[i] \in ToSet(Tail(s)) \cup {Head(s)}
  <2>1. CASE i = 1 BY <1>0, <2>1
  <2>2. CASE i # 1
    <3>1. i - 1 \in 1..Len(Tail(s)) BY <1>0, <1>1, <2>2
    <3>2. Tail(s)[i - 1] = s[(i - 1) + 1] /\ (i - 1) + 1 = i BY <1>0, <1>1, <3>1
    <3> QED BY <1>2, <3>1, <3>2
  <2> QED BY <2>1, <2>2
<1>6. ToSet(Tail(s)) \cup {Head(s)} \subseteq ToSet(s)
  BY <1>0, <1>1, <1>2
<1> QED BY <1>0, <1>1, <1>2, <1>3, <1>4, <1>5, <1>6

LEMMA UniqAppend ==
  ASSUME NEW S, NEW s \in Seq(S), NEW x \in S, Uniq(s), x \notin ToSet(s)
  PROVE  /\ Append(s, x) \in Seq(S) /\ Uniq(Append(s, x))
         /\ ToSet(Append(s, x)) = ToSet(s) \cup {x}
<1> DEFINE t == Append(s, x)
<1>1. /\ t \in Seq(S) /\ Len(t) = Len(s) + 1 /\ Len(s) \in Nat /\ t[Len(s) + 1] = x
      /\ \A i \in 1..Len(s) : t[i] = s[i] /\ i \in 1..Len(t)
  OBVIOUS
<1> HIDE DEF t
<1>2. ToSet(s) = {s[i] : i \in 1..Len(s)} /\ ToSet(t) = {t[i] : i \in 1..Len(t)}
  BY <1>1 DEF ToSet
<1>3. \A i \in 1..Len(t) : i \in 1..Len(s) \/ i = Len(s) + 1
  BY <1>1
<1>4. \A i \in 1..Len(s) : t[i] # x
  BY <1>1, <1>2
<1>5. Uniq(t)
  <2> SUFFICES ASSUME NEW i \in 1..Len(t), NEW j \in 1..Len(t), t[i] = t[j] PROVE i = j
    BY DEF Uniq
  <2>1. CASE i \in 1..Len(s) /\ j \in 1..Len(s) BY <1>1, <2>1 DEF Uniq
  <2>2. CASE i = Len(s) + 1 \/ j = Len(s) + 1 BY <1>1, <1>3, <1>4, <2>2
  <2> QED BY <1>3, <2>1, <2>2
<1>6. ToSet(t) = ToSet(s) \cup {x}
  <2>1. \A i \in 1..Len(t) : t[i] \in ToSet(s) \cup {x} BY <1>1, <1>2, <1>3
  <2>2. x \in ToSet(t)
    <3>1. Len(s) + 1 \in 1..Len(t) BY <1>1
    <3> QED BY <1>1, <1>2, <3>1
  <2>3. \A i \in 1..Len(s) : s[i] \in ToSet(t) BY <1>1, <1>2
  <2> QED BY <1>2, <2>1, <2>2, <2>3
<1> QED BY <1>1, <1>5, <1>6 DEF t

\* A set of descriptors in any order.
LEMMA UniqOrder ==
  ASSUME NEW S, NEW E, E \subseteq S, IsFiniteSet(E), NEW s \in SetToSeqs(E)
  PROVE  s \in Seq(S) /\ Uniq(s) /\ ToSet(s) \subseteq E
<1>1. Cardinality(E) \in Nat
  BY FS_CardinalityType
<1>2. /\ s \in [1..Cardinality(E) -> E]
      /\ \A i, j \in 1..Cardinality(E) : i # j => s[i] # s[j]
  BY DEF SetToSeqs
<1>3. s \in Seq(E) /\ Len(s) = Cardinality(E) /\ DOMAIN s = 1..Cardinality(E)
  BY <1>1, <1>2
<1>4. s \in Seq(S)
  BY <1>3, SeqMonotonic
<1>5. Uniq(s)
  BY <1>2, <1>3 DEF Uniq
<1>6. ToSet(s) \subseteq E
  BY <1>2, <1>3 DEF ToSet
<1> QED BY <1>4, <1>5, <1>6

-----------------------------------------------------------------------------
(***************************************************************************)
(* accept() finds a descriptor: a client connects once, so while one waits *)
(* in the backlog fewer descriptors are taken than there are clients.      *)
(***************************************************************************)
Less == {ss \in Nat \X Nat : ss[1] < ss[2]}

LEMMA LeastExists ==
  ASSUME NEW T, T \subseteq Nat, T # {}
  PROVE  \E n \in T : \A m \in T : n <= m
<1>1. IsWellFoundedOn(Less, Nat)
  BY NatLessThanWellFounded, Zenon DEF OpToRel, Less
<1>2. PICK n \in T : \A m \in T : ~ (<<m, n>> \in Less)
  BY <1>1, WFMin, Zenon
<1>3. ASSUME NEW m \in T PROVE n <= m
  <2>1. n \in Nat /\ m \in Nat OBVIOUS
  <2>2. ~ (<<m, n>> \in Less) BY <1>2
  <2>3. ~ (m < n) BY <2>1, <2>2 DEF Less
  <2> QED BY <2>1, <2>3
<1> QED BY <1>3

LEMMA FdsFacts ==
  /\ Cardinality(Clients) \in Nat /\ Fds \subseteq Nat \ {0} /\ Listen \notin Fds
  /\ IsFiniteSet(Fds) /\ IsFiniteSet(Fds \cup {Listen}) /\ Cardinality(Fds) = Cardinality(Clients)
<1>1. Cardinality(Clients) \in Nat
  BY ServersAssumption, FS_CardinalityType
<1>2. IsFiniteSet(Fds) /\ Cardinality(Fds) = Cardinality(Clients)
  <2>1. /\ IsFiniteSet(1..Cardinality(Clients))
        /\ Cardinality(1..Cardinality(Clients)) =
             IF 1 > Cardinality(Clients) THEN 0 ELSE Cardinality(Clients) - 1 + 1
    BY <1>1, FS_Interval
  <2> QED BY <1>1, <2>1 DEF Fds
<1>3. Fds \subseteq Nat \ {0} /\ Listen \notin Fds
  BY <1>1 DEF Fds, Listen
<1>4. IsFiniteSet(Fds \cup {Listen})
  BY <1>2, FS_AddElement
<1> QED BY <1>1, <1>2, <1>3, <1>4

LEMMA FreeFd ==
  ASSUME ServerTypes, Links, prog \in Epoll, backlog # <<>>
  PROVE  LET f == CHOOSE f \in Fds : conn[f] = None /\ \A g \in 1..(f - 1) : conn[g] # None
         IN  f \in Fds /\ conn[f] = None
<1> DEFINE h == Head(backlog)
           T == {f \in Fds : conn[f] = None}
<1>1. h \in Clients /\ ~ Open(h)
  <2>1. backlog \in Seq(Clients) /\ Uniq(backlog) BY DEF ServerTypes, Links
  <2>2. h \in Clients /\ h \in ToSet(backlog) BY <2>1, UniqTail
  <2> QED BY <2>2 DEF Links
<1> HIDE DEF h
<1>2. IsFiniteSet(Clients \ {h}) /\ Cardinality(Clients \ {h}) < Cardinality(Fds)
  <2>1. IsFiniteSet(Clients) BY ServersAssumption
  <2>2. IsFiniteSet(Clients \ {h}) /\ Cardinality(Clients \ {h}) = Cardinality(Clients) - 1
    BY <1>1, <2>1, FS_RemoveElement
  <2> QED BY <2>2, FdsFacts
<1>3. T # {}
  <2> SUFFICES ASSUME T = {} PROVE FALSE OBVIOUS
  <2>1. conn \in [Fds -> Clients \ {h}]
    <3>1. conn \in [Fds -> Clients \cup {None}] BY DEF ServerTypes
    <3>2. \A f \in Fds : conn[f] # None BY DEF T
    <3>3. \A f \in Fds : conn[f] # h BY <1>1 DEF Open
    <3> QED BY <3>1, <3>2, <3>3
  <2>2. PICK x, y \in Fds : x # y /\ conn[x] = conn[y]
    <3>1. IsFiniteSet(Fds) BY FdsFacts
    <3> QED BY ONLY <1>2, <2>1, <3>1, FS_PigeonHole, Zenon
  <2> QED BY <2>1, <2>2 DEF Links
<1>4. PICK n \in T : \A m \in T : n <= m
  <2>1. T \subseteq Nat BY FdsFacts
  <2> HIDE DEF T
  <2> QED BY <1>3, <2>1, LeastExists
<1>5. n \in Fds /\ conn[n] = None /\ \A g \in 1..(n - 1) : conn[g] # None
  <2>1. n \in Fds /\ conn[n] = None OBVIOUS
  <2>2. ASSUME NEW g \in 1..(n - 1), conn[g] = None PROVE FALSE
    <3>1. n \in 1..Cardinality(Clients) BY <2>1 DEF Fds
    <3>2. g \in Fds BY <3>1, FdsFacts DEF Fds
    <3>3. n <= g BY <1>4, <2>2, <3>2
    <3> QED BY <3>1, <3>3, FdsFacts
  <2> QED BY <2>1, <2>2
<1> HIDE DEF T
<1> QED BY <1>5, Zenon

-----------------------------------------------------------------------------
(***************************************************************************)
(* What a read and a write do to the streams.                              *)
(***************************************************************************)
LEMMA SockConstants ==
  /\ BufferSize \in Nat /\ BufferSize >= 1 /\ Message \in Seq(Nat)
  /\ Len(Message) \in Nat /\ Len(Message) >= 1
<1>1. BufferSize \in Nat \ {0} /\ Message \in Seq(Nat) /\ Message # <<>>
  BY ServersAssumption
<1> QED BY <1>1, EmptySeq

\* A read takes the front of the stream; that of a Packet all there is of it.
LEMMA TakeFront ==
  ASSUME ServerTypes, NEW c \in Clients
  PROVE  /\ stream[c] \in Seq(Nat) /\ sent[c] \in Seq(Nat) /\ shown[c] \in Seq(Nat)
         /\ Len(stream[c]) \in Nat /\ Take(c) \in 0..Len(stream[c])
         /\ SubSeq(stream[c], 1, Take(c)) \in Seq(Nat)
         /\ SubSeq(stream[c], Take(c) + 1, Len(stream[c])) \in Seq(Nat)
         /\ SubSeq(stream[c], 1, Take(c)) \o SubSeq(stream[c], Take(c) + 1, Len(stream[c]))
              = stream[c]
         /\ prog = "ints" /\ Len(stream[c]) <= Len(Message) => Take(c) = Len(stream[c])
<1>1. stream[c] \in Seq(Nat) /\ sent[c] \in Seq(Nat) /\ shown[c] \in Seq(Nat) /\ Len(stream[c]) \in Nat
  BY DEF ServerTypes
<1>2. Take(c) \in 0..Len(stream[c])
  BY <1>1, SockConstants DEF Take
<1>3. prog = "ints" /\ Len(stream[c]) <= Len(Message) => Take(c) = Len(stream[c])
  BY <1>1, SockConstants DEF Take
<1>4. /\ SubSeq(stream[c], 1, Take(c)) \in Seq(Nat)
      /\ SubSeq(stream[c], Take(c) + 1, Len(stream[c])) \in Seq(Nat)
      /\ SubSeq(stream[c], 1, Take(c)) \o SubSeq(stream[c], Take(c) + 1, Len(stream[c])) = stream[c]
  BY <1>1, <1>2, Cut
<1> QED BY <1>1, <1>2, <1>3, <1>4

\* The streams of a server that has not moved on depend on nothing else.
LEMMA StreamsKept ==
  ASSUME Streams, UNCHANGED <<prog, sent, stream, shown>>,
         prog = "ints" => \A c \in Clients : client'[c] \in {"start", "write"} =>
                            client[c] \in {"start", "write"},
         prog \in Once /\ server' \in {"setup", "wait", "read"} => server \in {"setup", "wait", "read"}
  PROVE  Streams'
<1> SUFFICES ASSUME NEW c \in Clients PROVE Text(c)' /\ Packet(c)' /\ Single(c)'
  BY DEF Streams
<1>1. Text(c) /\ Packet(c) /\ Single(c)
  BY DEF Streams
<1> QED BY <1>1 DEF Text, Packet, Single

\* What one client's read or write leaves alone.
LEMMA OthersKept ==
  ASSUME Streams, NEW c \in Clients, NEW d \in Clients, d # c,
         UNCHANGED <<prog, server>>, client'[d] = client[d],
         sent'[d] = sent[d], stream'[d] = stream[d], shown'[d] = shown[d]
  PROVE  Text(d)' /\ Packet(d)' /\ Single(d)'
<1>1. Text(d) /\ Packet(d) /\ Single(d)
  BY DEF Streams
<1> QED BY <1>1 DEF Text, Packet, Single

LEMMA TextRead ==
  ASSUME SockInv, NEW f \in Fds, conn[f] \in Clients, prog \in Epoll, EpollText(f)
  PROVE  Streams' /\ shown' \in [Clients -> Seq(Nat)] /\ stream' \in [Clients -> Seq(Nat)]
<1>c. PICK c \in Clients : c = conn[f]
  OBVIOUS
<1>0. ServerTypes /\ Streams /\ c \in Clients
  BY DEF SockInv
<1> DEFINE front == SubSeq(stream[c], 1, Take(c))
           rest  == SubSeq(stream[c], Take(c) + 1, Len(stream[c]))
<1>1. /\ prog # "ints" /\ UNCHANGED <<prog, server, client, sent>>
      /\ shown' = [shown EXCEPT ![c] = @ \o front]
      /\ stream' = [stream EXCEPT ![c] = rest]
  BY <1>c DEF EpollText
<1>2. /\ stream[c] \in Seq(Nat) /\ sent[c] \in Seq(Nat) /\ shown[c] \in Seq(Nat)
      /\ front \in Seq(Nat) /\ rest \in Seq(Nat) /\ front \o rest = stream[c]
  BY <1>0, TakeFront
<1> HIDE DEF front, rest
<1>3. shown[c] \o front \in Seq(Nat)
  BY ONLY <1>2, NatConcat, Zenon
<1>4. /\ shown' \in [Clients -> Seq(Nat)] /\ stream' \in [Clients -> Seq(Nat)]
      /\ shown'[c] = shown[c] \o front /\ stream'[c] = rest
      /\ \A d \in Clients \ {c} : shown'[d] = shown[d] /\ stream'[d] = stream[d]
  BY <1>0, <1>1, <1>2, <1>3 DEF ServerTypes
<1>5. Text(c)' /\ Packet(c)' /\ Single(c)'
  <2>1. sent[c] = shown[c] \o stream[c] BY <1>0, <1>1 DEF Streams, Text
  <2>2. (shown[c] \o front) \o rest = shown[c] \o (front \o rest)
    BY ONLY <1>2, NatAssoc, Zenon
  <2>3. sent'[c] = shown'[c] \o stream'[c] BY <1>1, <1>2, <1>4, <2>1, <2>2
  <2>4. prog' \notin Once /\ prog' # "ints" BY <1>1 DEF Epoll, Once
  <2> QED BY <2>3, <2>4 DEF Text, Packet, Single
<1>6. ASSUME NEW d \in Clients, d # c PROVE Text(d)' /\ Packet(d)' /\ Single(d)'
  BY <1>0, <1>1, <1>4, <1>6, OthersKept
<1>7. Streams'
  BY <1>5, <1>6 DEF Streams
<1> QED BY <1>4, <1>7

LEMMA PacketRead ==
  ASSUME SockInv, NEW f \in Fds, conn[f] \in Clients, prog \in Epoll, EpollPacket(f)
  PROVE  Streams' /\ shown' \in [Clients -> Seq(Nat)] /\ stream' \in [Clients -> Seq(Nat)]
<1>c. PICK c \in Clients : c = conn[f]
  OBVIOUS
<1>0. ServerTypes /\ Streams /\ c \in Clients
  BY DEF SockInv
<1> DEFINE front == SubSeq(stream[c], 1, Take(c))
           rest  == SubSeq(stream[c], Take(c) + 1, Len(stream[c]))
<1>1. /\ prog = "ints" /\ UNCHANGED <<prog, server, client, sent>> /\ stream[c] # <<>>
      /\ shown' = IF Take(c) = Len(Message) THEN [shown EXCEPT ![c] = @ \o front] ELSE shown
      /\ stream' = [stream EXCEPT ![c] = rest]
  BY <1>c DEF EpollPacket
<1>2. /\ stream[c] \in Seq(Nat) /\ sent[c] \in Seq(Nat) /\ shown[c] \in Seq(Nat)
      /\ front \in Seq(Nat) /\ rest \in Seq(Nat) /\ front \o rest = stream[c]
      /\ Len(stream[c]) <= Len(Message) => Take(c) = Len(stream[c])
  BY <1>0, <1>1, TakeFront
<1>3. /\ Len(sent[c]) <= Len(Message) /\ stream[c] = sent[c] /\ shown[c] = <<>>
      /\ client[c] \in {"start", "write"} => sent[c] = <<>>
  BY <1>0, <1>1 DEF Streams, Packet
<1>4. Take(c) = Len(stream[c]) /\ rest = <<>> /\ front = stream[c]
  <2>1. Take(c) = Len(stream[c]) BY <1>2, <1>3
  <2>2. rest = <<>> /\ front = stream[c] BY <1>2, <2>1, SubSeqFull, SubSeqEmpty
  <2> QED BY <2>1, <2>2
<1> HIDE DEF front, rest
<1>5. <<>> \o front = front
  BY ONLY <1>2, NatEmpty, Zenon
<1>6. /\ stream' \in [Clients -> Seq(Nat)] /\ stream'[c] = <<>>
      /\ \A d \in Clients \ {c} : stream'[d] = stream[d]
  BY <1>0, <1>1, <1>2, <1>4 DEF ServerTypes
<1>7. /\ shown' \in [Clients -> Seq(Nat)]
      /\ shown'[c] = IF Len(sent[c]) = Len(Message) THEN sent[c] ELSE <<>>
      /\ \A d \in Clients \ {c} : shown'[d] = shown[d]
  <2>1. CASE Take(c) = Len(Message)
    BY <1>0, <1>1, <1>2, <1>3, <1>4, <1>5, <2>1 DEF ServerTypes
  <2>2. CASE Take(c) # Len(Message)
    BY <1>0, <1>1, <1>2, <1>3, <1>4, <2>2 DEF ServerTypes
  <2> QED BY <2>1, <2>2
<1>8. Text(c)' /\ Packet(c)' /\ Single(c)'
  <2>1. prog' \notin Once /\ prog' \notin Epoll \ {"ints"} BY <1>1 DEF Epoll, Once
  <2>2. Len(sent[c]) \in Nat BY <1>2
  <2>3. Packet(c)'
    BY <1>1, <1>3, <1>6, <1>7, <2>2, SockConstants DEF Packet
  <2> QED BY <2>1, <2>3 DEF Text, Single
<1>9. ASSUME NEW d \in Clients, d # c PROVE Text(d)' /\ Packet(d)' /\ Single(d)'
  BY <1>0, <1>1, <1>6, <1>7, <1>9, OthersKept
<1>10. Streams'
  BY <1>8, <1>9 DEF Streams
<1> QED BY <1>6, <1>7, <1>10

\* One write: the same bytes are sent and wait to be read.
LEMMA WriteSends ==
  ASSUME SockInv, NEW c \in Clients, client[c] = "write", NEW n \in 0..Len(Message),
         sent' = [sent EXCEPT ![c] = @ \o SubSeq(Message, 1, n)],
         stream' = [stream EXCEPT ![c] = @ \o SubSeq(Message, 1, n)],
         client' = [client EXCEPT ![c] =
                   IF Len(sent'[c]) < Writes * Len(Message) /\ n = Len(Message) THEN "write"
                   ELSE IF prog = "veth" THEN "reply" ELSE "close"],
         UNCHANGED <<prog, server, shown>>
  PROVE  /\ Streams' /\ sent' \in [Clients -> Seq(Nat)] /\ stream' \in [Clients -> Seq(Nat)]
         /\ client' \in [Clients -> {"start", "write", "reply", "close", "closed"}]
         /\ \A d \in Clients : client'[d] = "start" => client[d] = "start"
         /\ \A d \in Clients : stream'[d] = stream[d] \/ d = c
<1>0. ServerTypes /\ Streams
  BY DEF SockInv
<1> DEFINE m == SubSeq(Message, 1, n)
<1>1. m \in Seq(Nat) /\ Len(m) = n /\ n \in Nat /\ n <= Len(Message)
  BY SockConstants, Cut
<1>2. stream[c] \in Seq(Nat) /\ sent[c] \in Seq(Nat) /\ shown[c] \in Seq(Nat)
  BY <1>0 DEF ServerTypes
<1>m. /\ sent' = [sent EXCEPT ![c] = @ \o m]
      /\ stream' = [stream EXCEPT ![c] = @ \o m]
  OBVIOUS
<1> HIDE DEF m
<1>3. /\ stream[c] \o m \in Seq(Nat) /\ sent[c] \o m \in Seq(Nat)
      /\ Len(sent[c] \o m) = Len(sent[c]) + Len(m)
  BY ONLY <1>1, <1>2, NatConcat, Zenon
<1>4. /\ sent' \in [Clients -> Seq(Nat)] /\ stream' \in [Clients -> Seq(Nat)]
      /\ sent'[c] = sent[c] \o m /\ stream'[c] = stream[c] \o m
      /\ \A d \in Clients \ {c} : sent'[d] = sent[d] /\ stream'[d] = stream[d]
  BY <1>0, <1>2, <1>3, <1>m, ZenonT(30) DEF ServerTypes
<1>5. /\ client' \in [Clients -> {"start", "write", "reply", "close", "closed"}]
      /\ client'[c] = IF Len(sent'[c]) < Writes * Len(Message) /\ n = Len(Message) THEN "write"
                      ELSE IF prog = "veth" THEN "reply" ELSE "close"
      /\ \A d \in Clients \ {c} : client'[d] = client[d]
  BY <1>0 DEF ServerTypes
<1>6. Text(c)'
  <2> SUFFICES ASSUME prog \in Epoll \ {"ints"} PROVE sent'[c] = shown'[c] \o stream'[c]
    BY DEF Text
  <2>1. sent[c] = shown[c] \o stream[c] BY <1>0 DEF Streams, Text
  <2>2. (shown[c] \o stream[c]) \o m = shown[c] \o (stream[c] \o m)
    BY ONLY <1>1, <1>2, NatAssoc, Zenon
  <2> QED BY <1>4, <2>1, <2>2
<1>7. Packet(c)'
  <2> SUFFICES ASSUME prog = "ints"
               PROVE  /\ client'[c] \notin {"start", "write"}
                      /\ Len(sent'[c]) <= Len(Message)
                      /\ stream'[c] = sent'[c] /\ shown'[c] = <<>>
    BY DEF Packet
  <2>1. Packet(c) BY <1>0 DEF Streams
  <2>2. sent[c] = <<>> /\ Len(sent[c]) = 0 BY <2>1, EmptySeq DEF Packet
  <2>3. stream[c] = <<>> /\ shown[c] = <<>> BY <2>1, <2>2, SockConstants DEF Packet
  <2>4. Len(sent'[c]) = n BY <1>1, <1>3, <1>4, <2>2
  <2>5. Writes = 1 BY DEF Writes
  <2>6. client'[c] = "close"
    BY <1>1, <1>5, <2>4, <2>5, SockConstants
  <2> QED BY <1>1, <1>4, <2>2, <2>3, <2>4, <2>6
<1>8. Single(c)'
  <2> SUFFICES ASSUME prog \in Once
               PROVE  /\ server \in {"setup", "wait", "read"} => stream'[c] = sent'[c] /\ shown[c] = <<>>
                      /\ \E k \in 0..Len(sent'[c]) : shown[c] = SubSeq(sent'[c], 1, k)
    BY DEF Single
  <2>1. Single(c) BY <1>0 DEF Streams
  <2>2. server \in {"setup", "wait", "read"} => stream'[c] = sent'[c] /\ shown[c] = <<>>
    BY <1>4, <2>1 DEF Single
  <2>3. PICK k \in 0..Len(sent[c]) : shown[c] = SubSeq(sent[c], 1, k)
    BY <2>1 DEF Single
  <2>4. SubSeq(sent[c] \o m, 1, k) = SubSeq(sent[c], 1, k)
    BY <1>1, <1>2, <2>3, SubSeqOfConcat1
  <2>5. k \in 0..Len(sent'[c]) BY <1>1, <1>2, <1>3, <1>4
  <2> QED BY <1>4, <2>2, <2>3, <2>4, <2>5
<1>9. ASSUME NEW d \in Clients, d # c PROVE Text(d)' /\ Packet(d)' /\ Single(d)'
  BY <1>0, <1>4, <1>5, <1>9, OthersKept
<1>10. Streams'
  BY <1>6, <1>7, <1>8, <1>9 DEF Streams
<1> QED BY <1>4, <1>5, <1>10

\* The one read of a server that reads once.
LEMMA OnceReads ==
  ASSUME SockInv, OnceRead
  PROVE  Streams' /\ shown' \in [Clients -> Seq(Nat)] /\ stream' \in [Clients -> Seq(Nat)]
<1>0. ServerTypes /\ Streams
  BY DEF SockInv
<1>c. PICK c \in Clients : c = conn[1]
  BY DEF OnceRead, Readable
<1>1. /\ shown' = [shown EXCEPT ![c] = SubSeq(stream[c], 1, Take(c))]
      /\ stream' = [stream EXCEPT ![c] = SubSeq(@, Take(c) + 1, Len(@))]
      /\ server = "read" /\ server' = "close" /\ UNCHANGED <<prog, client, sent>>
  BY <1>c DEF OnceRead
<1>2. prog \in Once /\ prog \notin Epoll
  BY <1>0, <1>1 DEF ServerTypes, Once, Epoll
<1>3. /\ stream[c] \in Seq(Nat) /\ Take(c) \in 0..Len(stream[c])
      /\ SubSeq(stream[c], 1, Take(c)) \in Seq(Nat)
      /\ SubSeq(stream[c], Take(c) + 1, Len(stream[c])) \in Seq(Nat)
  BY <1>0, TakeFront
<1>4. /\ shown' \in [Clients -> Seq(Nat)] /\ stream' \in [Clients -> Seq(Nat)]
      /\ shown'[c] = SubSeq(stream[c], 1, Take(c))
      /\ \A d \in Clients \ {c} : shown'[d] = shown[d]
  BY <1>0, <1>1, <1>3 DEF ServerTypes
<1>5. ASSUME NEW d \in Clients PROVE \E n \in 0..Len(sent'[d]) : shown'[d] = SubSeq(sent'[d], 1, n)
  <2>1. Single(d) BY <1>0 DEF Streams
  <2>2. CASE d # c
    BY <1>1, <1>2, <1>4, <2>1, <2>2 DEF Single
  <2>3. CASE d = c
    <3>1. stream[c] = sent[c] BY <1>1, <1>2, <2>1, <2>3 DEF Single
    <3> QED BY <1>1, <1>3, <1>4, <2>3, <3>1
  <2> QED BY <2>2, <2>3
<1>6. Streams'
  <2>1. prog' \notin Epoll /\ prog' # "ints" /\ server' \notin {"setup", "wait", "read"}
    BY <1>1, <1>2 DEF Epoll
  <2> QED BY <1>5, <2>1 DEF Streams, Text, Packet, Single
<1> QED BY <1>4, <1>6

-----------------------------------------------------------------------------
(***************************************************************************)
(* The connections of an epoll server.                                     *)
(***************************************************************************)
LEMMA LinksKept ==
  ASSUME Links, UNCHANGED <<prog, backlog, batch, conn>>,
         \A c \in Clients : client'[c] = "start" => client[c] = "start",
         \A c \in Clients : stream'[c] # <<>> => stream[c] # <<>> \/ Linked(c)
  PROVE  Links'
<1> SUFFICES ASSUME prog \in Epoll PROVE Links'
  BY DEF Links
<1>1. \A c \in Clients : Linked(c)' = Linked(c) /\ Open(c)' = Open(c)
  BY DEF Linked, Open
<1> QED BY <1>1 DEF Links

LEMMA LinksOnce == ASSUME prog \in Once, prog' = prog PROVE Links'
  BY DEF Links, Once, Epoll

\* An event of an open descriptor has been handled, and data was read.
LEMMA LinksRead ==
  ASSUME ServerTypes, Links, prog \in Epoll, batch # <<>>, batch' = Tail(batch),
         UNCHANGED <<prog, backlog, conn, client>>,
         \A c \in Clients : stream'[c] # <<>> => stream[c] # <<>>
  PROVE  Links'
<1>1. /\ Uniq(Tail(batch)) /\ ToSet(Tail(batch)) \subseteq ToSet(batch)
  <2>1. batch \in Seq(Fds \cup {Listen}) /\ Uniq(batch) BY DEF ServerTypes, Links
  <2> QED BY <2>1, UniqTail
<1>2. \A c \in Clients : Linked(c)' = Linked(c) /\ Open(c)' = Open(c)
  BY DEF Linked, Open
<1> QED BY <1>1, <1>2 DEF Links

\* The end of a stream: its descriptor is free, no later event is about it.
LEMMA LinksClose ==
  ASSUME ServerTypes, Links, prog \in Epoll, batch # <<>>, batch' = Tail(batch),
         Head(batch) # Listen, EpollClose(Head(batch))
  PROVE  Links' /\ conn' \in [Fds -> Clients \cup {None}]
<1> USE DEF clientVars
<1> DEFINE f == Head(batch)
<1>1. /\ f \in Fds /\ Uniq(Tail(batch)) /\ ToSet(Tail(batch)) \subseteq ToSet(batch)
      /\ f \notin ToSet(Tail(batch)) /\ f \in ToSet(batch)
  <2>1. batch \in Seq(Fds \cup {Listen}) /\ Uniq(batch) BY DEF ServerTypes, Links
  <2> QED BY <2>1, UniqTail
<1>2. /\ stream[conn[f]] = <<>> /\ conn' = [conn EXCEPT ![f] = None]
      /\ UNCHANGED <<prog, backlog, client, stream>>
  BY DEF EpollClose
<1> HIDE DEF f
<1>3. /\ conn' \in [Fds -> Clients \cup {None}] /\ conn'[f] = None
      /\ \A g \in Fds \ {f} : conn'[g] = conn[g]
  BY <1>1, <1>2 DEF ServerTypes
<1>4. None \notin Clients
  BY ServersAssumption
<1>5. \A c \in Clients : Open(c)' => Open(c)
  BY <1>3, <1>4 DEF Open
<1>6. \A c \in Clients : c # conn[f] /\ Open(c) => Open(c)'
  BY <1>3 DEF Open
<1>7. ASSUME NEW c \in Clients
      PROVE  /\ c \in ToSet(backlog)' => ~ Open(c)'
             /\ client'[c] = "start" => ~ Linked(c)'
             /\ stream'[c] # <<>> => Linked(c)'
  BY <1>2, <1>5, <1>6 DEF Links, Linked
<1>8. \A g \in Fds : g \in ToSet(batch)' => conn'[g] \in Clients
  BY <1>1, <1>3 DEF Links
<1>9. \A g, h \in Fds : conn'[g] = conn'[h] /\ conn'[g] \in Clients => g = h
  BY <1>3, <1>4 DEF Links
<1>10. Listen \in ToSet(batch)' => backlog' # <<>>
  BY <1>1, <1>2 DEF Links
<1> QED BY <1>1, <1>2, <1>3, <1>7, <1>8, <1>9, <1>10 DEF Links

LEMMA LinksAccept ==
  ASSUME ServerTypes, Links, EpollAccept
  PROVE  /\ Links' /\ conn' \in [Fds -> Clients \cup {None}]
         /\ backlog' \in Seq(Clients) /\ batch' \in Seq(Fds \cup {Listen})
<1> USE DEF clientVars
<1> DEFINE f == CHOOSE f \in Fds : conn[f] = None /\ \A g \in 1..(f - 1) : conn[g] # None
           h == Head(backlog)
<1>1. /\ prog \in Epoll /\ batch # <<>> /\ Head(batch) = Listen
      /\ conn' = [conn EXCEPT ![f] = h] /\ backlog' = Tail(backlog) /\ batch' = Tail(batch)
      /\ UNCHANGED <<prog, client, stream>>
  BY DEF EpollAccept
<1>2. /\ batch' \in Seq(Fds \cup {Listen}) /\ Uniq(batch')
      /\ ToSet(batch') \subseteq ToSet(batch) /\ Listen \notin ToSet(batch') /\ Listen \in ToSet(batch)
  <2>1. batch \in Seq(Fds \cup {Listen}) /\ Uniq(batch) BY <1>1 DEF ServerTypes, Links
  <2> QED BY <1>1, <2>1, UniqTail
<1>3. backlog # <<>>
  BY <1>1, <1>2 DEF Links
<1>4. /\ h \in Clients /\ backlog' \in Seq(Clients) /\ Uniq(backlog')
      /\ ToSet(backlog) = ToSet(backlog') \cup {h} /\ h \notin ToSet(backlog')
  <2>1. backlog \in Seq(Clients) /\ Uniq(backlog) BY <1>1 DEF ServerTypes, Links
  <2> QED BY <1>1, <1>3, <2>1, UniqTail
<1>5. f \in Fds /\ conn[f] = None
  BY <1>1, <1>3, FreeFd
<1> HIDE DEF f, h
<1>6. /\ conn' \in [Fds -> Clients \cup {None}] /\ conn'[f] = h
      /\ \A g \in Fds \ {f} : conn'[g] = conn[g]
  BY <1>1, <1>4, <1>5 DEF ServerTypes
<1>7. None \notin Clients
  BY ServersAssumption
<1>8. \A c \in Clients : Open(c)' <=> Open(c) \/ c = h
  <2> TAKE c \in Clients
  <2>1. Open(c)' => Open(c) \/ c = h BY <1>6 DEF Open
  <2>2. Open(c) => Open(c)'
    <3> SUFFICES ASSUME NEW g \in Fds, conn[g] = c PROVE Open(c)' BY DEF Open
    <3>1. g # f BY <1>5, <1>7
    <3> QED BY <1>6, <3>1 DEF Open
  <2>3. c = h => Open(c)' BY <1>5, <1>6 DEF Open
  <2> QED BY <2>1, <2>2, <2>3
<1>9. ~ Open(h)
  BY <1>1, <1>4 DEF Links
<1>10. ASSUME NEW c \in Clients
       PROVE  /\ c \in ToSet(backlog)' => ~ Open(c)'
              /\ client'[c] = "start" => ~ Linked(c)'
              /\ stream'[c] # <<>> => Linked(c)'
  <2>1. Linked(c)' <=> Linked(c) BY <1>4, <1>8 DEF Linked
  <2>2. c \in ToSet(backlog)' => ~ Open(c)' BY <1>1, <1>4, <1>8 DEF Links
  <2> QED BY <1>1, <2>1, <2>2 DEF Links
<1>11. \A g \in Fds : g \in ToSet(batch)' => conn'[g] \in Clients
  BY <1>1, <1>2, <1>4, <1>6 DEF Links
<1>12. ASSUME NEW a \in Fds, NEW b \in Fds, conn'[a] = conn'[b], conn'[a] \in Clients PROVE a = b
  <2>1. \A g \in Fds : conn[g] # h BY <1>9 DEF Open
  <2>2. a = f <=> b = f BY <1>6, <1>12, <2>1
  <2> QED BY <1>1, <1>6, <1>12, <2>2 DEF Links
<1> QED BY <1>1, <1>2, <1>4, <1>6, <1>10, <1>11, <1>12 DEF Links

LEMMA LinksWait ==
  ASSUME ServerTypes, Links, EpollWait
  PROVE  Links' /\ batch' \in Seq(Fds \cup {Listen})
<1> USE DEF clientVars
<1>1. PICK E \in SUBSET Ready : batch' \in SetToSeqs(E)
  BY DEF EpollWait
<1>2. Ready \subseteq Fds \cup {Listen}
  BY DEF Ready
<1>3. IsFiniteSet(E)
  BY <1>2, FdsFacts, FS_Subset
<1>4. batch' \in Seq(Fds \cup {Listen}) /\ Uniq(batch') /\ ToSet(batch') \subseteq E
  BY <1>1, <1>2, <1>3, UniqOrder
<1>5. prog \in Epoll /\ UNCHANGED <<prog, backlog, conn, client, stream>>
  BY DEF EpollWait
<1>6. Listen \in Ready => backlog # <<>>
  BY FdsFacts DEF Ready
<1>7. \A f \in Fds : f \in Ready => conn[f] \in Clients
  BY FdsFacts DEF Ready, Readable
<1>8. \A c \in Clients : Linked(c)' = Linked(c) /\ Open(c)' = Open(c)
  BY <1>5 DEF Linked, Open
<1> QED BY <1>4, <1>5, <1>6, <1>7, <1>8 DEF Links

LEMMA LinksConnect ==
  ASSUME ServerTypes, Links, NEW c \in Clients, Connect(c)
  PROVE  Links' /\ backlog' \in Seq(Clients)
<1> USE DEF clientVars
<1>1. /\ client[c] = "start" /\ backlog' = Append(backlog, c)
      /\ client' = [client EXCEPT ![c] = "write"]
      /\ UNCHANGED <<prog, conn, batch, stream>>
  BY DEF Connect
<1>2. backlog \in Seq(Clients) /\ backlog' \in Seq(Clients)
  BY <1>1 DEF ServerTypes
<1>3. CASE prog \notin Epoll
  BY <1>1, <1>2, <1>3 DEF Links
<1>4. CASE prog \in Epoll
  <2>1. c \notin ToSet(backlog) /\ ~ Open(c) BY <1>1, <1>4 DEF Links, Linked
  <2>2. Uniq(backlog') /\ ToSet(backlog') = ToSet(backlog) \cup {c} /\ backlog' # <<>>
    <3>1. Uniq(backlog') /\ ToSet(backlog') = ToSet(backlog) \cup {c}
      BY <1>1, <1>2, <1>4, <2>1, UniqAppend DEF Links
    <3>2. backlog' # <<>> BY <1>1, <1>2, AppendProperties
    <3> QED BY <3>1, <3>2
  <2>3. \A d \in Clients : client'[d] = "start" => client[d] = "start" /\ d # c
    BY <1>1 DEF ServerTypes
  <2>4. \A d \in Clients : Open(d)' = Open(d) BY <1>1 DEF Open
  <2>5. ASSUME NEW d \in Clients
        PROVE  /\ d \in ToSet(backlog)' => ~ Open(d)'
               /\ client'[d] = "start" => ~ Linked(d)'
               /\ stream'[d] # <<>> => Linked(d)'
    BY <1>1, <1>4, <2>1, <2>2, <2>3, <2>4 DEF Links, Linked
  <2> QED BY <1>1, <1>2, <1>4, <2>2, <2>5 DEF Links
<1> QED BY <1>2, <1>3, <1>4

-----------------------------------------------------------------------------
LEMMA SockInitInv == SockInit => SockInv
<1> SUFFICES ASSUME SockInit PROVE SockInv
  OBVIOUS
<1>1. <<>> \in Seq(Nat) /\ <<>> \in Seq(Clients) /\ <<>> \in Seq(Fds \cup {Listen}) /\ Len(<<>>) = 0
  BY EmptySeq
<1>2. \A c \in Clients : /\ sent[c] = <<>> /\ stream[c] = <<>> /\ shown[c] = <<>>
                         /\ client[c] = "start"
  BY DEF SockInit
<1>3. ServerTypes
  <2>1. /\ sent \in [Clients -> Seq(Nat)] /\ stream \in [Clients -> Seq(Nat)]
        /\ shown \in [Clients -> Seq(Nat)] /\ conn \in [Fds -> Clients \cup {None}]
        /\ client \in [Clients -> {"start", "write", "reply", "close", "closed"}]
    BY <1>1 DEF SockInit
  <2> QED BY <1>1, <2>1 DEF SockInit, ServerTypes
<1>4. Links
  <2>1. ToSet(<<>>) = {}
    <3>1. ToSet(<<>>) = {<<>>[i] : i \in 1..0} BY ONLY <1>1, NatToSet
    <3> QED BY <3>1
  <2>2. \A f \in Fds : conn[f] = None BY DEF SockInit
  <2>3. None \notin Clients BY ServersAssumption
  <2>4. \A c \in Clients : ~ Open(c) BY <2>2, <2>3 DEF Open
  <2>5. \A c \in Clients : ~ Linked(c) BY <2>1, <2>4 DEF Linked, SockInit
  <2>6. Uniq(batch) /\ Uniq(backlog) BY <1>1 DEF Uniq, SockInit
  <2>7. ToSet(batch) = {} /\ ToSet(backlog) = {} BY <2>1 DEF SockInit
  <2> QED BY <1>2, <2>2, <2>3, <2>4, <2>5, <2>6, <2>7 DEF Links
<1>5. ASSUME NEW c \in Clients PROVE Text(c) /\ Packet(c) /\ Single(c)
  <2>1. <<>> \o <<>> = <<>> BY ONLY <1>1, NatEmpty
  <2>2. 0 \in 0..Len(<<>>) /\ SubSeq(<<>>, 1, 0) = <<>> BY <1>1, SubSeqEmpty
  <2>3. Text(c) BY <1>2, <2>1 DEF Text
  <2>4. Packet(c) BY <1>1, <1>2, SockConstants DEF Packet
  <2>5. Single(c) BY <1>2, <2>2 DEF Single
  <2> QED BY <2>3, <2>4, <2>5
<1> QED BY <1>3, <1>4, <1>5 DEF SockInv, Streams

LEMMA SetupInv == SockInv /\ ServerSetup => SockInv'
<1> SUFFICES ASSUME SockInv, ServerSetup PROVE SockInv'
  OBVIOUS
<1>0. ServerTypes /\ Links /\ Streams
  BY DEF SockInv
<1>1. /\ server = "setup" /\ server' \in {"wait", "exited", "deaf"}
      /\ UNCHANGED <<prog, backlog, conn, batch, client, sent, stream, shown, reply>>
  BY DEF ServerSetup, SetupEpoll, SetupAbstractEpoll, SetupInts, SetupAbstract, SetupVeth,
         BecomesOneOf, clientVars
<1>2. ServerTypes'
  BY <1>0, <1>1 DEF ServerTypes
<1>3. Links'
  BY <1>0, <1>1, LinksKept
<1>4. Streams'
  BY <1>0, <1>1, StreamsKept
<1> QED BY <1>2, <1>3, <1>4 DEF SockInv

LEMMA EpollInv == SockInv /\ (EpollWait \/ EpollAccept \/ EpollRead) => SockInv'
<1> SUFFICES ASSUME SockInv, EpollWait \/ EpollAccept \/ EpollRead PROVE SockInv'
  OBVIOUS
<1> USE DEF clientVars
<1>0. ServerTypes /\ Links /\ Streams
  BY DEF SockInv
<1>1. CASE EpollWait
  <2>1. Links' /\ batch' \in Seq(Fds \cup {Listen}) BY <1>0, <1>1, LinksWait
  <2>2. prog \in Epoll /\ UNCHANGED <<prog, server, backlog, conn, client, sent, stream, shown>>
    BY <1>1 DEF EpollWait
  <2>3. prog \notin Once BY <2>2 DEF Epoll, Once
  <2>4. ServerTypes' BY <1>0, <2>1, <2>2, <2>3 DEF ServerTypes
  <2>5. Streams' BY <1>0, <2>2, StreamsKept
  <2> QED BY <2>1, <2>4, <2>5 DEF SockInv
<1>2. CASE EpollAccept
  <2>1. /\ Links' /\ conn' \in [Fds -> Clients \cup {None}]
        /\ backlog' \in Seq(Clients) /\ batch' \in Seq(Fds \cup {Listen})
    BY <1>0, <1>2, LinksAccept
  <2>2. prog \in Epoll /\ UNCHANGED <<prog, server, client, sent, stream, shown>>
    BY <1>2 DEF EpollAccept
  <2>3. prog \notin Once BY <2>2 DEF Epoll, Once
  <2>4. ServerTypes' BY <1>0, <2>1, <2>2, <2>3 DEF ServerTypes
  <2>5. Streams' BY <1>0, <2>2, StreamsKept
  <2> QED BY <2>1, <2>4, <2>5 DEF SockInv
<1>3. CASE EpollRead
  <2>1. /\ prog \in Epoll /\ batch # <<>> /\ Head(batch) # Listen /\ batch' = Tail(batch)
        /\ EpollClose(Head(batch)) \/ EpollText(Head(batch)) \/ EpollPacket(Head(batch))
    BY <1>3 DEF EpollRead
  <2>2. /\ Head(batch) \in Fds /\ conn[Head(batch)] \in Clients
        /\ Tail(batch) \in Seq(Fds \cup {Listen})
    <3>1. batch \in Seq(Fds \cup {Listen}) /\ Uniq(batch) BY <1>0, <2>1 DEF ServerTypes, Links
    <3>2. /\ Head(batch) \in Fds \cup {Listen} /\ Head(batch) \in ToSet(batch)
          /\ Tail(batch) \in Seq(Fds \cup {Listen})
      BY <2>1, <3>1, UniqTail
    <3> QED BY <1>0, <2>1, <3>2 DEF Links
  <2>3. prog \notin Once BY <2>1 DEF Epoll, Once
  <2>4. CASE EpollClose(Head(batch))
    <3>1. Links' /\ conn' \in [Fds -> Clients \cup {None}]
      BY <1>0, <2>1, <2>4, LinksClose
    <3>2. UNCHANGED <<prog, server, backlog, client, sent, stream, shown>>
      BY <2>4 DEF EpollClose
    <3>3. ServerTypes' BY <1>0, <2>1, <2>2, <2>3, <3>1, <3>2 DEF ServerTypes
    <3>4. Streams' BY <1>0, <2>1, <3>2, StreamsKept
    <3> QED BY <3>1, <3>3, <3>4 DEF SockInv
  <2>5. CASE EpollText(Head(batch)) \/ EpollPacket(Head(batch))
    <3>1. Streams' /\ shown' \in [Clients -> Seq(Nat)] /\ stream' \in [Clients -> Seq(Nat)]
      BY <2>1, <2>2, <2>5, TextRead, PacketRead
    <3>2. /\ UNCHANGED <<prog, server, backlog, conn, client, sent>>
          /\ stream[conn[Head(batch)]] # <<>>
          /\ \A c \in Clients : c # conn[Head(batch)] => stream'[c] = stream[c]
      BY <1>0, <2>2, <2>5 DEF EpollText, EpollPacket, ServerTypes
    <3>3. Links' BY <1>0, <2>1, <3>2, LinksRead
    <3>4. ServerTypes' BY <1>0, <2>1, <2>2, <2>3, <3>1, <3>2 DEF ServerTypes
    <3> QED BY <3>1, <3>3, <3>4 DEF SockInv
  <2> QED BY <2>1, <2>4, <2>5
<1> QED BY <1>1, <1>2, <1>3

LEMMA OnceInv == SockInv /\ (OnceAccept \/ OnceRead \/ OnceClose) => SockInv'
<1> SUFFICES ASSUME SockInv, OnceAccept \/ OnceRead \/ OnceClose PROVE SockInv'
  OBVIOUS
<1> USE DEF clientVars
<1>0. ServerTypes /\ Links /\ Streams
  BY DEF SockInv
<1>1. CASE OnceAccept
  <2>1. /\ prog \in Once /\ server = "wait" /\ server' = "read" /\ backlog # <<>>
        /\ conn' = [conn EXCEPT ![1] = Head(backlog)] /\ backlog' = Tail(backlog)
        /\ UNCHANGED <<prog, batch, client, sent, stream, shown>>
    BY <1>1 DEF OnceAccept
  <2>2. Head(backlog) \in Clients /\ Tail(backlog) \in Seq(Clients)
    <3>1. backlog \in Seq(Clients) BY <1>0 DEF ServerTypes
    <3> QED BY <2>1, <3>1
  <2>3. ServerTypes' BY <1>0, <2>1, <2>2 DEF ServerTypes
  <2>4. Streams' BY <1>0, <2>1, StreamsKept DEF Once
  <2> QED BY <2>1, <2>3, <2>4, LinksOnce DEF SockInv
<1>2. CASE OnceRead
  <2>1. /\ server = "read" /\ server' = "close"
        /\ UNCHANGED <<prog, backlog, conn, batch, client, sent>>
    BY <1>2 DEF OnceRead
  <2>2. prog \in Once BY <1>0, <2>1 DEF ServerTypes
  <2>3. Streams' /\ shown' \in [Clients -> Seq(Nat)] /\ stream' \in [Clients -> Seq(Nat)]
    BY <1>2, OnceReads
  <2>4. ServerTypes' BY <1>0, <2>1, <2>2, <2>3 DEF ServerTypes
  <2> QED BY <2>1, <2>2, <2>3, <2>4, LinksOnce DEF SockInv
<1>3. CASE OnceClose
  <2>1. /\ server = "close" /\ server' = "exited"
        /\ conn' = [f \in Fds |-> None] /\ backlog' = <<>>
        /\ UNCHANGED <<prog, batch, client, sent, stream, shown>>
    BY <1>3 DEF OnceClose
  <2>2. prog \in Once /\ <<>> \in Seq(Clients) BY <1>0, <2>1, EmptySeq DEF ServerTypes
  <2>3. ServerTypes' BY <1>0, <2>1, <2>2 DEF ServerTypes
  <2>4. Streams' BY <1>0, <2>1, StreamsKept
  <2> QED BY <2>1, <2>2, <2>3, <2>4, LinksOnce DEF SockInv
<1> QED BY <1>1, <1>2, <1>3

LEMMA ClientInv == ASSUME SockInv, NEW c \in Clients, Client(c) PROVE SockInv'
<1> USE DEF serverVars
<1>0. ServerTypes /\ Links /\ Streams
  BY DEF SockInv
<1>1. ASSUME UNCHANGED <<prog, server, backlog, conn, batch, sent, stream, shown>>,
             NEW s \in {"reply", "close", "closed"}, client' = [client EXCEPT ![c] = s]
      PROVE  SockInv'
  <2>1. /\ client' \in [Clients -> {"start", "write", "reply", "close", "closed"}]
        /\ client'[c] = s /\ \A d \in Clients \ {c} : client'[d] = client[d]
    BY <1>0, <1>1 DEF ServerTypes
  <2>2. ServerTypes' BY <1>0, <1>1, <2>1 DEF ServerTypes
  <2>3. \A d \in Clients : client'[d] \in {"start", "write"} => client'[d] = client[d]
    BY <2>1
  <2>4. Links' BY <1>0, <1>1, <2>3, LinksKept
  <2>5. Streams' BY <1>0, <1>1, <2>3, StreamsKept
  <2> QED BY <2>2, <2>4, <2>5 DEF SockInv
<1>2. CASE Connect(c)
  <2>1. Links' /\ backlog' \in Seq(Clients) BY <1>0, <1>2, LinksConnect
  <2>2. /\ client[c] = "start" /\ client' = [client EXCEPT ![c] = "write"]
        /\ UNCHANGED <<prog, server, conn, batch, sent, stream, shown>>
    BY <1>2 DEF Connect
  <2>3. /\ client' \in [Clients -> {"start", "write", "reply", "close", "closed"}]
        /\ \A d \in Clients : client'[d] \in {"start", "write"} => client[d] \in {"start", "write"}
    BY <1>0, <2>2 DEF ServerTypes
  <2>4. ServerTypes' BY <1>0, <2>1, <2>2, <2>3 DEF ServerTypes
  <2>5. Streams' BY <1>0, <2>2, <2>3, StreamsKept
  <2> QED BY <2>1, <2>4, <2>5 DEF SockInv
<1>3. CASE ConnectFails(c) BY <1>1, <1>3 DEF ConnectFails
<1>4. CASE AwaitReply(c) BY <1>1, <1>4 DEF AwaitReply
<1>5. CASE CloseClient(c) BY <1>1, <1>5 DEF CloseClient
<1>7. CASE WriteNothing(c) BY <1>1, <1>7 DEF WriteNothing
<1>6. CASE Write(c)
  <2>1. CASE ~ Linked(c) BY <1>1, <1>6, <2>1 DEF Write
  <2>2. CASE Linked(c)
    <3>1. PICK n \in (IF prog = "ints" THEN 1..Len(Message) ELSE {Len(Message)}) :
              /\ sent' = [sent EXCEPT ![c] = @ \o SubSeq(Message, 1, n)]
              /\ stream' = [stream EXCEPT ![c] = @ \o SubSeq(Message, 1, n)]
              /\ client' = [client EXCEPT ![c] =
                   IF Len(sent'[c]) < Writes * Len(Message) /\ n = Len(Message) THEN "write"
                   ELSE IF prog = "veth" THEN "reply" ELSE "close"]
      BY <1>6, <2>2 DEF Write
    <3>2. n \in 0..Len(Message) BY <3>1, SockConstants
    <3>3. client[c] = "write" /\ UNCHANGED <<prog, server, backlog, conn, batch, shown>>
      BY <1>6 DEF Write
    <3>4. /\ Streams' /\ sent' \in [Clients -> Seq(Nat)] /\ stream' \in [Clients -> Seq(Nat)]
          /\ client' \in [Clients -> {"start", "write", "reply", "close", "closed"}]
          /\ \A d \in Clients : client'[d] = "start" => client[d] = "start"
          /\ \A d \in Clients : stream'[d] = stream[d] \/ d = c
      BY <3>1, <3>2, <3>3, WriteSends
    <3>5. Links' BY <1>0, <2>2, <3>3, <3>4, LinksKept
    <3>6. ServerTypes' BY <1>0, <3>3, <3>4 DEF ServerTypes
    <3> QED BY <3>4, <3>5, <3>6 DEF SockInv
  <2> QED BY <2>1, <2>2
<1> QED BY <1>2, <1>3, <1>4, <1>5, <1>6, <1>7 DEF Client

LEMMA SockAlways == SockSpec => []SockInv
<1>1. SockInv /\ UNCHANGED sockVars => SockInv'
  <2> SUFFICES ASSUME SockInv, UNCHANGED sockVars PROVE SockInv' OBVIOUS
  <2>0. /\ ServerTypes /\ Links /\ Streams
        /\ UNCHANGED <<prog, server, backlog, conn, batch, client, sent, stream, shown>>
    BY DEF SockInv, sockVars, serverVars, clientVars
  <2>1. ServerTypes' BY <2>0 DEF ServerTypes
  <2>2. Links' BY <2>0, LinksKept
  <2>3. Streams' BY <2>0, StreamsKept
  <2> QED BY <2>1, <2>2, <2>3 DEF SockInv
<1>2. SockInv /\ [SockNext]_sockVars => SockInv'
  BY <1>1, SetupInv, EpollInv, OnceInv, ClientInv DEF SockNext, Server
<1> QED BY <1>2, SockInitInv, PTL DEF SockSpec

LEMMA PrefixOfConcat ==
  ASSUME NEW s \in Seq(Nat), NEW t \in Seq(Nat) PROVE IsPrefix(s, s \o t)
<1>1. s \o t \in Seq(Nat) /\ Len(s \o t) = Len(s) + Len(t)
  BY ONLY NatConcat, s \in Seq(Nat), t \in Seq(Nat), Zenon
<1>2. Len(s) \in Nat /\ Len(t) \in Nat
  OBVIOUS
<1>3. SubSeq(s \o t, 1, Len(s)) = SubSeq(s, 1, Len(s))
  BY <1>2, SubSeqOfConcat1
<1> QED BY <1>1, <1>2, <1>3 DEF IsPrefix

\* Nothing, and one whole packet, are whole numbers of packets.
LEMMA WholePackets == \A k \in Nat : k >= 1 => 0 % k = 0 /\ k % k = 0
<1> SUFFICES ASSUME NEW k \in Nat, k >= 1 PROVE 0 % k = 0 /\ k % k = 0
  OBVIOUS
<1>1. 0 % k = 0 OBVIOUS
<1>2. k % k = 0 OBVIOUS
<1> QED BY <1>1, <1>2

LEMMA SockInvImplies == SockInv => StreamsIntact
<1> SUFFICES ASSUME SockInv, NEW c \in Clients
             PROVE  /\ IsPrefix(shown[c], sent[c])
                    /\ prog = "ints" => Len(shown[c]) % Len(Message) = 0
                    /\ prog \in Epoll /\ client[c] = "closed" /\ ~ Linked(c) =>
                         Len(sent[c]) - Len(shown[c]) <
                           IF prog = "ints" /\ shown[c] = <<>> THEN Len(Message) ELSE 1
  BY DEF StreamsIntact
<1>0. /\ ServerTypes /\ Links /\ Text(c) /\ Packet(c) /\ Single(c)
      /\ sent[c] \in Seq(Nat) /\ shown[c] \in Seq(Nat) /\ stream[c] \in Seq(Nat)
      /\ Len(sent[c]) \in Nat /\ Len(shown[c]) \in Nat
  BY DEF SockInv, Streams, ServerTypes
<1>1. prog \in Epoll /\ ~ Linked(c) => stream[c] = <<>>
  BY <1>0 DEF Links
<1>2. <<>> \in Seq(Nat) /\ Len(<<>>) = 0
  BY NatEmpty
<1>3. CASE prog \in Epoll \ {"ints"}
  <2>1. sent[c] = shown[c] \o stream[c] BY <1>0, <1>3 DEF Text
  <2>2. IsPrefix(shown[c], sent[c]) BY <1>0, <2>1, PrefixOfConcat
  <2>3. stream[c] = <<>> => sent[c] = shown[c] BY <1>0, <2>1, NatEmpty
  <2>4. prog # "ints" BY <1>3
  <2>5. ASSUME stream[c] = <<>> PROVE Len(sent[c]) - Len(shown[c]) < 1
    <3>1. Len(sent[c]) = Len(shown[c]) BY <2>3, <2>5
    <3>2. Len(shown[c]) \in Nat BY <1>0
    <3>3. \A k \in Nat : k - k < 1 OBVIOUS
    <3> QED BY ONLY <3>1, <3>2, <3>3
  <2> QED BY <1>1, <2>2, <2>4, <2>5
<1>4. CASE prog = "ints"
  <2>1. IsPrefix(shown[c], sent[c])
    <3>1. <<>> \o sent[c] = sent[c] /\ sent[c] \o <<>> = sent[c] BY <1>0, NatEmpty
    <3>2. IsPrefix(<<>>, sent[c]) /\ IsPrefix(sent[c], sent[c])
      BY <1>0, <1>2, <3>1, PrefixOfConcat
    <3> QED BY <1>0, <1>4, <3>2 DEF Packet
  <2>2. Len(shown[c]) = 0 \/ Len(shown[c]) = Len(Message)
    BY <1>0, <1>2, <1>4 DEF Packet
  <2>3. Len(shown[c]) % Len(Message) = 0
    BY <2>2, SockConstants, WholePackets
  <2>4. ASSUME ~ Linked(c)
        PROVE  Len(sent[c]) - Len(shown[c]) < IF shown[c] = <<>> THEN Len(Message) ELSE 1
    <3>1. stream[c] = <<>> BY <1>1, <1>4, <2>4 DEF Epoll
    <3>2. CASE shown[c] = <<>>
      BY <1>0, <1>2, <1>4, <3>1, <3>2, SockConstants DEF Packet
    <3>3. CASE shown[c] # <<>>
      <4>1. shown[c] = sent[c] BY <1>0, <1>4, <3>3 DEF Packet
      <4> QED BY <1>0, <3>3, <4>1
    <3> QED BY <3>2, <3>3
  <2> QED BY <1>4, <2>1, <2>3, <2>4
<1>5. CASE prog \in Once
  <2>0. prog \notin Epoll /\ prog # "ints" BY <1>5 DEF Epoll, Once
  <2>1. PICK n \in 0..Len(sent[c]) : shown[c] = SubSeq(sent[c], 1, n)
    BY <1>0, <1>5 DEF Single
  <2>2. /\ SubSeq(sent[c], 1, n) \in Seq(Nat) /\ SubSeq(sent[c], n + 1, Len(sent[c])) \in Seq(Nat)
        /\ SubSeq(sent[c], 1, n) \o SubSeq(sent[c], n + 1, Len(sent[c])) = sent[c]
    BY <1>0, Cut
  <2>3. IsPrefix(SubSeq(sent[c], 1, n), SubSeq(sent[c], 1, n) \o SubSeq(sent[c], n + 1, Len(sent[c])))
    BY ONLY <2>2, PrefixOfConcat, Zenon
  <2> QED BY <2>0, <2>1, <2>2, <2>3
<1> QED BY <1>0, <1>3, <1>4, <1>5 DEF ServerTypes

\* What each server prints for a connection is the front of what its client
\* wrote, for any number of clients, any buffer and any batch of events; an
\* epoll server that has given up a descriptor has shown all that was sent.
THEOREM StreamsAlwaysIntact == SockSpec => []StreamsIntact
  BY SockAlways, SockInvImplies, PTL

=============================================================================
