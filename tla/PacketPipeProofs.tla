-------------------------- MODULE PacketPipeProofs --------------------------
(***************************************************************************)
(* The pipe keeps its packets in order, for every burst size.              *)
(***************************************************************************)
EXTENDS PacketPipe, TLAPS

\* Every element of one sequence is below every element of another.
Below(s, t) == \A i \in 1..Len(s), j \in 1..Len(t) : s[i] < t[j]

\* Two increasing sequences, one below the other, make an increasing one.
LEMMA IncreasingConcat ==
  ASSUME NEW s \in Seq(Int), NEW t \in Seq(Int),
         Increasing(s), Increasing(t), Below(s, t)
  PROVE  Increasing(s \o t)
<1> SUFFICES ASSUME NEW i \in 1..Len(s \o t), NEW j \in 1..Len(s \o t), i < j
             PROVE  (s \o t)[i] < (s \o t)[j]
  BY DEF Increasing
<1>1. Len(s) \in Nat /\ Len(t) \in Nat /\ Len(s \o t) = Len(s) + Len(t)
  OBVIOUS
<1>2. CASE j <= Len(s)
  <2>1. i \in 1..Len(s) /\ j \in 1..Len(s) /\ (s \o t)[i] = s[i] /\ (s \o t)[j] = s[j]
    BY <1>1, <1>2
  <2> QED
    BY <2>1 DEF Increasing
<1>3. CASE i <= Len(s) /\ j > Len(s)
  <2>1. /\ i \in 1..Len(s) /\ j - Len(s) \in 1..Len(t)
        /\ (s \o t)[i] = s[i] /\ (s \o t)[j] = t[j - Len(s)]
    BY <1>1, <1>3
  <2> QED
    BY <2>1 DEF Below
<1>4. CASE i > Len(s)
  <2>1. /\ i - Len(s) \in 1..Len(t) /\ j - Len(s) \in 1..Len(t) /\ i - Len(s) < j - Len(s)
        /\ (s \o t)[i] = t[i - Len(s)] /\ (s \o t)[j] = t[j - Len(s)]
    BY <1>1, <1>4
  <2> QED
    BY <2>1 DEF Increasing
<1> QED
  BY <1>1, <1>2, <1>3, <1>4

\* Being below something is kept by concatenation, on either side.
LEMMA BelowConcat ==
  ASSUME NEW s \in Seq(Int), NEW t \in Seq(Int), NEW u \in Seq(Int)
  PROVE  /\ Below(s, u) /\ Below(t, u) => Below(s \o t, u)
         /\ Below(u, s) /\ Below(u, t) => Below(u, s \o t)
<1>1. Len(s) \in Nat /\ Len(t) \in Nat /\ Len(s \o t) = Len(s) + Len(t)
  OBVIOUS
<1>2. ASSUME NEW i \in 1..Len(s \o t)
      PROVE  \/ i \in 1..Len(s) /\ (s \o t)[i] = s[i]
             \/ i - Len(s) \in 1..Len(t) /\ (s \o t)[i] = t[i - Len(s)]
  BY <1>1
<1> QED
  BY <1>2 DEF Below

\* The halves of an increasing sequence are increasing, the first below the
\* second.
LEMMA IncreasingSplit ==
  ASSUME NEW s \in Seq(Int), NEW n \in 1..Len(s), Increasing(s)
  PROVE  LET a == SubSeq(s, 1, n)
             b == SubSeq(s, n + 1, Len(s))
         IN  /\ a \in Seq(Int) /\ b \in Seq(Int)
             /\ Increasing(a) /\ Increasing(b) /\ Below(a, b)
             /\ \A i \in 1..Len(a) : a[i] = s[i]
             /\ \A i \in 1..Len(b) : b[i] = s[n + i]
             /\ Len(a) = n /\ Len(b) = Len(s) - n
<1> DEFINE a == SubSeq(s, 1, n)
           b == SubSeq(s, n + 1, Len(s))
<1>1. a \in Seq(Int) /\ Len(a) = n /\ \A i \in 1..Len(a) : a[i] = s[i]
  OBVIOUS
<1>2. b \in Seq(Int) /\ Len(b) = Len(s) - n /\ \A i \in 1..Len(b) : b[i] = s[n + i]
  OBVIOUS
<1>3. Increasing(a)
  BY <1>1 DEF Increasing
<1>4. Increasing(b)
  <2> SUFFICES ASSUME NEW i \in 1..Len(b), NEW j \in 1..Len(b), i < j PROVE b[i] < b[j]
    BY DEF Increasing
  <2>1. n + i \in 1..Len(s) /\ n + j \in 1..Len(s) /\ n + i < n + j
    BY <1>2
  <2>2. s[n + i] < s[n + j]
    BY <2>1 DEF Increasing
  <2> QED
    BY <1>2, <2>2
<1>5. Below(a, b)
  <2> SUFFICES ASSUME NEW i \in 1..Len(a), NEW j \in 1..Len(b) PROVE a[i] < b[j]
    BY DEF Below
  <2>1. i \in 1..Len(s) /\ n + j \in 1..Len(s) /\ i < n + j
    BY <1>1, <1>2
  <2>2. s[i] < s[n + j]
    BY <2>1 DEF Increasing
  <2> QED
    BY <1>1, <1>2, <2>2
<1> QED
  BY <1>1, <1>2, <1>3, <1>4, <1>5

LEMMA PipeInitInv == PipeInit => PipeInv
  BY DEF PipeInit, PipeInv, PipeTypeOK, InOrder, Increasing

LEMMA PipeStepInv == PipeInv /\ [PipeNext]_pipeVars => PipeInv'
<1> SUFFICES ASSUME PipeInv, [PipeNext]_pipeVars PROVE PipeInv'
  OBVIOUS
<1>0. /\ accepted \in Nat /\ queue \in Seq(1..accepted) /\ delivered \in Seq(1..accepted)
      /\ Increasing(delivered) /\ Increasing(queue) /\ Below(delivered, queue)
      /\ queue \in Seq(Int) /\ delivered \in Seq(Int)
  BY DEF PipeInv, PipeTypeOK, InOrder, Below
<1>1. CASE Accept
  <2> PICK n \in 1..BurstSize :
        /\ accepted' = accepted + n
        /\ queue' = queue \o [i \in 1..n |-> accepted + i]
        /\ UNCHANGED delivered
    BY <1>1 DEF Accept
  <2> DEFINE new == [i \in 1..n |-> accepted + i]
  <2>1. new \in Seq(1..accepted') /\ new \in Seq(Int) /\ Len(new) = n
    BY <1>0
  <2>2. queue \in Seq(1..accepted') /\ delivered' \in Seq(1..accepted')
    BY <1>0
  <2>3. queue' \in Seq(1..accepted') /\ accepted' \in Nat
    BY <1>0, <2>1, <2>2
  <2>4. Increasing(new)
    BY <1>0, <2>1 DEF Increasing
  <2>7. queue' = queue \o new /\ \A i \in 1..n : new[i] = accepted + i
    BY <1>0
  <2> HIDE DEF new
  <2>10. /\ \A i \in 1..Len(queue) : queue[i] \in 1..accepted
         /\ \A i \in 1..Len(delivered) : delivered[i] \in 1..accepted
    BY <1>0
  <2>5. Below(queue, new) /\ Below(delivered, new)
    <3>1. \A j \in 1..Len(new) : new[j] = accepted + j /\ j \in Nat /\ j > 0
      BY <2>1, <2>7
    <3>2. \A v \in 1..accepted, j \in Nat : j > 0 => v < accepted + j
      BY <1>0
    <3> QED
      BY <2>10, <3>1, <3>2 DEF Below
  <2>6. Increasing(queue') /\ Below(delivered, queue')
    BY <1>0, <2>1, <2>4, <2>5, <2>7, IncreasingConcat, BelowConcat
  <2>8. Increasing(delivered') /\ Below(delivered', queue')
    BY <1>0, <2>6
  <2> QED
    BY <2>2, <2>3, <2>6, <2>8 DEF PipeInv, PipeTypeOK, InOrder, Below
<1>2. CASE Deliver
  <2> PICK n \in 1..Len(queue) :
        /\ delivered' = delivered \o SubSeq(queue, 1, n)
        /\ queue' = SubSeq(queue, n + 1, Len(queue))
        /\ UNCHANGED accepted
    BY <1>2 DEF Deliver
  <2> DEFINE a == SubSeq(queue, 1, n)
  <2>1. /\ a \in Seq(Int) /\ queue' \in Seq(Int)
        /\ Increasing(a) /\ Increasing(queue') /\ Below(a, queue')
        /\ \A i \in 1..Len(a) : a[i] = queue[i]
        /\ \A i \in 1..Len(queue') : queue'[i] = queue[n + i]
        /\ Len(a) = n /\ Len(queue') = Len(queue) - n
    BY <1>0, IncreasingSplit
  <2>2. a \in Seq(1..accepted) /\ queue' \in Seq(1..accepted)
    BY <1>0, SMTT(30)
  <2>3. delivered' \in Seq(1..accepted) /\ delivered' = delivered \o a
    BY <1>0, <2>2
  <2> HIDE DEF a
  <2>4. Below(delivered, a) /\ Below(delivered, queue')
    <3>1. \A j \in 1..Len(a) : j \in 1..Len(queue) /\ a[j] = queue[j]
      BY <2>1
    <3>2. \A j \in 1..Len(queue') : n + j \in 1..Len(queue) /\ queue'[j] = queue[n + j]
      BY <1>0, <2>1
    <3> QED
      BY <1>0, <3>1, <3>2 DEF Below
  <2>5. Increasing(delivered') /\ Below(delivered', queue')
    BY <1>0, <2>1, <2>3, <2>4, IncreasingConcat, BelowConcat, ZenonT(30)
  <2> QED
    BY <1>0, <2>1, <2>2, <2>3, <2>5 DEF PipeInv, PipeTypeOK, InOrder, Below
<1>3. CASE Lose
  <2> PICK n \in 1..Len(queue) :
        /\ queue' = SubSeq(queue, n + 1, Len(queue))
        /\ UNCHANGED <<accepted, delivered>>
    BY <1>3 DEF Lose
  <2>1. /\ queue' \in Seq(1..accepted) /\ Len(queue') = Len(queue) - n
        /\ Increasing(queue')
        /\ \A i \in 1..Len(queue') : queue'[i] = queue[n + i]
    <3>1. queue' \in Seq(1..accepted) BY <1>0
    <3>2. /\ Len(queue') = Len(queue) - n /\ Increasing(queue')
          /\ \A i \in 1..Len(queue') : queue'[i] = queue[n + i]
      BY <1>0, IncreasingSplit
    <3> QED BY <3>1, <3>2
  <2> QED
    BY <1>0, <2>1, SMTT(30) DEF PipeInv, PipeTypeOK, InOrder, Below
<1>4. CASE UNCHANGED pipeVars
  BY <1>4 DEF pipeVars, PipeInv, PipeTypeOK, InOrder, Increasing
<1> QED
  BY <1>1, <1>2, <1>3, <1>4 DEF PipeNext

\* What comes out of the pipe is in the order in which it went in, without
\* repetition: the promise the loopback path of the controller is held to.
THEOREM PipeKeepsOrder == PipeSpec => []InOrder
<1>1. PipeInv => InOrder
  BY DEF PipeInv
<1> QED
  BY PipeInitInv, PipeStepInv, <1>1, PTL DEF PipeSpec
=============================================================================
