------------------------- MODULE LcoreLoopbackProofs -------------------------
(***************************************************************************)
(* The two-lcore loopback.  What the lcores and the ring hold is one       *)
(* sequence, Held, and every step leaves it as it is, adds a fresh packet  *)
(* at its end, drops its end or takes away its front.  The invariant says  *)
(* of the whole of Held what the properties say of the ring: each mbuf     *)
(* once, numbers ascending and above everything delivered.                 *)
(***************************************************************************)
EXTENDS LcoreLoopback, SequenceTheorems, TLAPS

Distinct(s) == \A i, j \in 1..Len(s) : s[i] = s[j] => i = j
Conserved(h, free) ==
    /\ Distinct(h)
    /\ free \cap Elems(h) = {}
    /\ free \cup Elems(h) = Mbufs

\* The packets of h, with payloads d, are numbered upwards within 1..t.
Ascending(h, d, t) ==
    /\ \A i \in 1..Len(h) : d[h[i]] \in 1..t
    /\ \A i, j \in 1..Len(h) : i < j => d[h[i]] < d[h[j]]

\* What was delivered is in order, and before everything in h.
Before(out, h, d, t) ==
    /\ \A i \in 1..Len(out) : out[i] \in 1..t
    /\ \A i, j \in 1..Len(out) : i < j => out[i] < out[j]
    /\ \A i \in 1..Len(out), j \in 1..Len(h) : out[i] < d[h[j]]

\* The lcores run once main() has launched them, and hold packets only where
\* they are about to get rid of them.
Hands ==
    /\ pbuf \in Seq(Mbufs) /\ cbuf \in Seq(Mbufs)
    /\ ppc = "push" => Len(pbuf) = 1
    /\ ppc # "push" => pbuf = <<>>
    /\ cpc # "deliver" => cbuf = <<>>
    /\ proc # "running" => ppc = "none" /\ cpc = "none"

LcoreInv ==
    /\ TypeOK /\ Hands
    /\ Conserved(Held, pool)
    /\ Ascending(Held, data, taken)
    /\ Before(delivered, Held, data, taken)
    /\ taken = Len(delivered) + dropped + Len(Held)

-----------------------------------------------------------------------------
(***************************************************************************)
(* Sequences of mbufs.                                                     *)
(***************************************************************************)

\* What a concatenation is, element by element.
LEMMA ConcatAt ==
  \A s, t \in Seq(Mbufs) :
    /\ s \o t \in Seq(Mbufs) /\ Len(s \o t) = Len(s) + Len(t)
    /\ \A i \in 1..Len(s) : (s \o t)[i] = s[i]
    /\ \A i \in 1..Len(t) : (s \o t)[Len(s) + i] = t[i]
    /\ \A i \in 1..(Len(s) + Len(t)) :
         (s \o t)[i] = IF i <= Len(s) THEN s[i] ELSE t[i - Len(s)]
<1> TAKE s, t \in Seq(Mbufs)
<1> QED BY ConcatProperties

LEMMA Assoc ==
  \A s, t, u \in Seq(Mbufs) : (s \o t) \o u = s \o (t \o u)
  BY ConcatAssociative

LEMMA Empty ==
  /\ <<>> \in Seq(Mbufs) /\ Len(<<>>) = 0
  /\ \A s \in Seq(Mbufs) : s \o <<>> = s /\ <<>> \o s = s
  BY ConcatEmptySeq

LEMMA ElemsConcat ==
  \A s, t \in Seq(Mbufs) : Elems(s \o t) = Elems(s) \cup Elems(t)
<1> TAKE s, t \in Seq(Mbufs)
<1>0. Len(s) \in Nat /\ Len(t) \in Nat OBVIOUS
<1>1. ASSUME NEW i \in 1..Len(s \o t) PROVE (s \o t)[i] \in Elems(s) \cup Elems(t)
  <2>1. CASE i <= Len(s)
    BY <1>0, <2>1, ConcatAt DEF Elems
  <2>2. CASE i > Len(s)
    <3>1. i - Len(s) \in 1..Len(t) /\ (s \o t)[i] = t[i - Len(s)]
      BY <1>0, <2>2, ConcatAt
    <3> QED BY <3>1 DEF Elems
  <2> QED BY <1>0, <2>1, <2>2
<1>2. ASSUME NEW i \in 1..Len(s) PROVE s[i] \in Elems(s \o t)
  <2>1. i \in 1..Len(s \o t) /\ (s \o t)[i] = s[i]
    BY <1>0, ConcatAt
  <2> QED BY <2>1 DEF Elems
<1>3. ASSUME NEW i \in 1..Len(t) PROVE t[i] \in Elems(s \o t)
  <2>1. Len(s) + i \in 1..Len(s \o t) /\ (s \o t)[Len(s) + i] = t[i]
    BY <1>0, ConcatAt
  <2> QED BY <2>1 DEF Elems
<1> QED BY <1>1, <1>2, <1>3 DEF Elems

LEMMA DistinctConcat ==
  \A s, t \in Seq(Mbufs) :
    Distinct(s \o t) <=> Distinct(s) /\ Distinct(t) /\ Elems(s) \cap Elems(t) = {}
<1> TAKE s, t \in Seq(Mbufs)
<1>0. /\ Len(s) \in Nat /\ Len(t) \in Nat /\ Len(s \o t) = Len(s) + Len(t)
      /\ \A i \in 1..Len(s) : (s \o t)[i] = s[i]
      /\ \A i \in 1..Len(t) : (s \o t)[Len(s) + i] = t[i]
  BY ConcatAt
<1>1. ASSUME Distinct(s \o t)
      PROVE  Distinct(s) /\ Distinct(t) /\ Elems(s) \cap Elems(t) = {}
  <2>1. Distinct(s)
    BY <1>0, <1>1 DEF Distinct
  <2>2. ASSUME NEW i \in 1..Len(t), NEW j \in 1..Len(t), t[i] = t[j] PROVE i = j
    <3>1. Len(s) + i \in 1..Len(s \o t) /\ Len(s) + j \in 1..Len(s \o t)
      BY <1>0
    <3>2. Len(s) + i = Len(s) + j
      BY <1>0, <1>1, <2>2, <3>1 DEF Distinct
    <3> QED BY <1>0, <3>2
  <2>3. ASSUME NEW i \in 1..Len(s), NEW j \in 1..Len(t), s[i] = t[j] PROVE FALSE
    <3>1. i \in 1..Len(s \o t) /\ Len(s) + j \in 1..Len(s \o t)
      BY <1>0
    <3>2. i = Len(s) + j
      BY <1>0, <1>1, <2>3, <3>1 DEF Distinct
    <3> QED BY <1>0, <3>2
  <2> QED BY <2>1, <2>2, <2>3 DEF Distinct, Elems
<1>2. ASSUME Distinct(s), Distinct(t), Elems(s) \cap Elems(t) = {}
      PROVE  Distinct(s \o t)
  <2> SUFFICES ASSUME NEW i \in 1..Len(s \o t), NEW j \in 1..Len(s \o t),
                      (s \o t)[i] = (s \o t)[j]
               PROVE  i = j
    BY DEF Distinct
  <2>1. \A k \in 1..Len(s \o t) :
          \/ k \in 1..Len(s) /\ (s \o t)[k] = s[k]
          \/ k - Len(s) \in 1..Len(t) /\ (s \o t)[k] = t[k - Len(s)]
    BY <1>0, ConcatAt
  <2>2. \A k \in 1..Len(s), l \in 1..Len(t) : s[k] # t[l]
    BY <1>2 DEF Elems
  <2>3. CASE i \in 1..Len(s) /\ (s \o t)[i] = s[i]
    BY <1>2, <2>1, <2>2, <2>3 DEF Distinct
  <2>4. CASE i - Len(s) \in 1..Len(t) /\ (s \o t)[i] = t[i - Len(s)]
    <3>1. j - Len(s) \in 1..Len(t) /\ (s \o t)[j] = t[j - Len(s)]
      BY <2>1, <2>2, <2>4
    <3>2. i - Len(s) = j - Len(s)
      BY <1>2, <2>4, <3>1 DEF Distinct
    <3> QED BY <1>0, <3>2
  <2> QED BY <2>1, <2>3, <2>4
<1> QED BY <1>1, <1>2

\* The first piece is freed.
\* The first piece is freed, or the last.
LEMMA Release ==
  ASSUME NEW p \in Seq(Mbufs), NEW h \in Seq(Mbufs), NEW free, Conserved(p \o h, free)
  PROVE  Conserved(h, free \cup Elems(p)) /\ Conserved(p, free \cup Elems(h))
<1>1. Distinct(h) /\ Distinct(p) /\ Elems(p) \cap Elems(h) = {}
  BY DistinctConcat DEF Conserved
<1>2. Elems(p \o h) = Elems(p) \cup Elems(h)
  BY ElemsConcat
<1> QED BY <1>1, <1>2 DEF Conserved

\* A free mbuf is put at the end.
LEMMA Take ==
  ASSUME NEW h \in Seq(Mbufs), NEW free, NEW m \in free, Conserved(h, free)
  PROVE  Conserved(h \o <<m>>, free \ {m})
<1>0. m \in Mbufs /\ <<m>> \in Seq(Mbufs) /\ Elems(<<m>>) = {m} /\ Distinct(<<m>>)
  BY DEF Conserved, Elems, Distinct
<1>1. Distinct(h \o <<m>>)
  <2>1. Distinct(h) /\ Elems(h) \cap Elems(<<m>>) = {}
    BY <1>0 DEF Conserved
  <2> QED BY ONLY <1>0, <2>1, h \in Seq(Mbufs), DistinctConcat, Zenon
<1>2. Elems(h \o <<m>>) = Elems(h) \cup {m}
  BY <1>0, ElemsConcat
<1> QED BY <1>1, <1>2 DEF Conserved

-----------------------------------------------------------------------------
(***************************************************************************)
(* The numbers of the packets, as the sequence loses an end or gains one.  *)
(***************************************************************************)
LEMMA AscendingParts ==
  ASSUME NEW p \in Seq(Mbufs), NEW h \in Seq(Mbufs), NEW d \in [Mbufs -> Nat], NEW t \in Nat,
         Ascending(p \o h, d, t)
  PROVE  /\ Ascending(p, d, t) /\ Ascending(h, d, t)
         /\ \A i \in 1..Len(p), j \in 1..Len(h) : d[p[i]] < d[h[j]]
<1>0. /\ Len(p) \in Nat /\ Len(h) \in Nat /\ Len(p \o h) = Len(p) + Len(h)
      /\ \A i \in 1..Len(p) : i \in 1..Len(p \o h) /\ (p \o h)[i] = p[i]
      /\ \A i \in 1..Len(h) : Len(p) + i \in 1..Len(p \o h) /\ (p \o h)[Len(p) + i] = h[i]
  BY ConcatAt
<1>1. Ascending(p, d, t)
  BY <1>0 DEF Ascending
<1>2. ASSUME NEW i \in 1..Len(h) PROVE d[h[i]] \in 1..t
  BY <1>0 DEF Ascending
<1>3. ASSUME NEW i \in 1..Len(h), NEW j \in 1..Len(h), i < j PROVE d[h[i]] < d[h[j]]
  <2>1. Len(p) + i < Len(p) + j
    BY <1>0, <1>3
  <2> QED BY <1>0, <2>1 DEF Ascending
<1>4. ASSUME NEW i \in 1..Len(p), NEW j \in 1..Len(h) PROVE d[p[i]] < d[h[j]]
  <2>1. i < Len(p) + j
    BY <1>0
  <2> QED BY <1>0, <2>1 DEF Ascending
<1> QED BY <1>1, <1>2, <1>3, <1>4 DEF Ascending

\* A packet leaves the middle of the pipe at either end: what is left is in order.
LEMMA BeforeParts ==
  ASSUME NEW p \in Seq(Mbufs), NEW h \in Seq(Mbufs), NEW d \in [Mbufs -> Nat], NEW t \in Nat,
         NEW out \in Seq(Nat), Before(out, p \o h, d, t)
  PROVE  Before(out, p, d, t) /\ Before(out, h, d, t)
<1>0. /\ Len(p) \in Nat /\ Len(h) \in Nat /\ Len(p \o h) = Len(p) + Len(h)
      /\ \A i \in 1..Len(p) : i \in 1..Len(p \o h) /\ (p \o h)[i] = p[i]
      /\ \A i \in 1..Len(h) : Len(p) + i \in 1..Len(p \o h) /\ (p \o h)[Len(p) + i] = h[i]
  BY ConcatAt
<1>1. Before(out, p, d, t)
  BY <1>0 DEF Before
<1>2. Before(out, h, d, t)
  BY <1>0 DEF Before
<1> QED BY <1>1, <1>2

\* The first packets of p, as many as the guest takes, are delivered.
LEMMA BeforeDelivers ==
  ASSUME NEW p \in Seq(Mbufs), NEW h \in Seq(Mbufs), NEW d \in [Mbufs -> Nat], NEW t \in Nat,
         NEW out \in Seq(Nat), Before(out, p \o h, d, t), Ascending(p \o h, d, t),
         NEW b \in Seq(Nat), Len(b) <= Len(p), \A i \in 1..Len(b) : b[i] = d[p[i]]
  PROVE  /\ out \o b \in Seq(Nat) /\ Len(out \o b) = Len(out) + Len(b)
         /\ Before(out \o b, h, d, t)
<1> DEFINE new == out \o b
           n == Len(b)
<1>0. n \in Nat /\ Len(p) \in Nat /\ Len(out) \in Nat /\ Len(h) \in Nat /\ n <= Len(p)
  OBVIOUS
<1>2. b \in Seq(Nat) /\ Len(b) = n /\ \A i \in 1..n : b[i] = d[p[i]]
  OBVIOUS
<1> HIDE DEF n
<1>3. /\ new \in Seq(Nat) /\ Len(new) = Len(out) + n
      /\ \A i \in 1..(Len(out) + n) :
           \/ i \in 1..Len(out) /\ new[i] = out[i]
           \/ i > Len(out) /\ i - Len(out) \in 1..n /\ new[i] = d[p[i - Len(out)]]
  <2>1. /\ new \in Seq(Nat) /\ Len(new) = Len(out) + Len(b)
        /\ \A i \in 1..(Len(out) + Len(b)) :
             new[i] = IF i <= Len(out) THEN out[i] ELSE b[i - Len(out)]
    BY <1>2, ConcatProperties
  <2> HIDE DEF new
  <2>2. ASSUME NEW i \in 1..(Len(out) + n)
        PROVE  \/ i \in 1..Len(out) /\ new[i] = out[i]
               \/ i > Len(out) /\ i - Len(out) \in 1..n /\ new[i] = d[p[i - Len(out)]]
    <3>1. CASE i <= Len(out) BY <1>0, <1>2, <2>1, <3>1
    <3>2. CASE i > Len(out)
      <4>1. i - Len(out) \in 1..n BY <1>0, <3>2
      <4>2. new[i] = b[i - Len(out)] BY <1>0, <1>2, <2>1, <3>2
      <4>3. b[i - Len(out)] = d[p[i - Len(out)]] BY <1>2, <4>1
      <4> QED BY <3>2, <4>1, <4>2, <4>3
    <3> QED BY <1>0, <3>1, <3>2
  <2> QED BY <1>2, <2>1, <2>2
<1>4. /\ Before(out, p, d, t) /\ Before(out, h, d, t) /\ Ascending(p, d, t)
      /\ \A i \in 1..Len(p), j \in 1..Len(h) : d[p[i]] < d[h[j]]
  BY AscendingParts, BeforeParts
<1> HIDE DEF new
<1>5. ASSUME NEW i \in 1..Len(new) PROVE new[i] \in 1..t
  <2>1. CASE i \in 1..Len(out) /\ new[i] = out[i]
    BY <1>4, <2>1 DEF Before
  <2>2. CASE i > Len(out) /\ i - Len(out) \in 1..n /\ new[i] = d[p[i - Len(out)]]
    <3>1. i - Len(out) \in 1..Len(p) BY <1>0, <2>2
    <3> QED BY <1>4, <2>2, <3>1 DEF Ascending
  <2> QED BY <1>3, <2>1, <2>2
<1>6. ASSUME NEW i \in 1..Len(new), NEW j \in 1..Len(new), i < j PROVE new[i] < new[j]
  <2>1. CASE j \in 1..Len(out) /\ new[j] = out[j]
    <3>0. i \in 1..Len(out) /\ i \in 1..(Len(out) + n) /\ ~ (i > Len(out))
      <4>1. Len(new) = Len(out) + n /\ j \in 1..Len(out) /\ i \in 1..Len(new) /\ i < j
        BY <1>3, <1>6, <2>1
      <4> QED BY ONLY <1>0, <4>1
    <3>1. new[i] = out[i] BY <1>3, <3>0
    <3> QED BY <1>4, <1>6, <2>1, <3>0, <3>1 DEF Before
  <2>2. CASE j > Len(out) /\ j - Len(out) \in 1..n /\ new[j] = d[p[j - Len(out)]]
    <3>0. j - Len(out) \in 1..Len(p)
      BY <1>0, <2>2
    <3>1. CASE i \in 1..Len(out) /\ new[i] = out[i]
      BY <1>4, <2>2, <3>0, <3>1 DEF Before
    <3>2. CASE i > Len(out) /\ i - Len(out) \in 1..n /\ new[i] = d[p[i - Len(out)]]
      <4>1. i - Len(out) \in 1..Len(p) /\ i - Len(out) < j - Len(out)
        BY <1>0, <1>6, <3>2
      <4> QED BY <1>4, <2>2, <3>0, <3>2, <4>1 DEF Ascending
    <3> QED BY <1>3, <3>1, <3>2
  <2> QED BY <1>3, <2>1, <2>2
<1>7. ASSUME NEW i \in 1..Len(new), NEW j \in 1..Len(h) PROVE new[i] < d[h[j]]
  <2>1. CASE i \in 1..Len(out) /\ new[i] = out[i]
    BY <1>4, <2>1 DEF Before
  <2>2. CASE i > Len(out) /\ i - Len(out) \in 1..n /\ new[i] = d[p[i - Len(out)]]
    <3>1. i - Len(out) \in 1..Len(p) BY <1>0, <2>2
    <3> QED BY <1>4, <2>2, <3>1
  <2> QED BY <1>3, <2>1, <2>2
<1> QED BY <1>3, <1>5, <1>6, <1>7 DEF Before, new, n

\* A fresh packet is put at the end.
LEMMA TakeInOrder ==
  ASSUME NEW h \in Seq(Mbufs), NEW d \in [Mbufs -> Nat], NEW t \in Nat, NEW out \in Seq(Nat),
         NEW m \in Mbufs, m \notin Elems(h), Ascending(h, d, t), Before(out, h, d, t)
  PROVE  LET e == [d EXCEPT ![m] = t + 1]
         IN  Ascending(h \o <<m>>, e, t + 1) /\ Before(out, h \o <<m>>, e, t + 1)
<1> DEFINE e == [d EXCEPT ![m] = t + 1]
           g == h \o <<m>>
<1>0. /\ Len(h) \in Nat /\ Len(g) = Len(h) + 1
      /\ \A i \in 1..Len(h) : g[i] = h[i]
      /\ g[Len(h) + 1] = m
  BY ConcatAt
<1>1. \A i \in 1..Len(h) : h[i] \in Mbufs /\ h[i] # m
  BY DEF Elems
<1>2. /\ e[m] = t + 1
      /\ \A i \in 1..Len(h) : e[h[i]] = d[h[i]]
  BY <1>1
<1> HIDE DEF e, g
<1>3. \A i \in 1..Len(g) : \/ i \in 1..Len(h) /\ e[g[i]] = d[h[i]]
                           \/ i = Len(h) + 1 /\ e[g[i]] = t + 1
  BY <1>0, <1>2
<1>4. \A i \in 1..Len(h) : d[h[i]] \in 1..t
  BY DEF Ascending
<1>5. Ascending(g, e, t + 1)
  <2>1. ASSUME NEW i \in 1..Len(g) PROVE e[g[i]] \in 1..(t + 1)
    <3>1. CASE i \in 1..Len(h) /\ e[g[i]] = d[h[i]]
      <4>1. d[h[i]] \in 1..t BY <1>4, <3>1
      <4> QED BY <3>1, <4>1
    <3>2. CASE i = Len(h) + 1 /\ e[g[i]] = t + 1 BY <3>2
    <3> QED BY <1>3, <3>1, <3>2
  <2>2. ASSUME NEW i \in 1..Len(g), NEW j \in 1..Len(g), i < j PROVE e[g[i]] < e[g[j]]
    <3>1. i \in 1..Len(h) /\ e[g[i]] = d[h[i]] BY <1>0, <1>3, <2>2
    <3>2. CASE j \in 1..Len(h) /\ e[g[j]] = d[h[j]] BY <2>2, <3>1, <3>2 DEF Ascending
    <3>3. CASE j = Len(h) + 1 /\ e[g[j]] = t + 1 BY <1>4, <3>1, <3>3
    <3> QED BY <1>3, <3>2, <3>3
  <2> QED BY <2>1, <2>2 DEF Ascending
<1>6. Before(out, g, e, t + 1)
  <2>1. ASSUME NEW i \in 1..Len(out) PROVE out[i] \in 1..t /\ out[i] \in 1..(t + 1)
    <3>1. out[i] \in 1..t BY DEF Before
    <3> QED BY <3>1
  <2>2. ASSUME NEW i \in 1..Len(out), NEW j \in 1..Len(g) PROVE out[i] < e[g[j]]
    <3>2. CASE j \in 1..Len(h) /\ e[g[j]] = d[h[j]] BY <3>2 DEF Before
    <3>3. CASE j = Len(h) + 1 /\ e[g[j]] = t + 1 BY <2>1, <3>3
    <3> QED BY <1>3, <3>2, <3>3
  <2>3. \A i, j \in 1..Len(out) : i < j => out[i] < out[j]
    BY DEF Before
  <2> QED BY <2>1, <2>2, <2>3 DEF Before
<1> QED BY <1>5, <1>6 DEF e, g

-----------------------------------------------------------------------------
(***************************************************************************)
(* What each step does to Held.                                            *)
(***************************************************************************)
LEMMA HeldIs ==
  ASSUME TypeOK, Hands
  PROVE  /\ cbuf \in Seq(Mbufs) /\ ring \in Seq(Mbufs) /\ pbuf \in Seq(Mbufs)
         /\ cbuf \o ring \in Seq(Mbufs) /\ ring \o pbuf \in Seq(Mbufs) /\ Held \in Seq(Mbufs)
         /\ Held = cbuf \o (ring \o pbuf) /\ Held = (cbuf \o ring) \o pbuf
         /\ Len(Held) = Len(cbuf) + Len(ring) + Len(pbuf)
         /\ Len(cbuf) \in Nat /\ Len(ring) \in Nat /\ Len(pbuf) \in Nat
<1>1. cbuf \in Seq(Mbufs) /\ ring \in Seq(Mbufs) /\ pbuf \in Seq(Mbufs)
  BY DEF TypeOK, Hands
<1>2. /\ cbuf \o ring \in Seq(Mbufs) /\ ring \o pbuf \in Seq(Mbufs)
      /\ Len(cbuf \o ring) = Len(cbuf) + Len(ring)
  BY ONLY <1>1, ConcatAt, Zenon
<1>3. (cbuf \o ring) \o pbuf \in Seq(Mbufs) /\ Len((cbuf \o ring) \o pbuf) = Len(cbuf \o ring) + Len(pbuf)
  BY ONLY <1>1, <1>2, ConcatAt, Zenon
<1>4. (cbuf \o ring) \o pbuf = cbuf \o (ring \o pbuf)
  BY ONLY <1>1, Assoc, Zenon
<1> QED BY <1>1, <1>2, <1>3, <1>4 DEF Held

\* The payloads and the deliveries are numbers.
LEMMA Numbers ==
  ASSUME TypeOK
  PROVE  /\ data \in [Mbufs -> Nat] /\ delivered \in Seq(Nat)
         /\ taken \in Nat /\ dropped \in Nat /\ Len(delivered) \in Nat
         /\ RingCapacity \in Nat /\ BURST_SIZE \in Nat /\ MaxPkts \in Nat /\ 0 \in 0..MaxPkts
<1>1. MaxPkts \in Nat /\ RingCapacity \in Nat /\ BURST_SIZE \in Nat
  BY LcoreAssumption
<1>2. \A k \in 0..MaxPkts : k \in Nat
  BY <1>1
<1>3. data \in [Mbufs -> Nat]
  BY <1>2 DEF TypeOK
<1>4. delivered \in Seq(Nat)
  <2>1. delivered \in Seq(1..MaxPkts) BY DEF TypeOK
  <2>2. 1..MaxPkts \subseteq Nat BY <1>1
  <2> QED BY ONLY <2>1, <2>2, SeqMonotonic
<1> QED BY <1>1, <1>2, <1>3, <1>4 DEF TypeOK

-----------------------------------------------------------------------------
(***************************************************************************)
(* The steps.                                                              *)
(***************************************************************************)
Flow ==
    /\ Conserved(Held, pool)
    /\ Ascending(Held, data, taken)
    /\ Before(delivered, Held, data, taken)
    /\ taken = Len(delivered) + dropped + Len(Held)

LEMMA DequeueStep ==
  ASSUME LcoreInv, PDequeue
  PROVE  LcoreInv'
<1> USE DEF producerVars, consumerVars, deviceVars
<1>0. TypeOK /\ Hands /\ Flow
  BY DEF LcoreInv, Flow
<1>1. PICK m \in pool : /\ pool' = pool \ {m}
                        /\ data' = [data EXCEPT ![m] = taken + 1]
                        /\ pbuf' = <<m>>
  BY DEF PDequeue
<1>2. /\ taken' = taken + 1 /\ taken < MaxPkts /\ ppc = "dequeue" /\ ppc' = "push"
      /\ UNCHANGED <<proc, g_vid, ready, cb, live, conns, ring, delivered, dropped, cpc, cbuf>>
  BY DEF PDequeue
<1>3. m \in Mbufs /\ <<m>> \in Seq(Mbufs) /\ Len(<<m>>) = 1
  BY <1>0 DEF TypeOK
<1>4. pbuf = <<>> /\ Held = cbuf \o ring /\ Held \in Seq(Mbufs)
  <2>1. pbuf = <<>> BY <1>0, <1>2 DEF Hands
  <2>2. cbuf \o ring \in Seq(Mbufs) BY <1>0, HeldIs
  <2>3. (cbuf \o ring) \o <<>> = cbuf \o ring BY ONLY <2>2, Empty, Zenon
  <2> QED BY <2>1, <2>2, <2>3 DEF Held
<1>5. Held' = Held \o <<m>> /\ Len(Held') = Len(Held) + 1
  <2>1. Held' = Held \o <<m>> BY <1>1, <1>2, <1>4 DEF Held
  <2>2. Len(Held \o <<m>>) = Len(Held) + Len(<<m>>)
    BY ONLY <1>3, <1>4, ConcatAt, Zenon
  <2> QED BY <1>3, <2>1, <2>2
<1>6. Conserved(Held', pool')
  <2>1. Conserved(Held \o <<m>>, pool \ {m})
    BY <1>0, <1>4, Take DEF Flow
  <2> QED BY <1>1, <1>5, <2>1
<1>7. Ascending(Held', data', taken') /\ Before(delivered', Held', data', taken')
  <2>1. m \notin Elems(Held) BY <1>0 DEF Flow, Conserved
  <2>2. /\ data \in [Mbufs -> Nat] /\ taken \in Nat /\ delivered \in Seq(Nat)
        /\ Ascending(Held, data, taken) /\ Before(delivered, Held, data, taken)
    BY <1>0, Numbers DEF Flow
  <2>3. /\ Ascending(Held \o <<m>>, [data EXCEPT ![m] = taken + 1], taken + 1)
        /\ Before(delivered, Held \o <<m>>, [data EXCEPT ![m] = taken + 1], taken + 1)
    BY <1>3, <1>4, <2>1, <2>2, TakeInOrder
  <2> QED BY <1>1, <1>2, <1>5, <2>3
<1>8. taken' = Len(delivered') + dropped' + Len(Held')
  <2>1. Len(Held) \in Nat BY <1>4
  <2>2. taken \in Nat /\ dropped \in Nat /\ Len(delivered) \in Nat BY <1>0, Numbers
  <2>3. taken = Len(delivered) + dropped + Len(Held) BY <1>0 DEF Flow
  <2>4. delivered' = delivered /\ dropped' = dropped BY <1>2
  <2> QED BY <1>2, <1>5, <2>1, <2>2, <2>3, <2>4
<1>9. TypeOK'
  <2>1. taken' \in 0..MaxPkts BY <1>0, <1>2, Numbers DEF TypeOK
  <2>2. data' \in [Mbufs -> 0..MaxPkts]
    <3>1. taken + 1 \in 0..MaxPkts BY <1>2, <2>1
    <3>2. data \in [Mbufs -> 0..MaxPkts] BY <1>0 DEF TypeOK
    <3> QED BY <1>1, <3>1, <3>2
  <2>3. pool' \subseteq Mbufs /\ Len(pbuf') <= 1 BY <1>0, <1>1, <1>3 DEF TypeOK
  <2> QED BY <1>0, <1>2, <2>1, <2>2, <2>3 DEF TypeOK
<1>10. Hands'
  BY <1>0, <1>1, <1>2, <1>3 DEF Hands
<1> QED BY <1>6, <1>7, <1>8, <1>9, <1>10 DEF LcoreInv

LEMMA PushStep ==
  ASSUME LcoreInv, PPush
  PROVE  LcoreInv'
<1> USE DEF producerVars, consumerVars, deviceVars
<1>0. TypeOK /\ Hands /\ Flow
  BY DEF LcoreInv, Flow
<1>1. /\ ppc = "push" /\ ppc' = "ready" /\ pbuf' = <<>>
      /\ UNCHANGED <<proc, g_vid, ready, cb, live, conns, data, taken, delivered, cpc, cbuf>>
  BY DEF PPush
<1>2. /\ cbuf \in Seq(Mbufs) /\ ring \in Seq(Mbufs) /\ pbuf \in Seq(Mbufs)
      /\ cbuf \o ring \in Seq(Mbufs) /\ ring \o pbuf \in Seq(Mbufs) /\ Held \in Seq(Mbufs)
      /\ Held = cbuf \o (ring \o pbuf) /\ Held = (cbuf \o ring) \o pbuf
  BY <1>0, HeldIs
<1>3. Len(pbuf) = 1 /\ Len(ring) \in Nat
  BY <1>0, <1>1, <1>2 DEF Hands
<1>4. /\ data \in [Mbufs -> Nat] /\ taken \in Nat /\ delivered \in Seq(Nat)
      /\ dropped \in Nat /\ Len(delivered) \in Nat /\ RingCapacity \in Nat /\ MaxPkts \in Nat
  BY <1>0, Numbers
<1>5. Hands'
  BY <1>0, <1>1, Empty DEF Hands
<1>7. CASE Len(ring) < RingCapacity
  <2>1. ring' = ring \o pbuf /\ UNCHANGED <<pool, dropped>>
    BY <1>7 DEF PPush
  <2>2. Held' = Held
    <3>1. (cbuf \o (ring \o pbuf)) \o <<>> = cbuf \o (ring \o pbuf)
      BY ONLY <1>2, Empty, Zenon
    <3>2. Held' = (cbuf \o (ring \o pbuf)) \o <<>>
      <4>1. cbuf \o (ring \o pbuf) \o <<>> = (cbuf \o (ring \o pbuf)) \o <<>> OBVIOUS
      <4> QED BY <1>1, <2>1, <4>1 DEF Held
    <3> QED BY <1>2, <3>1, <3>2
  <2>3. Flow'
    BY <1>0, <1>1, <2>1, <2>2 DEF Flow
  <2>4. ring' \in Seq(Mbufs) /\ Len(ring') <= RingCapacity
    <3>1. Len(ring \o pbuf) = Len(ring) + Len(pbuf) BY ONLY <1>2, ConcatAt, Zenon
    <3> QED BY <1>2, <1>3, <1>4, <1>7, <2>1, <3>1
  <2>5. TypeOK'
    <3>1. Len(pbuf') <= 1 BY <1>1, Empty
    <3> QED BY <1>0, <1>1, <2>1, <2>4, <3>1 DEF TypeOK
  <2> QED BY <1>5, <2>3, <2>5 DEF LcoreInv, Flow
<1>8. CASE ~ (Len(ring) < RingCapacity)
  <2>1. pool' = pool \cup Elems(pbuf) /\ dropped' = dropped + 1 /\ ring' = ring
    BY <1>3, <1>8 DEF PPush
  <2>2. Held' = cbuf \o ring
    <3>1. (cbuf \o ring) \o <<>> = cbuf \o ring
      BY ONLY <1>2, Empty, Zenon
    <3> QED BY <1>1, <2>1, <3>1 DEF Held
  <2>3. Conserved(Held', pool')
    <3>1. Conserved((cbuf \o ring) \o pbuf, pool) BY <1>0, <1>2 DEF Flow
    <3>2. Conserved(cbuf \o ring, pool \cup Elems(pbuf)) BY <1>2, <3>1, Release
    <3> QED BY <2>1, <2>2, <3>2
  <2>4. Ascending(Held', data', taken') /\ Before(delivered', Held', data', taken')
    <3>1. Ascending((cbuf \o ring) \o pbuf, data, taken) /\ Before(delivered, (cbuf \o ring) \o pbuf, data, taken)
      BY <1>0, <1>2 DEF Flow
    <3>2. Ascending(cbuf \o ring, data, taken) BY <1>2, <1>4, <3>1, AscendingParts
    <3>3. Before(delivered, cbuf \o ring, data, taken) BY <1>2, <1>4, <3>1, BeforeParts
    <3> QED BY <1>1, <2>2, <3>2, <3>3
  <2>5. taken' = Len(delivered') + dropped' + Len(Held') /\ Len(Held') \in Nat
    <3>1. Len(Held) = Len(cbuf \o ring) + Len(pbuf)
      <4>1. Len((cbuf \o ring) \o pbuf) = Len(cbuf \o ring) + Len(pbuf)
        BY ONLY <1>2, ConcatAt, Zenon
      <4> QED BY <1>2, <4>1
    <3>2. Len(cbuf \o ring) \in Nat BY <1>2
    <3>3. taken = Len(delivered) + dropped + Len(Held) BY <1>0 DEF Flow
    <3> QED BY <1>1, <1>3, <1>4, <2>1, <2>2, <3>1, <3>2, <3>3
  <2>6. TypeOK'
    <3>1. Len(pbuf') <= 1 BY <1>1, Empty
    <3>2. dropped' \in 0..MaxPkts
      <4>1. taken' \in 0..MaxPkts BY <1>0, <1>1 DEF TypeOK
      <4> QED BY <1>1, <1>4, <2>1, <2>5, <4>1
    <3>3. pool' \subseteq Mbufs
      BY <2>3 DEF Conserved
    <3> QED BY <1>0, <1>1, <2>1, <3>1, <3>2, <3>3 DEF TypeOK
  <2> QED BY <1>5, <2>3, <2>4, <2>5, <2>6 DEF LcoreInv
<1> QED BY <1>7, <1>8

\* The front of the ring goes to the consumer, who holds nothing: Held is the same.
LEMMA ConsumerDequeueStep ==
  ASSUME LcoreInv, CDequeue
  PROVE  LcoreInv'
<1> USE DEF producerVars, consumerVars, deviceVars
<1> DEFINE n == Least(BURST_SIZE, Len(ring))
<1>0. TypeOK /\ Hands /\ Flow
  BY DEF LcoreInv, Flow
<1>1. /\ cpc = "dequeue" /\ cbuf' = SubSeq(ring, 1, n) /\ ring' = SubSeq(ring, n + 1, Len(ring))
      /\ cpc' = IF n > 0 THEN "deliver" ELSE "vid"
      /\ UNCHANGED <<proc, g_vid, ready, cb, live, conns, pool, data, taken, delivered,
                     dropped, ppc, pbuf>>
  BY DEF CDequeue
<1>2. /\ cbuf = <<>> /\ ring \in Seq(Mbufs) /\ pbuf \in Seq(Mbufs) /\ ring \o pbuf \in Seq(Mbufs)
      /\ Held = cbuf \o (ring \o pbuf)
  BY <1>0, <1>1, HeldIs DEF Hands
<1>3. /\ n \in Nat /\ n <= Len(ring) /\ n <= BURST_SIZE /\ Len(ring) \in Nat
      /\ Len(ring) <= RingCapacity /\ RingCapacity \in Nat
  BY <1>0, <1>2, Numbers DEF Least, TypeOK
<1> HIDE DEF n
<1>4. /\ cbuf' \in Seq(Mbufs) /\ Len(cbuf') = n
      /\ ring' \in Seq(Mbufs) /\ Len(ring') = Len(ring) - n
  BY <1>1, <1>2, <1>3
<1>5. cbuf' \o ring' = ring
  <2>1. SubSeq(ring, 1, n) \o SubSeq(ring, n + 1, Len(ring)) = SubSeq(ring, 1, Len(ring))
    <3>1. 1 \in 1..(Len(ring) + 1) /\ n \in (1 - 1)..Len(ring) /\ Len(ring) \in n..Len(ring)
      BY <1>3
    <3> QED BY <1>2, <3>1, ConcatAdjacentSubSeq
  <2>2. SubSeq(ring, 1, Len(ring)) = ring
    BY <1>2, SubSeqFull
  <2> QED BY <1>1, <2>1, <2>2
<1>6. Held' = Held
  <2>1. Held' = ring \o pbuf BY <1>1, <1>5 DEF Held
  <2>2. <<>> \o (ring \o pbuf) = ring \o pbuf BY ONLY <1>2, Empty, Zenon
  <2> QED BY <1>2, <2>1, <2>2
<1>7. Flow'
  BY <1>0, <1>1, <1>6 DEF Flow
<1>8. TypeOK'
  <2>1. Len(cbuf') <= BURST_SIZE /\ Len(ring') <= RingCapacity
    BY <1>3, <1>4
  <2> QED BY <1>0, <1>1, <1>4, <2>1 DEF TypeOK
<1>9. Hands'
  <2>1. n = 0 => cbuf' = <<>> BY <1>4, EmptySeq
  <2> QED BY <1>0, <1>1, <1>3, <1>4, <2>1 DEF Hands
<1> QED BY <1>7, <1>8, <1>9 DEF LcoreInv, Flow

\* The consumer's batch leaves the front of Held, part of it to the guest.
LEMMA DeliverStep ==
  ASSUME LcoreInv, CDeliver
  PROVE  LcoreInv'
<1> USE DEF producerVars, consumerVars, deviceVars
<1>0. TypeOK /\ Hands /\ Flow
  BY DEF LcoreInv, Flow
<1>1. /\ cpc = "deliver" /\ cbuf' = <<>> /\ cpc' = "vid" /\ pool' = pool \cup Elems(cbuf)
      /\ UNCHANGED <<proc, g_vid, ready, cb, live, conns, data, taken, ring, ppc, pbuf>>
  BY DEF CDeliver
<1>2. PICK n \in 0..Len(cbuf) :
        /\ delivered' = delivered \o [i \in 1..n |-> data[cbuf[i]]]
        /\ dropped' = dropped + (Len(cbuf) - n)
  BY DEF CDeliver
<1>3. /\ cbuf \in Seq(Mbufs) /\ ring \in Seq(Mbufs) /\ pbuf \in Seq(Mbufs)
      /\ ring \o pbuf \in Seq(Mbufs) /\ Held = cbuf \o (ring \o pbuf)
  BY <1>0, HeldIs
<1>4. /\ data \in [Mbufs -> Nat] /\ taken \in Nat /\ delivered \in Seq(Nat)
      /\ dropped \in Nat /\ Len(delivered) \in Nat /\ BURST_SIZE \in Nat /\ MaxPkts \in Nat
  BY <1>0, Numbers
<1>5. Held' = ring \o pbuf
  <2>1. <<>> \o ring = ring BY ONLY <1>3, Empty, Zenon
  <2> QED BY <1>1, <2>1 DEF Held
<1>6. /\ Conserved(cbuf \o (ring \o pbuf), pool)
      /\ Ascending(cbuf \o (ring \o pbuf), data, taken)
      /\ Before(delivered, cbuf \o (ring \o pbuf), data, taken)
  BY <1>0, <1>3 DEF Flow
<1>7. Conserved(Held', pool')
  <2>1. Conserved(ring \o pbuf, pool \cup Elems(cbuf)) BY <1>3, <1>6, Release
  <2> QED BY <1>1, <1>5, <2>1
<1>8. Ascending(Held', data', taken')
  <2>1. Ascending(ring \o pbuf, data, taken) BY <1>3, <1>4, <1>6, AscendingParts
  <2> QED BY <1>1, <1>5, <2>1
<1>9. /\ delivered' \in Seq(Nat) /\ Len(delivered') = Len(delivered) + n
      /\ Before(delivered', Held', data', taken')
  <2> DEFINE b == [i \in 1..n |-> data[cbuf[i]]]
  <2>1. b \in Seq(Nat) /\ Len(b) = n /\ \A i \in 1..n : b[i] = data[cbuf[i]]
    <3>1. Len(cbuf) \in Nat /\ n \in Nat /\ n <= Len(cbuf) BY <1>3
    <3>2. \A i \in 1..n : cbuf[i] \in Mbufs /\ data[cbuf[i]] \in Nat BY <1>3, <1>4, <3>1
    <3> QED BY <3>1, <3>2
  <2>2. delivered' = delivered \o b BY <1>2
  <2> HIDE DEF b
  <2>3. /\ delivered \o b \in Seq(Nat) /\ Len(delivered \o b) = Len(delivered) + n
        /\ Before(delivered \o b, ring \o pbuf, data, taken)
    <3>1. /\ b \in Seq(Nat) /\ Len(b) <= Len(cbuf) /\ \A i \in 1..Len(b) : b[i] = data[cbuf[i]]
      BY <1>3, <2>1
    <3>2. /\ delivered \o b \in Seq(Nat) /\ Len(delivered \o b) = Len(delivered) + Len(b)
          /\ Before(delivered \o b, ring \o pbuf, data, taken)
      BY <1>3, <1>4, <1>6, <3>1, BeforeDelivers
    <3> QED BY <2>1, <3>2
  <2> QED BY <1>1, <1>5, <2>2, <2>3
<1>10. taken' = Len(delivered') + dropped' + Len(Held') /\ Len(Held') \in Nat /\ dropped' \in Nat
  <2>1. Len(Held) = Len(cbuf) + Len(ring \o pbuf)
    <3>1. Len(cbuf \o (ring \o pbuf)) = Len(cbuf) + Len(ring \o pbuf)
      BY ONLY <1>3, ConcatAt, Zenon
    <3> QED BY <1>3, <3>1
  <2>2. Len(ring \o pbuf) \in Nat /\ Len(cbuf) \in Nat BY <1>3
  <2>3. taken = Len(delivered) + dropped + Len(Held) BY <1>0 DEF Flow
  <2>4. taken' = taken /\ n \in Nat /\ n <= Len(cbuf) BY <1>1, <2>2
  <2> QED BY <1>2, <1>4, <1>5, <1>9, <2>1, <2>2, <2>3, <2>4
<1>11. TypeOK'
  <2>1. dropped' \in 0..MaxPkts
    <3>1. taken' \in 0..MaxPkts BY <1>0, <1>1 DEF TypeOK
    <3> QED BY <1>4, <1>9, <1>10, <3>1
  <2>2. delivered' \in Seq(1..MaxPkts)
    <3>1. \A i \in 1..Len(delivered') : delivered'[i] \in 1..MaxPkts
      <4>1. taken' \in Nat /\ taken' <= MaxPkts BY <1>0, <1>1, <1>4 DEF TypeOK
      <4>2. \A i \in 1..Len(delivered') : delivered'[i] \in 1..taken'
        BY <1>9 DEF Before
      <4> QED BY <1>4, <4>1, <4>2
    <3>2. Len(delivered') \in Nat /\ delivered' \in [1..Len(delivered') -> Nat]
      BY <1>9, LenProperties
    <3>3. delivered' \in [1..Len(delivered') -> 1..MaxPkts]
      BY ONLY <3>1, <3>2, Zenon
    <3> QED BY ONLY <3>2, <3>3, SeqDef, Zenon
  <2>3. pool' \subseteq Mbufs
    BY <1>7 DEF Conserved
  <2>4. Len(cbuf') <= BURST_SIZE BY <1>1, <1>4, Empty
  <2> QED BY <1>0, <1>1, <2>1, <2>2, <2>3, <2>4 DEF TypeOK
<1>12. Hands'
  BY <1>0, <1>1, Empty DEF Hands
<1> QED BY <1>7, <1>8, <1>9, <1>10, <1>11, <1>12 DEF LcoreInv

\* Every other step moves no packet.
LEMMA QuietStep ==
  ASSUME LcoreInv, [Next]_vars, ~ (PDequeue \/ PPush \/ CDequeue \/ CDeliver)
  PROVE  LcoreInv'
<1> USE DEF producerVars, consumerVars, deviceVars, packetVars
<1>0. TypeOK /\ Hands /\ Flow
  BY DEF LcoreInv, Flow
<1>1. UNCHANGED <<pool, data, ring, taken, delivered, dropped, pbuf, cbuf>>
  BY DEF Next, Producer, Consumer, Setup, SetupSecond, Launch, Failed, NewDevice, DestroyDevice,
         NewDeviceReady, PReady, PVid, PDequeueNone, CVid, vars
<1>2. Flow'
  BY <1>0, <1>1 DEF Flow, Held
<1>4. /\ ppc' # "push" \/ ppc' = ppc
      /\ cpc' # "deliver" \/ cpc' = cpc
      /\ ppc' = ppc \/ ppc \in {"none", "ready", "vid", "dequeue"}
      /\ cpc' = cpc \/ cpc \in {"none", "vid", "dequeue"}
  <2>1. CASE Setup \/ SetupSecond \/ Launch BY <1>0, <2>1 DEF Setup, SetupSecond, Launch, Hands
  <2>2. CASE \E v \in Vids : NewDevice(v) \/ DestroyDevice(v)
    BY <2>2 DEF NewDevice, DestroyDevice
  <2>3. CASE PReady \/ PVid \/ PDequeueNone BY <2>3 DEF PReady, PVid, PDequeueNone
  <2>4. CASE CVid BY <2>4 DEF CVid
  <2>5. CASE NewDeviceReady \/ Failed \/ UNCHANGED vars
    BY <2>5 DEF NewDeviceReady, Failed, vars
  <2> QED BY <2>1, <2>2, <2>3, <2>4, <2>5 DEF Next, Producer, Consumer
<1>5. Hands'
  <2>1. proc' # "running" => ppc' = "none" /\ cpc' = "none"
    <3>1. CASE Setup \/ SetupSecond \/ Launch BY <1>0, <3>1 DEF Setup, SetupSecond, Launch, Hands
    <3>2. CASE \E v \in Vids : NewDevice(v) \/ DestroyDevice(v)
      BY <1>0, <3>2 DEF NewDevice, DestroyDevice, Hands
    <3>3. CASE PReady \/ PVid \/ PDequeueNone \/ CVid
      BY <1>0, <3>3 DEF PReady, PVid, PDequeueNone, CVid, Hands
    <3>4. CASE NewDeviceReady \/ Failed \/ UNCHANGED vars
      BY <1>0, <3>4 DEF NewDeviceReady, Failed, vars, Hands
    <3> QED BY <3>1, <3>2, <3>3, <3>4 DEF Next, Producer, Consumer
  <2> QED BY <1>0, <1>1, <1>4, <2>1 DEF Hands
<1>6. TypeOK'
  <2>1. MaxConns \in Nat BY LcoreAssumption
  <2>2. CASE Setup \/ SetupSecond BY <1>0, <1>1, <2>2 DEF TypeOK, Setup, SetupSecond
  <2>3. CASE Launch BY <1>0, <1>1, <2>3 DEF TypeOK, Launch
  <2>4. CASE \E v \in Vids : NewDevice(v) \/ DestroyDevice(v)
    BY <1>0, <1>1, <2>1, <2>4 DEF TypeOK, NewDevice, DestroyDevice
  <2>5. CASE NewDeviceReady BY <1>0, <1>1, <2>5 DEF TypeOK, NewDeviceReady
  <2>6. CASE PReady \/ PVid \/ PDequeueNone
    BY <1>0, <1>1, <2>6 DEF TypeOK, PReady, PVid, PDequeueNone
  <2>7. CASE CVid BY <1>0, <1>1, <2>7 DEF TypeOK, CVid
  <2>8. CASE Failed \/ UNCHANGED vars BY <1>0, <1>1, <2>8 DEF TypeOK, Failed, vars
  <2> QED BY <2>2, <2>3, <2>4, <2>5, <2>6, <2>7, <2>8 DEF Next, Producer, Consumer
<1> QED BY <1>2, <1>5, <1>6 DEF LcoreInv, Flow

-----------------------------------------------------------------------------
LEMMA LcoreInit == Init => LcoreInv
<1> SUFFICES ASSUME Init PROVE LcoreInv
  OBVIOUS
<1>1. /\ MaxPkts \in Nat /\ 0 \in 0..MaxPkts /\ MaxConns \in Nat /\ 0 \in 0..MaxConns
      /\ RingCapacity \in Nat /\ BURST_SIZE \in Nat
  BY LcoreAssumption
<1>2. /\ <<>> \in Seq(Mbufs) /\ Len(<<>>) = 0 /\ <<>> \in Seq(1..MaxPkts)
      /\ <<>> \o <<>> \o <<>> = <<>>
  BY Empty, EmptySeq
<1>3. Held = <<>> /\ delivered = <<>> /\ taken = 0 /\ dropped = 0 /\ pool = Mbufs
  BY <1>2 DEF Init, Held
<1>4. Elems(<<>>) = {} BY <1>2 DEF Elems
<1>5. Conserved(Held, pool)
  BY <1>2, <1>3, <1>4 DEF Conserved, Distinct
<1>6. Ascending(Held, data, taken) /\ Before(delivered, Held, data, taken)
  BY <1>2, <1>3 DEF Ascending, Before
<1>7. TypeOK
  <2>1. data \in [Mbufs -> 0..MaxPkts] BY <1>1 DEF Init
  <2>2. ready \in BOOLEAN BY DEF Init
  <2> QED BY <1>1, <1>2, <2>1, <2>2 DEF Init, TypeOK
<1>8. Hands
  BY <1>2 DEF Init, Hands
<1> QED BY <1>2, <1>3, <1>5, <1>6, <1>7, <1>8 DEF LcoreInv

LEMMA LcoreStep == LcoreInv /\ [Next]_vars => LcoreInv'
  BY DequeueStep, PushStep, ConsumerDequeueStep, DeliverStep, QuietStep

LEMMA LcoreInvImplies ==
  LcoreInv => TypeOK /\ NoMbufLeak /\ InOrderOrDropped
<1> SUFFICES ASSUME LcoreInv PROVE NoMbufLeak /\ InOrderOrDropped
  BY DEF LcoreInv
<1>0. TypeOK /\ Hands /\ Flow
  BY DEF LcoreInv, Flow
<1>1. NoMbufLeak
  BY <1>0 DEF Flow, Conserved, Distinct, NoMbufLeak
<1>2. \A i \in 1..Len(delivered), j \in 1..Len(ring) : delivered[i] < data[ring[j]]
  <2>1. /\ cbuf \in Seq(Mbufs) /\ ring \in Seq(Mbufs) /\ pbuf \in Seq(Mbufs)
        /\ ring \o pbuf \in Seq(Mbufs) /\ Held = cbuf \o (ring \o pbuf)
    BY <1>0, HeldIs
  <2>2. data \in [Mbufs -> Nat] /\ taken \in Nat /\ delivered \in Seq(Nat)
    BY <1>0, Numbers
  <2>3. Before(delivered, cbuf \o (ring \o pbuf), data, taken)
    BY <1>0, <2>1 DEF Flow
  <2>4. Before(delivered, ring \o pbuf, data, taken)
    BY <2>1, <2>2, <2>3, BeforeParts
  <2>5. Before(delivered, ring, data, taken)
    BY <2>1, <2>2, <2>4, BeforeParts
  <2> QED BY <2>5 DEF Before
<1>3. InOrderOrDropped
  BY <1>0, <1>2 DEF Flow, Before, InOrderOrDropped
<1> QED BY <1>1, <1>3

LEMMA LcoreAlways == Spec => []LcoreInv
  BY LcoreInit, LcoreStep, PTL DEF Spec

\* TypeOK in every reachable state of main.c's lcores and callbacks.
THEOREM LcoreTypeCorrect == Spec => []TypeOK
  BY LcoreAlways, LcoreInvImplies, PTL

\* No packet buffer is lost or held twice, however the guests come and go: a
\* full ring and an absent guest both free what producer_loop and
\* consumer_loop hold.
THEOREM NoMbufEverLeaks == Spec => []NoMbufLeak
  BY LcoreAlways, LcoreInvImplies, PTL

\* What consumer_loop delivers is in the order producer_loop took it, and
\* every packet taken is delivered, dropped or on its way.
THEOREM AlwaysInOrderOrDropped == Spec => []InOrderOrDropped
  BY LcoreAlways, LcoreInvImplies, PTL
=============================================================================
