----------------------------- MODULE PacketPipe -----------------------------
(***************************************************************************)
(* What the loopback path of the bridge promises: a first-in first-out     *)
(* pipe.  Packets are numbered in the order they enter.  The pipe hands    *)
(* over its oldest packets, or loses its oldest packets; it never          *)
(* reorders, repeats or invents one.                                       *)
(***************************************************************************)
EXTENDS Integers, Sequences

CONSTANT BurstSize   \* the most packets that enter at a time
VARIABLES
    accepted,   \* how many packets have entered
    queue,      \* those that are in the pipe, oldest first
    delivered   \* those that came out at the other end, in order

pipeVars == <<accepted, queue, delivered>>

PipeInit == accepted = 0 /\ queue = <<>> /\ delivered = <<>>

\* A burst of n packets enters.
Accept ==
    \E n \in 1..BurstSize :
      /\ accepted' = accepted + n
      /\ queue' = queue \o [i \in 1..n |-> accepted + i]
      /\ UNCHANGED delivered

\* The n oldest packets come out.
Deliver ==
    \E n \in 1..Len(queue) :
      /\ delivered' = delivered \o SubSeq(queue, 1, n)
      /\ queue' = SubSeq(queue, n + 1, Len(queue))
      /\ UNCHANGED accepted

\* The n oldest packets are lost.
Lose ==
    \E n \in 1..Len(queue) :
      /\ queue' = SubSeq(queue, n + 1, Len(queue))
      /\ UNCHANGED <<accepted, delivered>>

PipeNext == Accept \/ Deliver \/ Lose

PipeSpec == PipeInit /\ [][PipeNext]_pipeVars

-----------------------------------------------------------------------------
PipeTypeOK ==
    /\ accepted \in Nat
    /\ queue \in Seq(1..accepted)
    /\ delivered \in Seq(1..accepted)

Increasing(s) == \A i, j \in 1..Len(s) : i < j => s[i] < s[j]

\* No packet comes out twice, and none overtakes an older one.
InOrder == Increasing(delivered)

\* What makes InOrder inductive: the queue is in order too, behind everything
\* that was delivered.
PipeInv ==
    /\ PipeTypeOK
    /\ InOrder
    /\ Increasing(queue)
    /\ \A i \in 1..Len(delivered), j \in 1..Len(queue) : delivered[i] < queue[j]
=============================================================================
