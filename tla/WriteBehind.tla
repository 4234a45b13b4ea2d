---------------------------- MODULE WriteBehind ----------------------------
(***************************************************************************)
(* What the Logger promises to those who log: messages are accepted one at *)
(* a time, and what has been written is always the beginning of what was   *)
(* accepted: in order, nothing twice, nothing left out in between.         *)
(***************************************************************************)
EXTENDS Integers, Sequences

CONSTANT Messages
VARIABLES
    accepted,   \* the messages in the order they were accepted
    written     \* what the output shows

wbVars == <<accepted, written>>

WBInit == accepted = <<>> /\ written = <<>>

Accept(m) == accepted' = Append(accepted, m) /\ UNCHANGED written

\* Some more of the accepted messages are written.
Write ==
    \E k \in (Len(written) + 1)..Len(accepted) :
      /\ written' = SubSeq(accepted, 1, k)
      /\ UNCHANGED accepted

WBNext == Write \/ \E m \in Messages : Accept(m)

WBSpec == WBInit /\ [][WBNext]_wbVars
=============================================================================
