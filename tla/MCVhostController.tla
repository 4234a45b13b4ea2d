------------------------- MODULE MCVhostController -------------------------
(***************************************************************************)
(* Instances of VhostController for TLC.                                   *)
(***************************************************************************)
EXTENDS VhostController, TLC

\* Mbufs are only compared and moved, so they are interchangeable.
MbufSymmetry == Permutations(Mbufs)
=============================================================================
