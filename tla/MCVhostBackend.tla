--------------------------- MODULE MCVhostBackend ---------------------------
(***************************************************************************)
(* Instances of VhostBackend for TLC.                                      *)
(***************************************************************************)
EXTENDS VhostBackend

\* Frames in two pieces: one that fills the buffer to the last byte but one,
\* one that is a byte too long, and one with a descriptor the code refuses.
SomeChains == {<<1, 1>>, <<1, 2>>, <<1>>}
BadChains  == Chains \cap {<<1>>}

\* Chains that are all good, for the runs that are about the rings.
GoodChains == {<<1, 1>>}
=============================================================================
