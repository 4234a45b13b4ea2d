---------------------------- MODULE MCPcapBackend ----------------------------
(***************************************************************************)
(* An instance of PcapBackend for TLC: one chain, that fits the buffer.    *)
(***************************************************************************)
EXTENDS PcapBackend

GoodChains == {<<1>>}
BadChains  == {}
=============================================================================
