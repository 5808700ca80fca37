------------------------------ MODULE MCPeerSta ------------------------------
(* One peer with two buffers, one raw packet of the host, and three slots, so  *)
(* that all of them are taken and the last one is reached.                     *)
EXTENDS PeerSta, TLC

CONSTANTS s1, b1, b2, r

MCPool == (s1 :> {b1, b2})
=============================================================================
