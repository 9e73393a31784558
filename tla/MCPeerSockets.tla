---------------------------- MODULE MCPeerSockets ----------------------------
(* Small instances of PeerSockets for TLC.                                 *)
EXTENDS PeerSockets, TLC

\* Connections of one device are only ever compared for equality.
Symmetry == Permutations(HostConn) \cup Permutations(GuestConn)
=============================================================================
