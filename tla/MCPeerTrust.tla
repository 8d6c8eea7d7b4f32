---------------------------- MODULE MCPeerTrust -----------------------------
(* Small instances of PeerTrust for TLC. *)
EXTENDS PeerTrust

CONSTANTS k1, k2, k3

=============================================================================
