----------------------------- MODULE MCPeerInbox -----------------------------
(* Instances of PeerInbox for TLC. *)
EXTENDS PeerInbox
=============================================================================
