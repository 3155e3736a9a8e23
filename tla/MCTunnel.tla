------------------------------ MODULE MCTunnel ------------------------------
(* Both nodes, small instances.                                            *)
EXTENDS Tunnel
=============================================================================
