----------------------------- MODULE MCDiscovery -----------------------------
(* Discovery with one exit node and two relays, for TLC.                   *)
EXTENDS Discovery
=============================================================================
