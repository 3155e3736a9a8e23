---------------------------- MODULE MCEntryConn ----------------------------
(* EntryConn for TLC.                                                      *)
EXTENDS EntryConn, TLC
=============================================================================
