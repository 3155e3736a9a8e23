----------------------------- MODULE MCCertStore -----------------------------
(* CertStore with small numbers of relays and pairs, for TLC.              *)
EXTENDS CertStore
=============================================================================
