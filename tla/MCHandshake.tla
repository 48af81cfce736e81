---------------------------- MODULE MCHandshake ----------------------------
(* Small instances of Handshake for TLC; all constants come from the cfg.  *)
EXTENDS Handshake
=============================================================================
