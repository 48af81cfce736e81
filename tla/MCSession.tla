----------------------------- MODULE MCSession -----------------------------
(* Small instances of Session for TLC; all constants come from the cfg.    *)
EXTENDS Session
=============================================================================
