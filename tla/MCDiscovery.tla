---------------------------- MODULE MCDiscovery ----------------------------
(* Small instances of Discovery: two addresses, two connections.           *)
EXTENDS Discovery

CONSTANTS a1, a2

MCAddrs == {a1, a2}

MCConns == {"c1", "c2"}

(* Everything that may happen.                                             *)
AllTroubles == {"move", "command", "other", "link", "handshake", "stream",
                "session", "notfound", "forged", "dial", "wrongpeer"}
=============================================================================
