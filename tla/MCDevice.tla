----------------------------- MODULE MCDevice -----------------------------
(* Two processes on one data directory.                                    *)
EXTENDS Device

CONSTANTS p1, p2, i1, i2, chosenPort

MCProcs == {p1, p2}
MCIds == {i1, i2}
MCPorts == {DefaultPort, chosenPort}

=============================================================================
