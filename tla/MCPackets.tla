----------------------------- MODULE MCPackets -----------------------------
(* Instance of Packets for TLC: names of up to one byte more than ResBuff, *)
(* and words around the borders of their bytes.                            *)
EXTENDS Packets

MCStates == {0, 5}
MCWords == {0, 255, 65536, 305419896, 2147483647}
MCNames == UNION {[1 .. n -> {97, 255}] : n \in 0 .. ResBuff + 1}
=============================================================================
