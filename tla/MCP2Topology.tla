--------------------------- MODULE MCP2Topology ---------------------------
EXTENDS P2Topology

(* Every integer affine map with entries -1, 0, 1: rotations, reflections *)
(* composed to keep orientation, shears and singular-free skews.           *)
MCEntries == -1 .. 1

=============================================================================
