------------------------- MODULE MCHex27WeightViews -------------------------
EXTENDS Hex27WeightViews

(* Two ips: the ip loop carries once, so every carry of the nest (d into  *)
(* n, n into ip, ip out of the loop) happens. The node count is the       *)
(* element's own, 27, which the copy loops write as a literal.            *)
MCNumIps == 2
MCArrayIps == 2
MCNodesPerElement == 27

=============================================================================
