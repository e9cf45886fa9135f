------------------------- MODULE MCHex27AreaVectors -------------------------
EXTENDS Hex27AreaVectors

(* Two ips per direction: every direction range has a first and a last    *)
(* ip, and the ranges have boundaries on both sides.                       *)
MCIpsPerDirection == 2

(* A local Jacobian per ip whose three columns are independent and differ *)
(* from ip to ip, so every pair of columns, in either order, has its own   *)
(* cross product.                                                          *)
MCIpJacobian ==
  [i \in 0 .. 5 |-> [r \in 0 .. 2 |-> [c \in 0 .. 2 |->
     IF r = c THEN i + 2 ELSE ((r + 2 * c + i) % 3) - 1]]]

(* Weights differ from 1 and between neighbouring ips.                     *)
MCIpWeight == [i \in 0 .. 5 |-> 2 + (i % 2)]

(* Every assignment of directions to the six ips.                          *)
MCLayouts == [0 .. 5 -> {S_DIRECTION, T_DIRECTION, U_DIRECTION}]

=============================================================================
