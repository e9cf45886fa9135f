------------------------- MODULE Hex27AreaVectorsSpec -------------------------
(***************************************************************************)
(* What Hex27SCS::weighted_area_vectors promises, from spec 4.4 and not  *)
(* from the code: the sub-control-surface ips come direction by direction *)
(* (all of the first direction, then the second, then the third; the      *)
(* header names the order U, T, S), and the area vector of ip is the      *)
(* cross product of the two columns of its local Jacobian transverse to   *)
(* its direction, scaled by its quadrature weight. The orientation of the *)
(* pair is a convention of the element the spec does not fix, so either   *)
(* order is accepted. Each ip is set once. ipInfo_[ip].direction is the   *)
(* constructor's record of the direction; when it disagrees with the      *)
(* layout, the only other outcome allowed is a thrown assertion.          *)
(*                                                                         *)
(* The local Jacobian of ip is abstracted to an integer matrix             *)
(* IpJacobian[ip][r][c] = dx_r / dxi_c.                                    *)
(***************************************************************************)
EXTENDS Integers

CONSTANTS
  IpsPerDirection,   \* numScsIp_ / nDim_ (72 for Hex27)
  IpJacobian,        \* ip -> row -> column -> Int
  IpWeight,          \* ipInfo_[ip].weight
  Layouts            \* the ipInfo_[ip].direction assignments considered

(* Jacobian::Direction, used as the column index of the reference          *)
(* gradient weights.                                                       *)
S_DIRECTION == 0
T_DIRECTION == 1
U_DIRECTION == 2
Directions == {S_DIRECTION, T_DIRECTION, U_DIRECTION}

NumScsIp == 3 * IpsPerDirection
Ips == 0 .. NumScsIp - 1
NoVec == <<>>

(* The direction of ip by its position: the first IpsPerDirection ips     *)
(* cross U, the next T, the last S.                                        *)
DirectionOf(ip) ==
  CASE ip < IpsPerDirection -> U_DIRECTION
    [] ip < 2 * IpsPerDirection -> T_DIRECTION
    [] OTHER -> S_DIRECTION

OrderedLayout == [ip \in Ips |-> DirectionOf(ip)]

Column(ip, c) == [r \in 0 .. 2 |-> IpJacobian[ip][r][c]]
CrossProduct(a, b) ==
  [r \in 0 .. 2 |-> a[(r + 1) % 3] * b[(r + 2) % 3] - a[(r + 2) % 3] * b[(r + 1) % 3]]

(* The weighted area vectors ip may hold: w times the cross product of the *)
(* two transverse columns, taken in either order.                          *)
Expected(ip) ==
  LET d  == DirectionOf(ip)
      tr == Directions \ {d}
      a  == CHOOSE c \in tr : TRUE
      b  == CHOOSE c \in tr : c # a
      v  == CrossProduct(Column(ip, a), Column(ip, b))
  IN { [r \in 0 .. 2 |-> sgn * IpWeight[ip] * v[r]] : sgn \in {1, -1} }

VARIABLES
  ipDir,    \* ipInfo_[ip].direction
  status,   \* "computing", "done" or "threw"
  out       \* ip -> its final weighted area vector, or NoVec while not yet final

Init ==
  /\ ipDir \in Layouts
  /\ status = "computing"
  /\ out = [ip \in Ips |-> NoVec]

(* One ip receives its final value; the last one completes the output.    *)
Finalize(ip) ==
  /\ status = "computing"
  /\ out[ip] = NoVec
  /\ \E v \in Expected(ip) : out' = [out EXCEPT ![ip] = v]
  /\ status' = IF \A i \in Ips \ {ip} : out[i] # NoVec THEN "done" ELSE "computing"
  /\ UNCHANGED ipDir

(* An ipInfo_ that disagrees with the layout may be refused.              *)
Refuse ==
  /\ status = "computing"
  /\ ipDir # OrderedLayout
  /\ status' = "threw"
  /\ UNCHANGED <<ipDir, out>>

Next == (\E ip \in Ips : Finalize(ip)) \/ Refuse

Spec == Init /\ [][Next]_<<ipDir, status, out>>

=============================================================================
