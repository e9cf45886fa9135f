--------------------------- MODULE Hex27AreaVectors ---------------------------
(***************************************************************************)
(* Hex27SCS::weighted_area_vectors and area_vector<direction>              *)
(* (Hex27CVFEM.h) as the loops they are: three loops over the ips of the   *)
(* U, T and S ranges, each checking ipInfo_[ip].direction with ThrowAssert *)
(* and writing the unweighted area vector of ip, then a loop scaling       *)
(* areav(ip, .) in place by ipInfo_[ip].weight. ThrowAssert is compiled    *)
(* in debug builds only.                                                   *)
(*                                                                         *)
(* The sub-Jacobian sums over the 27 nodes (sjac[r][k] += dn_dsk *         *)
(* coords(n, r)) give column s1Component / s2Component of the local        *)
(* Jacobian of ip; they are abstracted to that column of IpJacobian[ip].   *)
(***************************************************************************)
EXTENDS Integers

CONSTANTS
  IpsPerDirection,   \* AlgTraits::numScsIp_ / AlgTraits::nDim_
  IpJacobian,        \* ip -> row -> column -> Int
  IpWeight,          \* ipInfo_[ip].weight
  Layouts            \* the ipInfo_[ip].direction assignments considered

S_DIRECTION == 0
T_DIRECTION == 1
U_DIRECTION == 2

NumScsIp == 3 * IpsPerDirection       \* AlgTraits::numScsIp_
Ips == 0 .. NumScsIp - 1
NoVec == <<>>

VARIABLES
  ipDir,   \* ipInfo_[ip].direction, set by the constructor
  debug,   \* whether ThrowAssert is compiled in
  pc,      \* "area" (the three direction loops), "weight", "done", "threw"
  ip,      \* the loop index
  areav    \* the output view: ip -> vector

vars == <<ipDir, debug, pc, ip, areav>>

-----------------------------------------------------------------------------
(* The direction template argument of the loop ip i is in:                *)
(* [0, t_start) U, [t_start, s_start) T, [s_start, numScsIp_) S, with      *)
(* t_start = ipsPerDirection and s_start = 2 * ipsPerDirection.           *)
LoopDirection(i) ==
  IF i < IpsPerDirection THEN U_DIRECTION
  ELSE IF i < 2 * IpsPerDirection THEN T_DIRECTION ELSE S_DIRECTION

(* Mutant: s2Component chosen by T_DIRECTION instead of U_DIRECTION.       *)
AreaVectorS2Swapped(i, dir) ==
  LET s1 == IF dir = T_DIRECTION THEN S_DIRECTION ELSE T_DIRECTION
      s2 == IF dir = T_DIRECTION THEN S_DIRECTION ELSE U_DIRECTION
      a  == [r \in 0 .. 2 |-> IpJacobian[i][r][s1]]
      b  == [r \in 0 .. 2 |-> IpJacobian[i][r][s2]]
  IN [d \in 0 .. 2 |-> a[(d + 1) % 3] * b[(d + 2) % 3] - a[(d + 2) % 3] * b[(d + 1) % 3]]

(* area_vector<dir>(ip, ...): sjac columns s1Component and s2Component,   *)
(* areav(ip, .) = their cross product.                                     *)
AreaVector(i, dir) ==
  LET s1 == IF dir = T_DIRECTION THEN S_DIRECTION ELSE T_DIRECTION
      s2 == IF dir = U_DIRECTION THEN S_DIRECTION ELSE U_DIRECTION
      a  == [r \in 0 .. 2 |-> IpJacobian[i][r][s1]]
      b  == [r \in 0 .. 2 |-> IpJacobian[i][r][s2]]
  IN [d \in 0 .. 2 |-> a[(d + 1) % 3] * b[(d + 2) % 3] - a[(d + 2) % 3] * b[(d + 1) % 3]]

(* Mutant of ++ip: two ips per iteration.                                  *)
AdvanceTwo(i) == i + 2

(* ++ip of the four loops.                                                 *)
Advance(i) == i + 1

(* The weighting loop runs to the literal 216, which is numScsIp_ for      *)
(* Hex27 (3 x 72); the model keeps it equal to NumScsIp.                  *)
WeightLoopEnd == NumScsIp

Init ==
  /\ debug \in BOOLEAN
  /\ ipDir \in Layouts
  /\ pc = "area"
  /\ ip = 0
  /\ areav = [i \in Ips |-> NoVec]

(* One iteration of the direction loops: ThrowAssert(ipInfo_[ip].direction *)
(* == dir), then area_vector<dir>; after the last ip the weighting loop    *)
(* starts.                                                                 *)
AreaVectorStep ==
  /\ pc = "area"
  /\ IF debug /\ ipDir[ip] # LoopDirection(ip)
     THEN /\ pc' = "threw"
          /\ UNCHANGED <<ip, areav>>
     ELSE /\ areav' = [areav EXCEPT ![ip] = AreaVector(ip, LoopDirection(ip))]
          /\ IF ip + 1 = NumScsIp
             THEN pc' = "weight" /\ ip' = 0
             ELSE pc' = "area" /\ ip' = Advance(ip)
  /\ UNCHANGED <<ipDir, debug>>

(* One iteration of the weighting loop: areav(ip, d) *= ipInfo_[ip].weight. *)
WeightStep ==
  /\ pc = "weight"
  /\ areav' = [areav EXCEPT ![ip] = [d \in 0 .. 2 |-> IpWeight[ip] * areav[ip][d]]]
  /\ IF ip + 1 = WeightLoopEnd
     THEN pc' = "done" /\ ip' = ip
     ELSE pc' = "weight" /\ ip' = Advance(ip)
  /\ UNCHANGED <<ipDir, debug>>

Next == AreaVectorStep \/ WeightStep

Spec == Init /\ [][Next]_vars

-----------------------------------------------------------------------------
TypeOK ==
  /\ debug \in BOOLEAN
  /\ pc \in {"area", "weight", "done", "threw"}
  /\ ip \in Ips
  /\ areav \in [Ips -> {NoVec} \cup [0 .. 2 -> Int]]

(* The abstract output: an ip's value is final once it has been weighted. *)
Weighted(i) == pc = "done" \/ (pc = "weight" /\ i < ip)
AbsStatus == CASE pc \in {"area", "weight"} -> "computing"
               [] pc = "done" -> "done"
               [] pc = "threw" -> "threw"
AbsOut == [i \in Ips |-> IF Weighted(i) THEN areav[i] ELSE NoVec]

Abs == INSTANCE Hex27AreaVectorsSpec WITH status <- AbsStatus, out <- AbsOut

(* weighted_area_vectors implements its promise in debug and release     *)
(* builds alike: once the weighting loop has passed an ip, it holds the    *)
(* weighted cross product of the two Jacobian columns transverse to the   *)
(* direction its position gives it, each ip is final once, and a          *)
(* disagreeing ipInfo_ can at most make the ThrowAssert of the direction   *)
(* loops fire.                                                             *)
AreaVectorsRefined == Abs!Spec

=============================================================================
