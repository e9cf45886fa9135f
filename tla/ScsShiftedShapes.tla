--------------------------- MODULE ScsShiftedShapes ---------------------------
(***************************************************************************)
(* The shifted integration points of the quadratic elements Edge32DSCS    *)
(* (Edge32DCVFEM.h), Quad93DSCS (Quad93DCVFEM.h) and HexahedralP2Element   *)
(* (Hex27CVFEM.h), and the shape functions evaluated at them               *)
(* (shapeFunctionsShift_, filled by eval_shape_functions_at_shifted_ips    *)
(* and read back by shifted_shape_fcn).                                    *)
(*                                                                         *)
(* Each line of the element is cut at scsEndLoc_ into one sub-control      *)
(* volume per node, with numQuad_ Gauss points in each; the shifted scheme *)
(* moves every integration point to a fixed location (intgLocShift_ of     *)
(* Edge32DSCS, the tensor product of gaussAbscissaeShift_ for the quad    *)
(* and the hex).                                                           *)
(* The tables and sizes are transcribed from the headers; the loops that   *)
(* use them (the constructors, quad9_shape_fcn) are not in src/ and are    *)
(* modelled from spec 4.1 and 4.2: one-dimensional quadratic Lagrange    *)
(* bases at the nodes, multiplied out for the quad and the hex, the first *)
(* direction varying fastest.                                              *)
(*                                                                         *)
(* Lengths are in tenths of the parametric unit: scsDist_ = sqrt(3)/3 is  *)
(* taken as 6, which orders it against -1, 0 and 1 as the double does.     *)
(***************************************************************************)
EXTENDS Integers, Sequences

Row(s) == [i \in 0 .. Len(s) - 1 |-> s[i + 1]]

Unit == 10

(* const double scsDist_ = std::sqrt(3.0) / 3.0.                           *)
ScsDist == 6

(* scsEndLoc_[4] = {-1.0, -scsDist_, scsDist_, 1.0}, the same in the three *)
(* headers.                                                                *)
ScsEndLoc == Row(<<-Unit, -ScsDist, ScsDist, Unit>>)

(* numQuad_ = 2 and nodes1D_ = 3 of the three elements.                   *)
NumQuad == 2
Nodes1D == 3

(* Mutant: the middle two shifted points of Edge32DSCS written 1.0, 0.0.   *)
Edge32IntgLocShiftTypo == Row(<<-Unit, -Unit, Unit, 0, Unit, Unit>>)

(* Edge32DSCS::intgLocShift_[numIntPoints_] = {-1, -1, 0, 0, 1, 1}.        *)
Edge32IntgLocShift == Row(<<-Unit, -Unit, 0, 0, Unit, Unit>>)

(* Quad93DSCS::gaussAbscissaeShift_[6] = {-1, -1, 0, 0, 1, 1}.             *)
Quad93GaussAbscissaeShift == Row(<<-Unit, -Unit, 0, 0, Unit, Unit>>)

(* HexahedralP2Element::gaussAbscissaeShift_[6] = {-1, -1, 0, 0, 1, 1}.    *)
Hex27GaussAbscissaeShift == Row(<<-Unit, -Unit, 0, 0, Unit, Unit>>)

(* Edge3 nodes: the two ends, then the midpoint, the order in which        *)
(* Quad92DSCS::sideNodeOrdinals_ lists the nodes of a side.                 *)
Edge3NodeLoc == Row(<<<<-Unit>>, <<Unit>>, <<0>>>>)

(* The quad9 node order of stkNodeMap_ (Quad92DCVFEM.h): node             *)
(* Quad9StkNodeMap[j][i] sits at ((i - 1), (j - 1)).                       *)
Quad9StkNodeMap == Row(<< Row(<<0, 4, 1>>), Row(<<7, 8, 5>>), Row(<<3, 6, 2>>) >>)

Quad9NodeLoc ==
  [n \in 0 .. 8 |->
     LET ij == CHOOSE ij \in (0 .. 2) \X (0 .. 2) : Quad9StkNodeMap[ij[2]][ij[1]] = n
     IN <<(ij[1] - 1) * Unit, (ij[2] - 1) * Unit>>]

(* HexahedralP2Element::stkNodeMap_: node Hex27StkNodeMap[k][j][i] sits   *)
(* at ((i - 1), (j - 1), (k - 1)).                                         *)
Hex27StkNodeMap ==
  Row(<< Row(<< Row(<<0, 8, 1>>), Row(<<11, 21, 9>>), Row(<<3, 10, 2>>) >>),
         Row(<< Row(<<12, 25, 13>>), Row(<<23, 20, 24>>), Row(<<15, 26, 14>>) >>),
         Row(<< Row(<<4, 16, 5>>), Row(<<19, 22, 17>>), Row(<<7, 18, 6>>) >>) >>)

Hex27NodeLoc ==
  [n \in 0 .. 26 |->
     LET ijk == CHOOSE ijk \in (0 .. 2) \X (0 .. 2) \X (0 .. 2) :
                  Hex27StkNodeMap[ijk[3]][ijk[2]][ijk[1]] = n
     IN [d \in 1 .. 3 |-> (ijk[d] - 1) * Unit]]

Elements == {"edge32", "quad93", "hex27"}

(* nDim_ of AlgTraits: 1 (the edge), 2 and 3.                             *)
Dim(e) == CASE e = "edge32" -> 1 [] e = "quad93" -> 2 [] e = "hex27" -> 3

(* numIntPoints_: Edge32 numScsIp_ = 6, one per Gauss point of each        *)
(* sub-control volume; Quad93 numScsIp_ = 36 and Hex27 216, their tensor    *)
(* products.                                                               *)
NumIntPoints(e) == (Nodes1D * NumQuad) ^ Dim(e)

NodesPerElement(e) == Nodes1D ^ Dim(e)

NodeLoc(e, n) ==
  CASE e = "edge32" -> Edge3NodeLoc[n]
    [] e = "quad93" -> Quad9NodeLoc[n]
    [] e = "hex27"  -> Hex27NodeLoc[n]

(* The one-dimensional Gauss-point index of ip along each direction.       *)
LineIndex(e, ip) ==
  [d \in 1 .. Dim(e) |-> (ip \div ((Nodes1D * NumQuad) ^ (d - 1))) % (Nodes1D * NumQuad)]

(* The shifted location of ip: intgLocShift_ of Edge32DSCS, and            *)
(* gaussAbscissaeShift_ along each direction for the quad and the hex.     *)
ShiftLoc(e, ip) ==
  CASE e = "edge32" -> <<Edge32IntgLocShift[ip]>>
    [] e = "quad93" -> [d \in 1 .. 2 |-> Quad93GaussAbscissaeShift[LineIndex(e, ip)[d]]]
    [] e = "hex27"  -> [d \in 1 .. 3 |-> Hex27GaussAbscissaeShift[LineIndex(e, ip)[d]]]

(* The quadratic Lagrange basis of the node at m, at x, as a fraction      *)
(* <<numerator, denominator>>.                                             *)
Lagrange(m, x) ==
  LET others == {-Unit, 0, Unit} \ {m}
      a == CHOOSE o \in others : TRUE
      b == CHOOSE o \in others : o # a
  IN <<(x - a) * (x - b), (m - a) * (m - b)>>

(* hex27_shape_fcn, quad9_shape_fcn and the quadratic edge basis: the     *)
(* product of the one-dimensional bases of the node's coordinates.         *)
ShapeFcn(e, n, x) ==
  LET f(d) == Lagrange(NodeLoc(e, n)[d], x[d])
      RECURSIVE Prod(_)
      Prod(d) == IF d = 0 THEN <<1, 1>>
                 ELSE <<Prod(d - 1)[1] * f(d)[1], Prod(d - 1)[2] * f(d)[2]>>
  IN Prod(Dim(e))

(* shapeFunctionsShift_[numIntPoints_ * nodesPerElement_], taken ip-major, *)
(* the layout of the other flat weight arrays of these elements.          *)
FlatIndex(e, ip, n) == ip * NodesPerElement(e) + n

VARIABLES
  elem,   \* the element whose shifted shape functions are evaluated
  k,      \* the entry of the loop over ip, then n
  shape,  \* shapeFunctionsShift_: flat index -> fraction
  pc      \* "eval", "done"

vars == <<elem, k, shape, pc>>

Size(e) == NumIntPoints(e) * NodesPerElement(e)

(* The loops over ip < numIntPoints_ and n < nodesPerElement_, taken as    *)
(* one loop over the flat entries.                                         *)
LoopEnd(e) == Size(e)

Init ==
  /\ elem \in Elements
  /\ k = 0
  /\ shape = [i \in 0 .. Size(elem) - 1 |-> <<0, 1>>]
  /\ pc = "eval"

(* One entry of eval_shape_functions_at_shifted_ips: the shape function of *)
(* node n at shifted point ip.                                             *)
EvalStep ==
  LET ip == k \div NodesPerElement(elem)
      n  == k % NodesPerElement(elem)
  IN
  /\ pc = "eval"
  /\ shape' = [shape EXCEPT ![FlatIndex(elem, ip, n)] = ShapeFcn(elem, n, ShiftLoc(elem, ip))]
  /\ k' = IF k + 1 < LoopEnd(elem) THEN k + 1 ELSE k
  /\ pc' = IF k + 1 < LoopEnd(elem) THEN "eval" ELSE "done"
  /\ UNCHANGED elem

Next == EvalStep

Spec == Init /\ [][Next]_vars

-----------------------------------------------------------------------------
(* shifted_shape_fcn copies shapeFunctionsShift_ into the view shpfc,     *)
(* shpfc(ip, n) from entry ip * nodesPerElement_ + n.                      *)
ShpfcOffset(e, ip, n) == ip * NodesPerElement(e) + n

Shpfc(ip, n) == shape[ShpfcOffset(elem, ip, n)]

(* The sub-control volume ip belongs to holds the parametric points whose  *)
(* coordinate along each direction lies between the scsEndLoc_ of its     *)
(* Gauss point's segment.                                                  *)
InOwnVolume(e, ip, x) ==
  \A d \in DOMAIN x :
    LET s == LineIndex(e, ip)[d] \div NumQuad IN
    ScsEndLoc[s] <= x[d] /\ x[d] <= ScsEndLoc[s + 1]

(* Once evaluated, the shifted shape functions at every shifted point are  *)
(* those of a node: 1 for exactly one node, 0 for every other, and that    *)
(* node lies in the sub-control volume the point was shifted from. The     *)
(* shifted scheme then takes, at each of its integration points, the      *)
(* value of the node that owns it, as spec 4.1 intends ("shift" locations *)
(* at element ends and midpoints).                                         *)
ShiftedShapesNodal ==
  pc = "done" =>
    \A ip \in 0 .. NumIntPoints(elem) - 1 :
      \E own \in 0 .. NodesPerElement(elem) - 1 :
        /\ InOwnVolume(elem, ip, NodeLoc(elem, own))
        /\ \A n \in 0 .. NodesPerElement(elem) - 1 :
             LET f == Shpfc(ip, n) IN
             IF n = own THEN f[1] = f[2] ELSE f[1] = 0

=============================================================================
