---------------------------- MODULE P2Topology ----------------------------
(***************************************************************************)
(* The topology descriptors of the quadratic master elements:              *)
(* stkNodeMap_ and sideNodeOrdinals_ of HexahedralP2Element                *)
(* (Hex27CVFEM.h) and QuadrilateralP2Element (Quad92DCVFEM.h).             *)
(*                                                                         *)
(* The state is one lookup a face operation makes: side_node_ordinals of   *)
(* a side of an element whose nodes sit at x = A * xi, for a non-inverted  *)
(* integer affine map A. The properties compare what the tables return     *)
(* with a reference built from the tensor-product node map alone: the      *)
(* nodes of a face are the nodes with one tensor index at its end value;   *)
(* a face lists its corners so that their loop's normal points out of the  *)
(* element, then each edge midpoint after the corner it starts from, then  *)
(* (Hex27) the face centre.                                                *)
(***************************************************************************)
EXTENDS Integers, Sequences, FiniteSets

CONSTANTS
  Entries   \* the integers allowed in the affine maps A

-----------------------------------------------------------------------------
(* Tables of the source, 0-based as in C++: Hex27StkNodeMap[k][j][i] is    *)
(* stkNodeMap_[k][j][i], Hex27SideNodeOrdinals[s] is sideNodeOrdinals_[s]. *)
Row(s) == [i \in 0 .. Len(s) - 1 |-> s[i + 1]]

Hex27StkNodeMap ==
  Row(<< Row(<< Row(<<0, 8, 1>>), Row(<<11, 21, 9>>), Row(<<3, 10, 2>>) >>),
         Row(<< Row(<<12, 25, 13>>), Row(<<23, 20, 24>>), Row(<<15, 26, 14>>) >>),
         Row(<< Row(<<4, 16, 5>>), Row(<<19, 22, 17>>), Row(<<7, 18, 6>>) >>) >>)

Hex27SideNodeOrdinals ==
  Row(<< Row(<<0, 1, 5, 4, 8, 13, 16, 12, 25>>),
         Row(<<1, 2, 6, 5, 9, 14, 17, 13, 24>>),
         Row(<<2, 3, 7, 6, 10, 15, 18, 14, 26>>),
         Row(<<0, 4, 7, 3, 12, 19, 15, 11, 23>>),
         Row(<<0, 3, 2, 1, 11, 10, 9, 8, 21>>),
         Row(<<4, 5, 6, 7, 16, 17, 18, 19, 22>>) >>)

Quad92StkNodeMap ==
  Row(<< Row(<<0, 4, 1>>), Row(<<7, 8, 5>>), Row(<<3, 6, 2>>) >>)

(* sideNodeOrdinals_[12]: three entries per side.                          *)
Quad92SideNodeOrdinalsFlat == Row(<<0, 1, 4, 1, 2, 5, 2, 3, 6, 3, 0, 7>>)

(* side_node_ordinals(side) of Quad92DSCS: &sideNodeOrdinals_[3 * side].   *)
Quad92SideNodeOrdinals(s) == [m \in 0 .. 2 |-> Quad92SideNodeOrdinalsFlat[3 * s + m]]

(* Mutants of the Hex27 side table: two corners of side 3 exchanged; node *)
(* 13 of side 1 written 14; the centre of side 5 written 27, the node     *)
(* count, instead of 22.                                                   *)
Hex27SideCornersSwapped(s) ==
  IF s = 3 THEN Row(<<0, 3, 7, 4, 12, 19, 15, 11, 23>>) ELSE Hex27SideNodeOrdinals[s]
Hex27SideWrongNode(s) ==
  IF s = 1 THEN Row(<<1, 2, 6, 5, 9, 14, 17, 14, 24>>) ELSE Hex27SideNodeOrdinals[s]
Hex27SideCentreIsCount(s) ==
  IF s = 5 THEN Row(<<4, 5, 6, 7, 16, 17, 18, 19, 27>>) ELSE Hex27SideNodeOrdinals[s]

(* side_node_ordinals(side) of Hex27SCS: &sideNodeOrdinals_[side][0].      *)
Hex27SideNodes(s) == Hex27SideNodeOrdinals[s]

-----------------------------------------------------------------------------
(* Reference: parametric position of a node from the tensor-product map,  *)
(* node (i, j, k) at xi = (i - 1, j - 1, k - 1).                           *)
Hex27Xi ==
  [n \in 0 .. 26 |-> CHOOSE xi \in [0 .. 2 -> -1 .. 1] :
                       Hex27StkNodeMap[xi[2] + 1][xi[1] + 1][xi[0] + 1] = n]
Quad92Xi ==
  [n \in 0 .. 8 |-> CHOOSE xi \in [0 .. 1 -> -1 .. 1] :
                      Quad92StkNodeMap[xi[1] + 1][xi[0] + 1] = n]

Dot(u, v) == LET S[c \in 0 .. Cardinality(DOMAIN u)] ==
                   IF c = 0 THEN 0 ELSE S[c - 1] + u[c - 1] * v[c - 1]
             IN S[Cardinality(DOMAIN u)]
MatVec(A, v) == [r \in DOMAIN v |-> Dot(A[r], v)]
Sub(u, v) == [r \in DOMAIN u |-> u[r] - v[r]]
Cross(u, v) == [r \in 0 .. 2 |-> u[(r + 1) % 3] * v[(r + 2) % 3] - u[(r + 2) % 3] * v[(r + 1) % 3]]
Det2(A) == A[0][0] * A[1][1] - A[0][1] * A[1][0]
Det3(A) == Dot(A[0], Cross(A[1], A[2]))

(* The inputs: every integer affine map with entries in Entries that does  *)
(* not invert the element (positive Jacobian determinant, spec 4.4).       *)
Maps3 == {A \in [0 .. 2 -> [0 .. 2 -> Entries]] : Det3(A) > 0}
Maps2 == {A \in [0 .. 1 -> [0 .. 1 -> Entries]] : Det2(A) > 0}

VARIABLES
  elem,   \* "hex27" or "quad92"
  map,    \* the affine map A of the element's nodal coordinates
  side    \* the side ordinal looked up

vars == <<elem, map, side>>

(* The nodes side_node_ordinals returns for the current lookup, and their  *)
(* physical coordinates.                                                   *)
Nodes == IF elem = "hex27" THEN Hex27SideNodes(side) ELSE Quad92SideNodeOrdinals(side)
Xi(n) == IF elem = "hex27" THEN Hex27Xi[n] ELSE Quad92Xi[n]
X(n) == MatVec(map, Xi(n))
NumCorners == IF elem = "hex27" THEN 4 ELSE 2
NumMids == IF elem = "hex27" THEN 4 ELSE 1
NodeCount == IF elem = "hex27" THEN 27 ELSE 9

(* An element of either kind whose nodes are at x = A * xi; the tables    *)
(* are constant, so a lookup depends only on the element and the side.     *)
Init ==
  /\ \/ elem = "hex27" /\ map \in Maps3
     \/ elem = "quad92" /\ map \in Maps2
  /\ side = 0

(* Hex27SCS::side_node_ordinals(sideOrdinal).                              *)
Hex27SideLookup(s) ==
  /\ elem = "hex27" /\ side' = s /\ UNCHANGED <<elem, map>>

(* Quad92DSCS::side_node_ordinals(sideOrdinal).                            *)
Quad92SideLookup(s) ==
  /\ elem = "quad92" /\ side' = s /\ UNCHANGED <<elem, map>>

Next ==
  \/ \E s \in 0 .. 5 : Hex27SideLookup(s)
  \/ \E s \in 0 .. 3 : Quad92SideLookup(s)

Spec == Init /\ [][Next]_vars

-----------------------------------------------------------------------------
TypeOK ==
  /\ elem \in {"hex27", "quad92"}
  /\ side \in (IF elem = "hex27" THEN 0 .. 5 ELSE 0 .. 3)
  /\ map \in [DOMAIN Xi(0) -> [DOMAIN Xi(0) -> Entries]]
  /\ \A m \in DOMAIN Nodes : Nodes[m] \in 0 .. NodeCount - 1

(* The nodes a side lists are exactly the nodes of one face of the tensor  *)
(* product element, each once (one tensor index at -1 or +1 for all).      *)
SideNodesFormFace ==
  /\ Cardinality({Nodes[m] : m \in DOMAIN Nodes}) = Cardinality(DOMAIN Nodes)
  /\ \E d \in DOMAIN Xi(0), e \in {-1, 1} :
       {Nodes[m] : m \in DOMAIN Nodes} = {n \in 0 .. NodeCount - 1 : Xi(n)[d] = e}

(* Side ordering: the corner loop is counter-clockwise seen from outside   *)
(* (its normal, for any non-inverted element, points away from the        *)
(* element centre); node NumCorners + m is the midpoint of corners m and   *)
(* m + 1 (a Quad92 side has one, a Hex27 side four); the Hex27 face        *)
(* centre comes last.                                                      *)
SideNodesOrdered ==
  LET c(m)    == X(Nodes[m])
      centre  == LET S[q \in 0 .. NumCorners] ==
                       IF q = 0 THEN [r \in DOMAIN c(0) |-> 0]
                       ELSE [r \in DOMAIN c(0) |-> S[q - 1][r] + c(q - 1)[r]]
                 IN S[NumCorners]           \* NumCorners x the face centre
      normal  == IF elem = "hex27" THEN Cross(Sub(c(1), c(0)), Sub(c(3), c(0)))
                 ELSE LET t == Sub(c(1), c(0)) IN [r \in 0 .. 1 |-> IF r = 0 THEN t[1] ELSE -t[0]]
  IN /\ Dot(normal, centre) > 0
     /\ \A m \in 0 .. NumMids - 1 :
          [r \in DOMAIN c(0) |-> 2 * c(NumCorners + m)[r]]
            = [r \in DOMAIN c(0) |-> c(m)[r] + c((m + 1) % NumCorners)[r]]
     /\ elem = "hex27" => [r \in 0 .. 2 |-> 4 * c(8)[r]] = centre

=============================================================================
