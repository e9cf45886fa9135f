-------------------------- MODULE TensorVolumeMetric --------------------------
(***************************************************************************)
(* high_order_metrics::compute_volume_metric_linear                        *)
(* (TensorProductCVFEMVolumeMetric.h): for a hex of order p, take the      *)
(* eight vertices of the element as a base box, and at every node (k, j,   *)
(* i) of the (p+1)^3 tensor grid write the determinant of the Jacobian of  *)
(* the trilinear map of that box, evaluated with the linear interpolation  *)
(* weights of the node.                                                    *)
(*                                                                         *)
(* hex_vertex_coordinates, hex_jacobian, determinant33 and                 *)
(* linearNodalInterp are not in src/; they are modelled from their names   *)
(* and the spec (4.4). Orders 1 and 2 have integer nodes -1, (0,) 1, so    *)
(* the weights (1 -/+ xi) / 2 are kept exact by scaling them by 2; every   *)
(* entry of the Jacobian is then 8 times the true one, and the             *)
(* determinants written to vol 512 times the true ones.                    *)
(***************************************************************************)
EXTENDS Integers

CONSTANTS
  Orders,   \* the template parameter p explored
  Boxes     \* the base boxes explored: hex8 vertex -> coordinate -> Int

LEFT == 0
RIGHT == 1

VARIABLES
  p,      \* the order
  box,    \* base_box: the element's vertices
  pos,    \* <<k, j, i>> of the loop nest
  vol,    \* the output view: <<k, j, i>> -> value
  pc      \* "loop", "done"

vars == <<p, box, pos, vol, pc>>

-----------------------------------------------------------------------------
(* The hex8 vertex with tensor corner (a, b, c) (0: left, 1: right), in    *)
(* the order hex_vertex_coordinates lists the vertices.                    *)
Vertex(a, b, c) == CASE c = 0 /\ b = 0 -> a
                     [] c = 0 /\ b = 1 -> 3 - a
                     [] c = 1 /\ b = 0 -> 4 + a
                     [] c = 1 /\ b = 1 -> 7 - a

(* The parametric coordinate of node m of an order-p line: -1, 1 or        *)
(* -1, 0, 1.                                                               *)
NodeXi(q, m) == (2 * m) \div q - 1

(* nodalInterp(LEFT / RIGHT, m), scaled by 2.                              *)
NodalInterp(side, q, m) == IF side = LEFT THEN 1 - NodeXi(q, m) ELSE 1 + NodeXi(q, m)

Interp(q, m) == [s \in {LEFT, RIGHT} |-> NodalInterp(s, q, m)]

(* hex_jacobian(base_box, interpi, interpj, interpk, jac): column d is the *)
(* derivative along direction d, the edge differences of the box in that   *)
(* direction weighted by the interpolation weights of the other two.       *)
HexJacobian(b, wi, wj, wk) ==
  LET X(a, bb, c) == b[Vertex(a, bb, c)]
      S(g(_, _)) == g(0, 0) + g(0, 1) + g(1, 0) + g(1, 1)
      Col(d, r) ==
        CASE d = 0 -> S(LAMBDA u, v : wj[u] * wk[v] * (X(1, u, v)[r] - X(0, u, v)[r]))
          [] d = 1 -> S(LAMBDA u, v : wi[u] * wk[v] * (X(u, 1, v)[r] - X(u, 0, v)[r]))
          [] d = 2 -> S(LAMBDA u, v : wi[u] * wj[v] * (X(u, v, 1)[r] - X(u, v, 0)[r]))
  IN [r \in 0 .. 2 |-> [d \in 0 .. 2 |-> Col(d, r)]]

(* determinant33(&jac[0][0]).                                              *)
Determinant33(m) ==
    m[0][0] * (m[1][1] * m[2][2] - m[1][2] * m[2][1])
  - m[0][1] * (m[1][0] * m[2][2] - m[1][2] * m[2][0])
  + m[0][2] * (m[1][0] * m[2][1] - m[1][1] * m[2][0])

(* Mutant: hex_jacobian called with interpk and interpi exchanged.         *)
NodeVolumeSwapped(q, b, x) ==
  Determinant33(HexJacobian(b, Interp(q, x[1]), Interp(q, x[2]), Interp(q, x[3])))

(* The body for node x = <<k, j, i>>: interpk, interpj, interpi from       *)
(* nodalInterp, then vol(k, j, i) = determinant33(jac).                    *)
NodeVolume(q, b, x) ==
  Determinant33(HexJacobian(b, Interp(q, x[3]), Interp(q, x[2]), Interp(q, x[1])))

(* Mutant: the loop bound p + 2, one node past the view.                   *)
LoopEndLong(q) == q + 2

(* for (int k = 0; k < p + 1; ++k), and the same for j and i.              *)
LoopEnd(q) == q + 1

(* ++i, carrying into j and k.                                             *)
Advance(x, e) ==
  IF x[3] + 1 < e THEN <<x[1], x[2], x[3] + 1>>
  ELSE IF x[2] + 1 < e THEN <<x[1], x[2] + 1, 0>>
  ELSE <<x[1] + 1, 0, 0>>

NodeIndex(q) == (0 .. q) \X (0 .. q) \X (0 .. q)

Init ==
  /\ p \in Orders
  /\ box \in Boxes
  /\ pos = <<0, 0, 0>>
  /\ vol = [x \in NodeIndex(p) |-> 0]
  /\ pc = "loop"

(* One iteration of the innermost loop.                                    *)
NodeStep ==
  /\ pc = "loop"
  /\ vol' = [vol EXCEPT ![pos] = NodeVolume(p, box, pos)]
  /\ LET nxt == Advance(pos, LoopEnd(p)) IN
       IF nxt[1] < LoopEnd(p)
       THEN pos' = nxt /\ pc' = "loop"
       ELSE pos' = pos /\ pc' = "done"
  /\ UNCHANGED <<p, box>>

Next == NodeStep

Spec == Init /\ [][Next]_vars

-----------------------------------------------------------------------------
(* Reference: 8 x(xi) of the trilinear map of the box, as the weighted sum *)
(* of its vertices, and its Jacobian by differences across the element     *)
(* (exact for a map linear in each coordinate): 16 times the true one.     *)
Map8(b, xi) ==
  LET w(a, t) == IF a = 1 THEN 1 + t ELSE 1 - t
      Corners == {0, 1} \X {0, 1} \X {0, 1}
      RECURSIVE SumOver(_)
      SumOver(cs) ==
        IF cs = {} THEN [r \in 0 .. 2 |-> 0]
        ELSE LET c == CHOOSE c \in cs : TRUE
                 rest == SumOver(cs \ {c})
                 f == w(c[1], xi[0]) * w(c[2], xi[1]) * w(c[3], xi[2])
             IN [r \in 0 .. 2 |-> rest[r] + f * b[Vertex(c[1], c[2], c[3])][r]]
  IN SumOver(Corners)

RefJacobian(b, xi) ==
  LET at(d, t) == [e \in 0 .. 2 |-> IF e = d THEN t ELSE xi[e]] IN
  [r \in 0 .. 2 |-> [d \in 0 .. 2 |-> Map8(b, at(d, 1))[r] - Map8(b, at(d, -1))[r]]]

(* Every loop position is a node of the (p+1)^3 view: vol(k, j, i) is      *)
(* never written out of bounds.                                            *)
TypeOK ==
  /\ pc \in {"loop", "done"}
  /\ pos \in NodeIndex(p)
  /\ vol \in [NodeIndex(p) -> Int]

(* Once the loops end, every node holds the Jacobian determinant of the    *)
(* trilinear map of the base box at that node's own parametric point, i    *)
(* along the first, j the second, k the third direction.                   *)
VolumeMetricExact ==
  pc = "done" =>
    \A x \in NodeIndex(p) :
      8 * vol[x] = Determinant33(RefJacobian(box, [e \in 0 .. 2 |-> NodeXi(p, x[3 - e])]))

=============================================================================
