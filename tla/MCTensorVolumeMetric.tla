------------------------ MODULE MCTensorVolumeMetric ------------------------
EXTENDS TensorVolumeMetric

(* Orders 1 and 2: the nodes are the vertices only, or include the edge,   *)
(* face and body midpoints.                                                *)
MCOrders == {1, 2}

(* The cube [0, 2]^3 with one vertex moved by a step in {-1, 0, 1}^3: a    *)
(* trilinear, not affine, map whose Jacobian differs from node to node and *)
(* is not symmetric in the three directions (the cube itself included).    *)
MCBoxes ==
  { [v \in 0 .. 7 |->
       LET c == CHOOSE c \in {0, 1} \X {0, 1} \X {0, 1} : Vertex(c[1], c[2], c[3]) = v
       IN [r \in 0 .. 2 |-> 2 * c[r + 1] + (IF v = moved THEN step[r] ELSE 0)]] :
      moved \in 0 .. 7, step \in [0 .. 2 -> -1 .. 1] }

=============================================================================
