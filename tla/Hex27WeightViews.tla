--------------------------- MODULE Hex27WeightViews ---------------------------
(***************************************************************************)
(* The copies of HexahedralP2Element's flat weight arrays into Kokkos      *)
(* views (Hex27CVFEM.h): copy_interpolation_weights_to_view and            *)
(* copy_deriv_weights_to_view, each from an argument array or from the     *)
(* member shapeFunctions_ / shapeDerivs_, and the copy of                  *)
(* referenceGradWeights_ into deriv that Hex27SCS::grad_op makes after     *)
(* generic_grad_op. Each copy walks the view with nested loops ip, n, d    *)
(* and reads the flat array through one running index (shape_index,       *)
(* deriv_index) incremented in the innermost loop; the interpolation       *)
(* copies have no d loop, modelled as a d range of one.                    *)
(*                                                                         *)
(* Data: entry i of the flat array holds the distinct value i + 1, so a    *)
(* view entry shows which array entry it was copied from; a new view is    *)
(* zero-initialised by Kokkos.                                             *)
(***************************************************************************)
EXTENDS Integers

CONSTANTS
  NumIps,           \* extent(0) of the view (numScsIp_ / numScvIp_)
  ArrayIps,         \* the ips the flat array is sized for (numIntPoints_)
  NodesPerElement   \* AlgTraits::nodesPerElement_

Variants == {"interps", "shapeFunctions_", "derivs", "shapeDerivs_"}

VARIABLES
  variant,   \* which of the four copies runs
  pc,        \* "copy", "gradop" (grad_op's deriv copy), "done"
  pos,       \* <<ip, n, d>> of the loop nest
  idx,       \* shape_index / deriv_index
  view,      \* the view being filled: <<ip, n, d>> -> value
  deriv      \* grad_op's deriv output view

vars == <<variant, pc, pos, idx, view, deriv>>

-----------------------------------------------------------------------------
(* The entries of the flat array.                                          *)
Src(i) == i + 1

(* The innermost extent: d < 3 for the derivative copies, none for the     *)
(* interpolation copies.                                                   *)
InnerExtent(v) == IF v \in {"interps", "shapeFunctions_"} THEN 1 ELSE 3

(* The length of the flat array the copy reads: numIntPoints_ times       *)
(* nodesPerElement_, times nDim_ for the derivatives.                      *)
ArrayLen(v) == ArrayIps * NodesPerElement * InnerExtent(v)

ViewIndex(v) == (0 .. NumIps - 1) \X (0 .. NodesPerElement - 1) \X (0 .. InnerExtent(v) - 1)

(* Reference: the flat offset of a view entry in LayoutRight order.        *)
Flat(p, e) == (p[1] * NodesPerElement + p[2]) * e + p[3]

(* Mutant: the n < 27 bound written n <= 27.                               *)
LoopNodesInclusive == 28

(* The literal bound of the copy loops, n < 27.                            *)
LoopNodes == 27

(* Mutant: the n and d loops nested the other way round.                   *)
AdvanceNodeInner(p, e, nodes) ==
  IF p[2] + 1 < nodes THEN <<p[1], p[2] + 1, p[3]>>
  ELSE IF p[3] + 1 < e THEN <<p[1], 0, p[3] + 1>>
  ELSE <<p[1] + 1, 0, 0>>

(* The ++ of the loop nest ip { n < nodes { d < e } }: the innermost       *)
(* index advances, carrying into the outer ones.                           *)
Advance(p, e, nodes) ==
  IF p[3] + 1 < e THEN <<p[1], p[2], p[3] + 1>>
  ELSE IF p[2] + 1 < nodes THEN <<p[1], p[2] + 1, 0>>
  ELSE <<p[1] + 1, 0, 0>>

(* grad_op's loops over ip < numScsIp_, n < nodesPerElement_, d < nDim_.  *)
GradOpAdvance(p) == Advance(p, 3, NodesPerElement)

Init ==
  /\ variant \in Variants
  /\ pc = "copy"
  /\ pos = <<0, 0, 0>>
  /\ idx = 0
  /\ view = [x \in ViewIndex(variant) |-> 0]
  /\ deriv = [x \in ViewIndex("derivs") |-> 0]

(* One iteration of a copy: view(ip, n[, d]) = array[index]; ++index.      *)
(* After the last ip the view is returned; a gradient-weight view then     *)
(* serves grad_op.                                                         *)
CopyStep ==
  /\ pc = "copy"
  /\ view' = [view EXCEPT ![pos] = Src(idx)]
  /\ idx' = idx + 1
  /\ LET nxt == Advance(pos, InnerExtent(variant), LoopNodes) IN
       IF nxt[1] < NumIps
       THEN pos' = nxt /\ pc' = "copy"
       ELSE /\ pos' = <<0, 0, 0>>
            /\ pc' = IF InnerExtent(variant) = 3 THEN "gradop" ELSE "done"
  /\ UNCHANGED <<variant, deriv>>

(* One iteration of grad_op's copy: deriv(ip, n, d) =                      *)
(* referenceGradWeights_(ip, n, d).                                        *)
GradOpStep ==
  /\ pc = "gradop"
  /\ deriv' = [deriv EXCEPT ![pos] = view[pos]]
  /\ LET nxt == GradOpAdvance(pos) IN
       IF nxt[1] < NumIps
       THEN pos' = nxt /\ pc' = "gradop"
       ELSE pos' = <<0, 0, 0>> /\ pc' = "done"
  /\ UNCHANGED <<variant, idx, view>>

Next == CopyStep \/ GradOpStep

Spec == Init /\ [][Next]_vars

-----------------------------------------------------------------------------
(* The copy never reads past the end of the flat array (shapeDerivs_ and   *)
(* shapeFunctions_ are sized by numIntPoints_, the views by numScsIp_ or   *)
(* numScvIp_, the loops by the literal 27): the index stays within it and  *)
(* every loop position is an entry of the view.                            *)
TypeOK ==
  /\ variant \in Variants
  /\ pc \in {"copy", "gradop", "done"}
  /\ pos \in ViewIndex(variant)
  /\ idx \in 0 .. ArrayLen(variant)
  /\ pc = "copy" => idx < ArrayLen(variant)

(* Once a copy has returned, every view entry holds the array entry at its *)
(* row-major offset, and once grad_op has run, deriv is entry for entry    *)
(* the gradient-weight view.                                               *)
CopyFaithful ==
  /\ pc # "copy" =>
       \A x \in ViewIndex(variant) : view[x] = Src(Flat(x, InnerExtent(variant)))
  /\ pc = "done" /\ InnerExtent(variant) = 3 => deriv = view

=============================================================================
