# TLA+ models of nalu-wind (master elements, synthetic lidar, Kokkos helpers)

This directory holds TLA+ models of the parts of the repository under `src/`
that have behaviour a model checker can explore, the TLC configurations that
check them, and `PROJECT.json`, which maps every definition to the source lines
it translates.

## 1. Inventory

The sources under `src/` are seven files:

| File | What it contains |
|---|---|
| `src/src/wind_energy/SyntheticLidar.C` | `LidarLineOfSite`: a synthetic lidar that samples velocity along a scan line each time step and writes it to a text or NetCDF file, or describes itself as data probes. |
| `src/include/master_element/Hex27CVFEM.h` | Quadratic hex master element (`HexahedralP2Element`, `Hex27SCV`, `Hex27SCS`): node-map and side tables, weight-view copies, `weighted_area_vectors`, `area_vector`, `grad_op`. |
| `src/include/master_element/Quad92DCVFEM.h` | Quadratic quad master element in 2-D: node-map and side tables, declarations. |
| `src/include/master_element/Quad93DCVFEM.h`, `Edge32DCVFEM.h` | Declarations and quadrature constants only. |
| `src/include/master_element/TensorProductCVFEMVolumeMetric.h` | `compute_volume_metric_linear`: Jacobian determinant at every node of a p-th order hex. |
| `.../include/KokkosInterface.h` | Kokkos aliases, team policies, per-thread views of team scratch (`get_shmem_view_*D`), serial `kokkos_parallel_for/reduce`, `set_vals`. |

### Components, state, operations, interactions

**LidarLineOfSite (SyntheticLidar.C).** State: `output_type_`, `npoints_`,
`name_`, `fname_`, `internal_output_counter_`, `search_data_`, `ncVarIDs_`,
the predictor and timing fields; plus the files on disk. Operations:
`load` (parse the YAML node), `output` (every time step, on every MPI rank:
local interpolation, two `MPI_Reduce` to the root, degree averaging, then on
the root `output_txt` or `output_nc`), `prepare_nc_file`, `determine_filename`
and `determine_line_of_site_info` (probe description for the data-probe path).
Interactions: the ranks meet in the collective `MPI_Reduce`; the object
interacts with its own earlier incarnations only through the file system, when
a simulation is restarted (`determine_filename` picks `name-rst-j` names).
Hard behaviour: restarts (memory lost, files kept), I/O errors in the middle of
a record, the first-call logic keyed on the output counter, ranks that find the
same point.

**Kokkos team scratch (KokkosInterface.h).** A team of threads shares one
scratch allocation; `get_shmem_view_1D/2D/3D` give each thread the slice at
`team_rank()`. The team policy reserves that scratch per thread, while the
team size is left to the backend. Hard behaviour: the threads of a team run
concurrently, and the reservation must hold for whatever team size is picked.
`kokkos_parallel_for` and `kokkos_parallel_reduce` use a `Serial` range
policy, so their bodies do not interleave.

**Master elements (Hex27, Quad92, Quad93, Edge32, tensor-product metric).**
Constant tables (`stkNodeMap_`, `sideNodeOrdinals_`), weight arrays computed at
construction (bodies not in `src/`), and pure kernels: `weighted_area_vectors`
walks the 216 surface integration points direction by direction (U, T, S) and
forms each area vector as the cross product of two columns of a sub-Jacobian,
then scales by `ipInfo_[ip].weight`. No mutable state is shared between
element evaluations (spec §5).

### What makes each component correct

* Lidar: no sample the code reported written is lost by a later incarnation;
  each incarnation writes one file; restart names are exhausted only when all
  are taken; the file created has the header; every point is averaged over
  exactly the ranks that found it in that step.
* Team scratch: threads of a team never share scratch cells, and no later
  view aliases an earlier one.
* Shifted quadrature of Edge32/Quad93/Hex27: every shifted point sits at the
  node of its own sub-control volume (spec §4.1).
* Tensor volume metric: every node holds the Jacobian determinant of the
  base box's trilinear map at its own parametric point.
* Master elements: the side tables agree with the tensor-product node map
  (spec §4.3); the area-vector loop computes each ip with the direction that
  its position in the layout gives it, the cross product of its two
  transverse Jacobian columns, and weights every ip exactly once (spec
  §4.4).

The hazards these properties target are listed, each at its line, in
`PROJECT.json` under `hazards`.

## 2. Plan

Ordered by importance of the behaviour:

1. `LidarLineOfSite` (done): load, output to text/NetCDF, restarts, I/O
   errors. MC module `MCLidarLineOfSite`.
2. `LidarReduce` (done): ranks computing local ownership and values for each point,
   the two `MPI_Reduce` calls arriving at the root in any order, the degree
   averaging and the not-found report (SyntheticLidar.C 282-383). Property: the
   root's value is the average of the finders' values of that step.
3. `TeamScratch` (done): a team of threads, each taking its `get_shmem_view_*D`
   row and writing/reading it in interleaved steps; `NoScratchRace` in the
   style of a ring-buffer data-race invariant.
4. `P2Topology` (done): `stkNodeMap_` and `sideNodeOrdinals_` of Hex27 and Quad92
   against a reference tensor-product definition of faces (outward corner
   order, edge midpoints between their corners).
5. `Hex27AreaVectors` (done, without the closed-surface sum): the `weighted_area_vectors` loop as a state machine
   over ips with an abstract `ipInfo_` layout, refined against an abstract
   "every ip gets its direction's area vector, weighted once" specification
   (INSTANCE ... WITH) taken from spec §4.4.
6. `LidarProbeInfo` (done): `determine_line_of_site_info` processor assignment.
7. `Hex27WeightViews` (done): the `copy_*_to_view` loops and `grad_op`'s
   deriv copy, checked against the row-major offset of each view entry.
8. `TensorVolumeMetric` (done): `compute_volume_metric_linear` against an
   independent trilinear-map reference.
9. `ScsShiftedShapes` (done): the shifted integration points of Edge32DSCS
   and Quad93DSCS and of the Hex27 element, and the shifted shape
   functions at them. Also: the team
   policy's scratch reservation in `TeamScratch`.

## 3. Modules and runs

### LidarLineOfSite (SyntheticLidar.C)

Models the root rank over the whole life of a simulation. Variables:
`outputType` (`output_type_`), `counter` (`internal_output_counter_`),
`fname` (`fname_`), `t` (the simulation time in output steps), `disk` (file
name to contents), `run` (process incarnation), `phase`/`error` (before
`load`, running, stopped by an exception), `node` (the YAML node this
incarnation loaded) and the history `written` (samples `output()` returned
for). Actions: `Load` (`load`), `OutputDataprobe` (the early return of
`output`), `OutputTxt` (`output_txt` including the first-call file creation),
`OutputNc` (`output_nc` with `prepare_nc_file` on the first call), `Restart`
(the job ends or is killed and is restarted from a checkpoint at or before the
current time; the object is built anew, the files stay).

Abstractions: the sample at time `t` is the value `t`; a text file is a
sequence of lines `[time, pt]` and the header; a NetCDF file is whether its
definitions completed plus one sequence per variable along the unlimited
dimension, where writing past the end fills the gap with a fill value. An I/O
error can happen at any of the calls (`IoFailures`): `nc_create`, the
definitions, each of the four `nc_put_vara`, each text line; it ends the
incarnation (the exception leaves `output`). The rank-local sampling and the
reduction are not in this module (plan item 2).

Runs:

* `lidar_restarts` (`MCLidarLineOfSite.cfg`, pass): 3 candidate names per
  suffix (`max_restarts` is 2048 in the code; 3 is the smallest bound in which
  "base name", "some rst name" and "all taken" all occur), 4 incarnations (one
  more than the names, so exhaustion is reached), 2 output steps, 2 points
  (so a text record can be half written), I/O errors on, seven YAML nodes
  covering every branch of `load`. Checks `TypeOK`, `SamplesPersist`,
  `OneFilePerRun`, `RestartsExhaustedOnlyWhenAllTaken`. About 310 000
  distinct states. Deadlock is not checked: a simulation ends at its final
  time or after its last restart.
* `lidar_txt_header` (`MCLidarHeader.cfg`, violation of `TxtHeaderFirst`):
  the ofstream is opened in its constructor and then `open` is called again;
  the second open fails and sets failbit, so the header line is never written.

`load` tests `else if ("dataprobes")` (line 44), a literal that is always
true, so any unrecognised output value selects DATAPROBE. Whether that
differs from `type == "dataprobes"` depends on the default of `output_type_`,
declared in `SyntheticLidar.h`, which is not in the repository. No run checks
it; the model keeps the default as the constant `DefaultOutput`.

No fairness is assumed anywhere: the properties are safety properties and
refinement (and `lidar_reduce` checks for deadlock). The time loop that
calls `output` is outside `src/`, and the kernels are counted loops with
nothing to wait for, so that they end says nothing about the code.

### LidarReduce (SyntheticLidar.C, `output`)

Models `output` on every rank (`NumRanks`) over `MaxSteps` output steps.
Variables: per rank `pc`/`k` (interpolating, entering `MPI_Reduce` number 1
or 2, the root waiting for the sum), `step`, `own`
(`search_data_->ownership`), and `chan` (the contributions sent to the root);
at the root `acc` (the contributions of the current reduction summed so far),
`velocity` (the result of the first reduction) and `result` (the records
written); the history `owners` (which ranks found each point at each step).
Actions: `Interpolate` (segment, points, `local_field_interpolation`, whose
outcome is chosen), `CallReduce`, `RootReceive` (the root's reduction takes
the next contribution of one rank, any rank first), `VelocityReduced`,
`DegreeReduced` (degree averaging, the unmatched count and the record), and
`Finished`. `MPI_Reduce` returns on a non-root rank as soon as its buffer is
sent, so non-root ranks run ahead into later steps; collectives are matched
in call order and do not overtake between two ranks, which the per-rank FIFO
channel expresses. The root takes a channel's head for its current
reduction whatever the sender meant it for, as MPI does.

Abstractions: one velocity component; the field is continuous across ranks,
so each finder of point `j` at step `s` interpolates `Sample(s, j)`, distinct
per step and point; a non-finder contributes 0 (this is what the code
assumes of `local_field_interpolation`, which is not in `src/`).

* `lidar_reduce` (`MCLidarReduce.cfg`, pass): 3 ranks (so a point can have
  degree 0, 1, 2 or 3 and a non-root rank can be two calls ahead of
  another), 2 points, 2 steps (so a rank's step-2 contribution can wait in
  the channel while the root still sums step 1). `RecordsAveraged`: each
  record gives every point the finders' value of that step, or 0, and the
  degree is the number of finders. Deadlock is checked: the root never
  waits forever. 608 053 distinct states, 13 s. No finding.

### LidarProbeInfo (SyntheticLidar.C, `determine_line_of_site_info`)

Inputs: the processor count and the `number_of_samples` a node holds. One
action, the function body after `load`: a negative count makes `resize`
throw; a zero count reaches `numProcs / nsamples_`, an integer division by
zero (UB; it traps on the targets the code is built for); otherwise every
probe `ilos` gets `divProcProbe > 0 ? ilos % divProcProbe : 0`. Because
`divProcProbe = std::max(numProcs / nsamples_, numProcs)` is always
`numProcs`, the assignment is round robin and the `> 0` guard is dead.

* `lidar_probe_info` (`MCLidarProbeInfo.cfg`, pass): 1..8 processors,
  -1..10 samples (fewer, equal and more samples than processors).
  `ProbesOnValidRanks` and `ProbesBalanced` (no processor holds two probes
  more than another). 192 distinct states. The zero-count trap is reached
  but no property is stated about it (see the hazard at line 412).

### Hex27AreaVectorsSpec and Hex27AreaVectors (Hex27CVFEM.h)

`Hex27AreaVectorsSpec` states what `weighted_area_vectors` promises, taken
from spec §4.4 and not from the code. The ips come direction by direction,
U then T then S (`DirectionOf`). Each ip ends with `weight(ip)` times the
cross product of the two columns of its local Jacobian transverse to its
direction, in either order: the spec fixes the surface, not which of the two
orientations the element uses. Each ip is set once. When `ipInfo_` disagrees
with the layout, the only other outcome allowed is a thrown assertion.
`Hex27AreaVectors` is the code:
- the three direction loops (`AreaVectorStep`: `ThrowAssert`, then
  `area_vector<dir>` with the direction taken from the ip range);
- the in-place weighting loop (`WeightStep`).

The refinement mapping counts an ip's value as final once the weighting loop
has passed it. `ThrowAssert` exists only in debug builds (`debug`). Both
builds run with every layout: a release build with a disagreeing `ipInfo_`
still computes the vectors of the ip ranges, which the promise allows.
`set_interior_info`, which fills `ipInfo_`, is
not in `src/`. The sum over the 27 nodes that builds `sjac` is abstracted to
the Jacobian column it computes (`IpJacobian`). The Jacobian enum values
(S=0, T=1, U=2) come from the spec, not from `src/`.

* `hex27_area_vectors` (`MCHex27AreaVectors.cfg`, pass):
  - Bounds: 2 ips per direction (6 in all, so each range has a first and a
    last ip and every boundary is crossed). Integer Jacobians whose column
    pairs all give distinct cross products, and weights 2 and 3, so a
    missing, repeated or misplaced weight shows. All 729 direction layouts
    in debug and release builds.
  - `AreaVectorsRefined`: `Abs!Spec` under the mapping. Its mutant picks
    the same column twice for the T direction.
  - 11 304 distinct states.

### Hex27WeightViews (Hex27CVFEM.h, `copy_*_to_view`, `grad_op`)

`HexahedralP2Element` copies its flat weight arrays into Kokkos views with four
loops: `copy_interpolation_weights_to_view` and `copy_deriv_weights_to_view`,
each reading either an argument array (`interps`, `derivs`) or a member array
(`shapeFunctions_`, `shapeDerivs_`). Each loop walks the view in nested loops
`ip < extent(0)`, `n < 27` (a literal) and `d < 3` (derivatives only). It reads
the array through one running index that is incremented in the innermost loop.
`Hex27SCS::grad_op` then copies `referenceGradWeights_` into `deriv` entry by
entry, after `generic_grad_op`, which is not in `src/`.

The model has these pieces:
- `variant` says which of the four copies runs.
- `pos` is the loop position `<<ip, n, d>>` and `idx` is the running index.
- `CopyStep` is one copy iteration. `GradOpStep` is one iteration of
  `grad_op`'s copy, which follows the derivative copies.
- Array entry `i` holds the value `i + 1`. A view entry therefore shows which
  array entry it came from, and the zero that Kokkos initialises a view with
  shows as "never written".
- The interpolation copies have no `d` loop. They are modelled as a `d` range
  of one.

* `hex27_weight_views` (`MCHex27WeightViews.cfg`, pass): 2 ips and the 27
  nodes of the element. Every carry of the loop nest happens (`d` into `n`,
  `n` into `ip`, `ip` out of the loop). There is one behaviour per copy, and
  760 distinct states.
  - `TypeOK`: the running index stays inside the array, and every loop
    position is an entry of the view.
  - `CopyFaithful`: a returned view holds at `(ip, n, d)` the array entry at
    the LayoutRight offset `(ip*27 + n)*3 + d`, and `deriv` equals the view
    after `grad_op`.
  - The array sizes (`numIntPoints_`) and view extents (`numScsIp_`,
    `numScvIp_`) are taken equal, as the comment at line 117 says they are.
    `AlgTraits` is not in `src/`.

### TensorVolumeMetric (TensorProductCVFEMVolumeMetric.h)

`compute_volume_metric_linear` works on an order-`p` hex:
- It takes the eight element vertices as a base box (`hex_vertex_coordinates`).
- It runs nested loops `k`, `j`, `i < p + 1`.
- For each node it takes the two linear interpolation weights of `i`, `j`
  and `k`, builds the Jacobian of the box's trilinear map (`hex_jacobian`),
  and writes its determinant to `vol(k, j, i)`.

The model keeps the loop nest (`NodeStep`, `Advance`, `LoopEnd`) and the
order of the arguments to `hex_jacobian`. The helpers are not in `src/`:
`hex_vertex_coordinates`, `hex_jacobian`, `determinant33` and the weights of
`linearNodalInterp`. They are modelled from their names and spec §4.4, and
marked `spec_modelled`. Orders 1 and 2 have nodes at -1, (0,) 1. The weights
`(1 -/+ xi)/2` are therefore scaled by 2 so they stay integers: every
Jacobian entry is 8 times the true one, and every determinant 512 times.

The reference is independent of `hex_jacobian`. It evaluates the trilinear
map at the node's parametric point as a weighted sum of the vertices. It then
differentiates by differences across the element, which is exact for a map
linear in each coordinate.

* `tensor_volume_metric` (`MCTensorVolumeMetric.cfg`, pass):
  - Inputs: orders 1 and 2, and the cube `[0,2]^3` with one vertex moved by
    a step in `{-1,0,1}^3` (209 boxes). These maps are not affine, so the
    Jacobian differs from node to node and is not symmetric in the three
    directions. An argument swap is therefore visible. On a cube or an
    affine element it would not be.
  - `TypeOK`: the loop never leaves the `(p+1)^3` view.
  - `VolumeMetricExact`: each node holds the reference determinant at its own
    point.
  - 7 733 distinct states, 13 s.
  - `compute_volume_metric_linear` writes a non-positive determinant as it
    is. Spec §4.4 and §7 put the fatal-error check on the caller, and no
    caller is in `src/`, so no property is stated about it.

### TeamScratch (KokkosInterface.h)

Models one team running the same kernel body on every thread, in any
interleaving. The team size `teamSize` is chosen in `Init` from `TeamSizes`:
`get_host_team_policy` and one `get_device_team_policy` ask for
`Kokkos::AUTO`, so the backend picks it, and the other passes
`threads_per_team`. All three reserve level-1 scratch with
`set_scratch_size(1, PerTeam(bytes_per_team), PerThread(bytes_per_thread))`,
which `ScratchSize(t)` gives as `BytesPerTeam + t * BytesPerThread` elements. For each array of `Requests`, every thread calls
`get_shmem_view_1D/2D/3D` (`GetShmemView`) and then fills the view it got
(`SetVals`, `set_vals`). Variables: per thread `phase`, `req` (which array),
`offset` (the allocation offset of its `ScratchMemorySpace`), `views` (the
`[start, len]` of each subview it holds), and the shared scratch `mem` with
the history `touched`. The subview at `team_rank()` of a LayoutRight view
`team_size() x len...` is the contiguous row `[base + r*L, base + (r+1)*L)`.
How Kokkos hands out scratch is not in this repository: `Allocate` (take
`[off, off+size)` and move on; abort if it does not fit) is modelled from the
spec, and sizes are counted in elements without alignment padding.

* `team_scratch` (`MCTeamScratch.cfg`, pass): teams of 1, 2 and 3 threads,
  a 1-D, a 2-D and a 3-D request (extents `2`, `1x2`, `2x1x1`: 2 elements per
  thread each, so the rows of consecutive views abut), `bytes_per_team` 0 and
  `bytes_per_thread` 6 elements, exactly one row of each view. Checks
  `NoScratchRace` (no cell is ever written by two threads) and
  `FilledViewsIntact` (a view a thread filled still holds its values while
  the team goes on). `NoScratchRace` is about the row layout, not the
  order of the threads: it needs a team of two or more, and its mutant
  takes the row without the LayoutRight stride. Whether the reservation is
  large enough depends on the `bytes_per_thread` callers pass, and no caller
  is in `src/`, so it is not checked. 399 distinct states.

### P2Topology (Hex27CVFEM.h, Quad92DCVFEM.h)

The tables `stkNodeMap_` and `sideNodeOrdinals_` of the quadratic hex and quad
are transcribed as they are written. The state is an element (Hex27 or
Quad92) with nodal coordinates `x = A * xi` for an integer affine map `A`, and
the side a face operation last looked up with `side_node_ordinals`
(`Hex27SideLookup`, `Quad92SideLookup`). The reference is built from the node
map alone: node `stkNodeMap_[k][j][i]` sits at `xi = (i-1, j-1, k-1)`.

* `p2_side_tables` (`MCP2Topology.cfg`, pass): every map with entries in
  `-1..1` and positive determinant (rotations, orientation-preserving
  reflections composed, shears, skews; about 5 900 in 3-D), every side.
  `SideNodesFormFace`: a side lists exactly the nodes of one tensor face, each
  once. `SideNodesOrdered`: its corner loop's normal points out of the element
  (for every such map, so the result does not depend on an axis-aligned
  cube), each mid-edge node is the midpoint of the corners it follows, and the
  Hex27 face centre comes last. About 35 500 distinct states, 20 s. The
  tables agree with the reference: no finding.

### ScsShiftedShapes (Edge32DCVFEM.h, Quad93DCVFEM.h, Hex27CVFEM.h)

Only declarations and constant tables of Edge32DSCS and Quad93DSCS are in
`src/`. The module transcribes the tables that fix the shifted scheme:
`scsEndLoc_` (each line cut into one sub-control volume per node),
`numQuad_` Gauss points per sub-control volume, `intgLocShift_` of Edge32DSCS
and `gaussAbscissaeShift_` of Quad93DSCS and of `HexahedralP2Element`
(applied along each of their two or three directions, the first varying
fastest). The node order is that of an Edge3 side of `Quad92DSCS` (two
ends, then the midpoint), of Quad92's `stkNodeMap_` for the quad, and of
Hex27's own `stkNodeMap_[3][3][3]` for the hex. The basis is the product
of one-dimensional bases over `Dim(e)` directions, as a recursive
operator. The loop
that fills `shapeFunctionsShift_` (`EvalStep`, one entry per step) and the
quadratic Lagrange basis it evaluates are not in `src/`. They are modelled
from spec §4.1 and §4.2 and marked `spec_modelled`. `shifted_shape_fcn` reads the flat
array back as `shpfc(ip, n)` (`ShpfcOffset`). Both layouts are modelled,
ip-major, since neither body is in `src/`: what the run checks is the
tables in `src/`, not the layout. Lengths are in tenths, with
`scsDist_ = sqrt(3)/3` taken as 0.6: the property depends only on how the
sub-control-volume boundaries are ordered against the nodes at -1, 0 and 1,
and 0.6 orders them the same way.

* `scs_shifted_shapes` (`ScsShiftedShapes.cfg`, pass): the three elements,
  every entry of the 6 x 3, 36 x 9 and 216 x 27 arrays. `ShiftedShapesNodal`: at every
  shifted point, the shape function is 1 for exactly one node and 0 for the
  others, and that node lies in the sub-control volume the point was shifted
  from. This checks the hand-typed `intgLocShift_` and
  `gaussAbscissaeShift_` tables against `scsEndLoc_`: its mutant mistypes
  the two middle shift entries of Edge32. 6177 distinct
  states. The tables agree: no finding.

## 4. Not modelled, and why

* Floating-point arithmetic: TLC has no floating point. The models use
  integers where the structure, not the rounding, is what a property is
  about: the lidar samples and degree averaging, the area-vector cross
  products, the affine elements of `P2Topology`.
* `generic_grad_op` and `generic_determinant_3d`, which compute the
  gradients and volumes from the weight views, are not in `src/`.
  `Hex27SCV::weighted_volumes` only scales the result of
  `generic_determinant_3d` by `ipWeight_`, and is left out with it.
* The closed-surface sum of all sub-control-surface area vectors (spec §3)
  needs `lrscv_` and the shape-function derivatives, whose definitions are
  not in `src/`.
* Method bodies of Edge32DSCS, Quad93DSCS and the Hex27/Quad92 constructors
  are not in `src/` (only declarations). Of Edge32DSCS and Quad93DSCS, only
  the shifted points and shifted shape functions are modelled
  (`ScsShiftedShapes`). The exact Gauss locations involve `sqrt(3)` and
  floating point, and `determinant`, `area_vector`, `isInElement` and
  `interpolatePoint` have no body in `src/`.
* YAML parsing, NetCDF/stream formatting, `Ioss::FileInfo::create_path`,
  point search (`local_field_interpolation`) and the segment generator are
  external collaborators; their outcomes are chosen nondeterministically.
* `get_shmem_view_4D/5D` pass fewer indices than the view's rank to
  `subview`; they only compile because they are never instantiated, so there
  is no behaviour to model.
