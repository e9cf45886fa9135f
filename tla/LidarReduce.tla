---------------------------- MODULE LidarReduce ----------------------------
(***************************************************************************)
(* LidarLineOfSite::output (SyntheticLidar.C) on every MPI rank of a       *)
(* simulation, over several output steps. Each rank interpolates the       *)
(* velocity at the points it finds in its part of the mesh                 *)
(* (local_field_interpolation, an external collaborator: which points a    *)
(* rank finds is chosen nondeterministically), then calls MPI_Reduce on    *)
(* the velocities and MPI_Reduce on the ownership flags. The root sums the *)
(* contributions as they arrive, averages every point by its degree,       *)
(* counts the points nobody found and writes the record.                   *)
(*                                                                         *)
(* MPI_Reduce returns on a non-root rank once its buffer is sent, so a     *)
(* non-root rank can run ahead into later output steps while the root is   *)
(* still collecting. Collectives on a communicator are matched in the      *)
(* order they are called and messages between two ranks do not overtake:   *)
(* the contributions of a rank form a FIFO channel to the root, and the    *)
(* root takes the head of each channel as that rank's part of its current  *)
(* reduction, whatever the sender meant it for.                            *)
(*                                                                         *)
(* Data: one velocity component per point (the three are handled alike);   *)
(* the field is continuous across ranks, so every rank that finds point j  *)
(* at step s interpolates the same value Sample(s, j); a rank that does    *)
(* not find it contributes 0.                                              *)
(***************************************************************************)
EXTENDS Integers, Sequences, FiniteSets

CONSTANTS
  NumRanks,   \* bulk.parallel_size()
  NPoints,    \* npoints_
  MaxSteps    \* output steps explored

ASSUME NumRanks \in Nat \ {0} /\ NPoints \in Nat \ {0} /\ MaxSteps \in Nat

Ranks == 0 .. NumRanks - 1
Points == 0 .. NPoints - 1
Steps == 0 .. MaxSteps - 1
root == 0

(* The velocity interpolated at point j in output step s: distinct for    *)
(* every step and point, so a value of the wrong step or point shows.      *)
Sample(s, j) == 1 + s * NPoints + j

VARIABLES
  pc,       \* per rank: "interp", "call" (entering MPI_Reduce number k), "wait" (root)
  k,        \* per rank: which of the two MPI_Reduce calls, 1 or 2
  step,     \* per rank: output steps completed
  own,      \* per rank: search_data_->ownership of the current step
  chan,     \* per rank: contributions sent to the root, in order
  acc,      \* root: ranks whose contribution it has summed, and the sum
  velocity, \* root: the result of the first MPI_Reduce of the current step
  result,   \* root: the records written, one per step
  owners    \* history: step -> point -> ranks that found it

vars == <<pc, k, step, own, chan, acc, velocity, result, owners>>

Zero == [j \in Points |-> 0]
NoAcc == [arrived |-> {}, sum |-> Zero]

-----------------------------------------------------------------------------
(* search_data_->interpolated_values: 0 at the points rank r did not find. *)
LclVelocity(r) == [j \in Points |-> IF own[r][j] = 1 THEN Sample(step[r], j) ELSE 0]

(* Mutant: the root calls the two reductions in the other order.          *)
SendBufferRootSwapped(r, c) == IF (c = 1) = (r # root) THEN LclVelocity(r) ELSE own[r]

(* The buffers passed to the two MPI_Reduce calls, in the order every rank *)
(* calls them: lcl_velocity, then lcl_ownership.                           *)
SendBuffer(r, c) == IF c = 1 THEN LclVelocity(r) ELSE own[r]

(* Mutant: the call counter of a rank is not reset after its second call. *)
NextCallNoWrap(c) == c + 1

(* After MPI_Reduce number c a rank makes number 2, or, after the second, *)
(* returns from output and starts with number 1 at the next step.         *)
NextCall(c) == IF c = 1 THEN 2 ELSE 1

(* velocity[j] *= inv_deg, inv_deg = degj > 0 ? 1 / degree[j] : 0.       *)
Average(v, d) == IF d > 0 THEN v \div d ELSE 0

(* not_found_count: the points with reduced degree 0.                     *)
NotFound(degree) == Cardinality({j \in Points : degree[j] = 0})

Init ==
  /\ pc = [r \in Ranks |-> "interp"]
  /\ k = [r \in Ranks |-> 1]
  /\ step = [r \in Ranks |-> 0]
  /\ own = [r \in Ranks |-> Zero]
  /\ chan = [r \in Ranks |-> <<>>]
  /\ acc = NoAcc
  /\ velocity = Zero
  /\ result = <<>>
  /\ owners = [s \in Steps |-> [j \in Points |-> {}]]

(* Rank r builds the line of sight and interpolates: it finds some of the *)
(* points (local_field_interpolation), and records which.                  *)
Interpolate(r) ==
  /\ pc[r] = "interp"
  /\ step[r] < MaxSteps
  /\ \E found \in [Points -> {0, 1}] :
       /\ own' = [own EXCEPT ![r] = found]
       /\ owners' = [owners EXCEPT ![step[r]] =
                       [j \in Points |-> IF found[j] = 1 THEN @[j] \cup {r} ELSE @[j]]]
  /\ pc' = [pc EXCEPT ![r] = "call"]
  /\ UNCHANGED <<k, step, chan, acc, velocity, result>>

(* Rank r enters MPI_Reduce number k[r]: its buffer is sent to the root.  *)
(* A non-root rank returns at once and goes on to the next call or the    *)
(* next output step; the root waits for the sum.                           *)
CallReduce(r) ==
  /\ pc[r] = "call"
  /\ chan' = [chan EXCEPT ![r] = Append(@, SendBuffer(r, k[r]))]
  /\ IF r = root
     THEN /\ pc' = [pc EXCEPT ![r] = "wait"]
          /\ UNCHANGED <<k, step>>
     ELSE /\ pc' = [pc EXCEPT ![r] = IF k[r] = 1 THEN "call" ELSE "interp"]
          /\ k' = [k EXCEPT ![r] = NextCall(@)]
          /\ step' = [step EXCEPT ![r] = IF k[r] = 2 THEN @ + 1 ELSE @]
  /\ UNCHANGED <<own, acc, velocity, result, owners>>

(* The root's reduction takes the next contribution of rank r.            *)
RootReceive(r) ==
  /\ pc[root] = "wait"
  /\ r \notin acc.arrived
  /\ chan[r] # <<>>
  /\ acc' = [arrived |-> acc.arrived \cup {r},
             sum |-> [j \in Points |-> acc.sum[j] + Head(chan[r])[j]]]
  /\ chan' = [chan EXCEPT ![r] = Tail(@)]
  /\ UNCHANGED <<pc, k, step, own, velocity, result, owners>>

(* The first MPI_Reduce returns on the root with the velocity sums.       *)
VelocityReduced ==
  /\ pc[root] = "wait" /\ k[root] = 1
  /\ acc.arrived = Ranks
  /\ velocity' = acc.sum
  /\ acc' = NoAcc
  /\ pc' = [pc EXCEPT ![root] = "call"]
  /\ k' = [k EXCEPT ![root] = NextCall(@)]
  /\ UNCHANGED <<step, own, chan, result, owners>>

(* The second MPI_Reduce returns on the root with the degrees; the root   *)
(* averages each point by its degree, counts the unmatched points and     *)
(* writes the record (output_txt / output_nc).                             *)
DegreeReduced ==
  /\ pc[root] = "wait" /\ k[root] = 2
  /\ acc.arrived = Ranks
  /\ LET degree == acc.sum IN
       result' = Append(result,
                   [vel |-> [j \in Points |-> Average(velocity[j], degree[j])],
                    degree |-> degree,
                    notFound |-> NotFound(degree)])
  /\ acc' = NoAcc
  /\ pc' = [pc EXCEPT ![root] = "interp"]
  /\ k' = [k EXCEPT ![root] = NextCall(@)]
  /\ step' = [step EXCEPT ![root] = @ + 1]
  /\ UNCHANGED <<own, chan, velocity, owners>>

(* Every rank has made all its output calls and the root has written all  *)
(* its records: the simulation is over.                                    *)
Finished ==
  /\ \A r \in Ranks : step[r] = MaxSteps /\ pc[r] = "interp"
  /\ UNCHANGED vars

Next ==
  \/ \E r \in Ranks : Interpolate(r) \/ CallReduce(r) \/ RootReceive(r)
  \/ VelocityReduced
  \/ DegreeReduced
  \/ Finished

Spec == Init /\ [][Next]_vars

-----------------------------------------------------------------------------
TypeOK ==
  /\ pc \in [Ranks -> {"interp", "call", "wait"}]
  /\ k \in [Ranks -> {1, 2}]
  /\ step \in [Ranks -> 0 .. MaxSteps]
  /\ own \in [Ranks -> [Points -> {0, 1}]]
  /\ \A r \in Ranks : chan[r] \in Seq([Points -> Nat])
  /\ acc.arrived \subseteq Ranks
  /\ Len(result) <= MaxSteps

(* The record the root writes for step s gives every point the velocity   *)
(* the finders interpolated at step s (the degree-weighted average of     *)
(* equal values), 0 where no rank found it, and its degree is the number  *)
(* of ranks that found it: nothing of another step, point or rank leaks   *)
(* in, however far the other ranks have run ahead.                         *)
RecordsAveraged ==
  \A s \in DOMAIN result : \A j \in Points :
    LET finders == owners[s - 1][j] IN
    /\ result[s].degree[j] = Cardinality(finders)
    /\ result[s].vel[j] = IF finders = {} THEN 0 ELSE Sample(s - 1, j)

=============================================================================
