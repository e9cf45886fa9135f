--------------------------- MODULE LidarProbeInfo ---------------------------
(***************************************************************************)
(* LidarLineOfSite::determine_line_of_site_info (SyntheticLidar.C): the     *)
(* description of a scanning lidar as nsamples_ line-of-sight data probes, *)
(* each assigned to a processor. The node is loaded first (load): on this  *)
(* path number_of_samples is required and read as an int. The segment      *)
(* coordinates, part names and field names are data the properties do not *)
(* tell apart and are left out.                                            *)
(***************************************************************************)
EXTENDS Integers, FiniteSets

CONSTANTS
  ProcCounts,     \* NaluEnv::self().parallel_size() values explored
  SampleCounts    \* number_of_samples values a YAML node can hold

VARIABLES
  numProcs,     \* parallel_size()
  nsamples,     \* nsamples_ after load
  phase,        \* "loaded", "done", "threw" (resize of a negative size), "trapped" (division by 0)
  processorId   \* probeInfo->processorId_

vars == <<numProcs, nsamples, phase, processorId>>

NoIds == [i \in {} |-> 0]

(* Mutant: std::min instead of std::max.                                   *)
DivProcProbeMin(procs, ns) == IF procs \div ns < procs THEN procs \div ns ELSE procs

(* divProcProbe = std::max(numProcs / nsamples_, numProcs); reached only   *)
(* with both positive, where C++ division is \div.                        *)
DivProcProbe(procs, ns) == IF procs \div ns > procs THEN procs \div ns ELSE procs

(* Mutant: the probe index used without the modulo.                        *)
ProbeProcessorNoMod(ilos, div) == IF div > 0 THEN ilos ELSE 0

(* processorId_[ilos] = divProcProbe > 0 ? ilos % divProcProbe : 0.       *)
ProbeProcessor(ilos, div) == IF div > 0 THEN ilos % div ELSE 0

(* for (ilos = 0; ilos < nsamples_; ilos++).                               *)
ProbeRange(ns) == 0 .. ns - 1

(* A node that load accepts on the data-probe path.                        *)
Init ==
  /\ numProcs \in ProcCounts
  /\ nsamples \in SampleCounts
  /\ phase = "loaded"
  /\ processorId = NoIds

(* The body after load: resize every vector to nsamples_ (a negative int   *)
(* converts to a huge size_t and resize throws), divide the processor      *)
(* count by nsamples_ (integer division by zero traps), assign each probe. *)
DetermineLineOfSiteInfo ==
  /\ phase = "loaded"
  /\ \/ /\ nsamples < 0
        /\ phase' = "threw"
        /\ UNCHANGED processorId
     \/ /\ nsamples = 0
        /\ phase' = "trapped"
        /\ UNCHANGED processorId
     \/ /\ nsamples > 0
        /\ phase' = "done"
        /\ processorId' = [ilos \in ProbeRange(nsamples) |->
                             ProbeProcessor(ilos, DivProcProbe(numProcs, nsamples))]
  /\ UNCHANGED <<numProcs, nsamples>>

Next == DetermineLineOfSiteInfo

Spec == Init /\ [][Next]_vars

-----------------------------------------------------------------------------
(* The number of probes assigned to processor p.                           *)
ProbesOn(p) == Cardinality({ilos \in DOMAIN processorId : processorId[ilos] = p})

(* Every probe of a description is assigned to a processor that exists.   *)
ProbesOnValidRanks ==
  phase = "done" =>
    \A ilos \in DOMAIN processorId : processorId[ilos] \in 0 .. numProcs - 1

(* The probes are spread over the processors: no two processors hold      *)
(* numbers of probes that differ by more than one.                         *)
ProbesBalanced ==
  phase = "done" =>
    \A p, q \in 0 .. numProcs - 1 : ProbesOn(p) - ProbesOn(q) <= 1

=============================================================================
