---------------------------- MODULE TeamScratch ----------------------------
(***************************************************************************)
(* One Kokkos team using level-1 team scratch through the helpers of       *)
(* KokkosInterface.h. Every thread of the team runs the same kernel body:  *)
(* for each array it needs it calls get_shmem_view_1D/2D/3D, which builds  *)
(* a view of team_size() x len... over team.team_scratch(1) and returns    *)
(* the subview at team_rank(), and then fills it (set_vals). The threads   *)
(* of a team run concurrently, so their steps interleave.                  *)
(*                                                                         *)
(* The team policy comes from get_host_team_policy or                     *)
(* get_device_team_policy: the team size is Kokkos::AUTO (any size the     *)
(* backend picks) or threads_per_team, and set_scratch_size reserves       *)
(* level-1 scratch PerTeam(bytes_per_team) plus PerThread(bytes_per_thread) *)
(* for each thread of the team; team_scratch(1) hands out the whole of it. *)
(* The allocation inside the team's ScratchMemorySpace (each view taken    *)
(* from the current offset, which then moves past it, abort when the       *)
(* scratch is exhausted) is Kokkos, not this repository: it is modelled    *)
(* from the scoped-acquisition discipline of the spec. Memory is counted   *)
(* in elements; alignment padding is left out.                             *)
(***************************************************************************)
EXTENDS Integers, Sequences, FiniteSets, SequencesExt

CONSTANTS
  TeamSizes,    \* team sizes the policy may run with (Kokkos::AUTO, threads_per_team)
  Requests,     \* the view extents the kernel asks for, in order: <<len1, ...>>
  BytesPerTeam, \* bytes_per_team / sizeof(T)
  BytesPerThread \* bytes_per_thread / sizeof(T)

ASSUME TeamSizes \subseteq Nat \ {0}
ASSUME Requests \in Seq(Seq(Nat)) /\ \A k \in DOMAIN Requests : Len(Requests[k]) \in 1 .. 3
ASSUME BytesPerTeam \in Nat /\ BytesPerThread \in Nat

(* policy.set_scratch_size(1, Kokkos::PerTeam(bytes_per_team),             *)
(* Kokkos::PerThread(bytes_per_thread)): the level-1 scratch of a team of   *)
(* t threads.                                                              *)
ScratchSize(t) == BytesPerTeam + t * BytesPerThread

Threads(t) == 0 .. t - 1
Cells(t) == 0 .. ScratchSize(t) - 1
NoValue == <<-1, -1>>
Phases == {"get", "fill", "done", "aborted"}

VARIABLES
  teamSize, \* team.team_size() of the policy the kernel runs with
  phase,    \* per thread: about to get view k, about to fill it, done, aborted
  req,      \* per thread: index k of the view it is working on
  offset,   \* per thread: its ScratchMemorySpace allocation offset
  views,    \* per thread: sequence of [start, len] of the subviews it holds
  mem,      \* the team scratch: cell -> <<thread, view>> that last wrote it
  touched   \* history: cell -> threads that ever wrote it

vars == <<teamSize, phase, req, offset, views, mem, touched>>

-----------------------------------------------------------------------------
Mul(a, b) == a * b

(* Elements per thread of a view of extents len1[, len2[, len3]].          *)
Extent(lens) == FoldLeft(Mul, 1, lens)

(* Mutants: the subview is taken without the row stride; rows counted     *)
(* from 1.                                                                *)
SubviewStartUnstrided(base, r, L) == base + r
SubviewStartOneBased(base, r, L) == base + (r + 1) * L

(* get_shmem_view_ND: SharedMemView<T*..>(team.team_scratch(1),            *)
(* team.team_size(), len...) is LayoutRight, so row r of the leading        *)
(* team_size() index is the contiguous block [base + r*L, base + (r+1)*L).  *)
SubviewStart(base, r, L) == base + r * L

(* Team-wide size of the view the helper constructs.                       *)
TeamViewSize(t, L) == t * L

(* Mutant: the allocation offset is not moved past a constructed view.     *)
AllocateStays(off, size) == off

(* The ScratchMemorySpace hands out [off, off + size) and moves on.        *)
Allocate(off, size) == off + size

(* The cells of subview v = [start, len].                                  *)
ViewCells(v) == {v.start + i : i \in 0 .. v.len - 1}

Init ==
  /\ teamSize \in TeamSizes
  /\ phase = [r \in Threads(teamSize) |-> IF Requests = <<>> THEN "done" ELSE "get"]
  /\ req = [r \in Threads(teamSize) |-> 1]
  /\ offset = [r \in Threads(teamSize) |-> 0]
  /\ views = [r \in Threads(teamSize) |-> <<>>]
  /\ mem = [c \in Cells(teamSize) |-> NoValue]
  /\ touched = [c \in Cells(teamSize) |-> {}]

(* Thread r calls get_shmem_view_ND for its next array.                    *)
GetShmemView(r) ==
  LET L    == Extent(Requests[req[r]])
      size == TeamViewSize(teamSize, L)
  IN
  /\ phase[r] = "get"
  /\ IF offset[r] + size > ScratchSize(teamSize)
     THEN /\ phase' = [phase EXCEPT ![r] = "aborted"]
          /\ UNCHANGED <<offset, views>>
     ELSE /\ phase' = [phase EXCEPT ![r] = "fill"]
          /\ offset' = [offset EXCEPT ![r] = Allocate(@, size)]
          /\ views' = [views EXCEPT ![r] =
                         Append(@, [start |-> SubviewStart(offset[r], r, L), len |-> L])]
  /\ UNCHANGED <<teamSize, req, mem, touched>>

(* Thread r runs set_vals on the view it just got: every element of the    *)
(* view's data() range is assigned.                                        *)
SetVals(r) ==
  LET v == views[r][req[r]] IN
  /\ phase[r] = "fill"
  /\ mem' = [c \in Cells(teamSize) |-> IF c \in ViewCells(v) THEN <<r, req[r]>> ELSE mem[c]]
  /\ touched' = [c \in Cells(teamSize) |-> IF c \in ViewCells(v) THEN touched[c] \cup {r} ELSE touched[c]]
  /\ req' = [req EXCEPT ![r] = @ + 1]
  /\ phase' = [phase EXCEPT ![r] = IF req[r] = Len(Requests) THEN "done" ELSE "get"]
  /\ UNCHANGED <<teamSize, offset, views>>

Next == \E r \in Threads(teamSize) : GetShmemView(r) \/ SetVals(r)

Spec == Init /\ [][Next]_vars

-----------------------------------------------------------------------------
TypeOK ==
  /\ teamSize \in TeamSizes
  /\ phase \in [Threads(teamSize) -> Phases]
  /\ req \in [Threads(teamSize) -> 1 .. Len(Requests) + 1]
  /\ offset \in [Threads(teamSize) -> 0 .. ScratchSize(teamSize)]
  /\ \A r \in Threads(teamSize) : \A k \in DOMAIN views[r] :
       ViewCells(views[r][k]) \subseteq Cells(teamSize)
  /\ mem \in [Cells(teamSize) -> ({NoValue} \cup (Threads(teamSize) \X (1 .. Len(Requests))))]
  /\ touched \in [Cells(teamSize) -> SUBSET Threads(teamSize)]

(* Scratch cells are owned by one thread: no cell of team scratch is ever  *)
(* written by two threads of the team (the rows get_shmem_view_ND hands    *)
(* out at team_rank() are disjoint), so the concurrent fills never race.   *)
NoScratchRace == \A c \in Cells(teamSize) : Cardinality(touched[c]) <= 1

(* Every array a thread has filled still holds what it wrote, while it     *)
(* goes on requesting and filling further views: no later view, of this   *)
(* thread or another, aliases an earlier one.                              *)
FilledViewsIntact ==
  \A r \in Threads(teamSize) : \A k \in 1 .. req[r] - 1 :
    \A c \in ViewCells(views[r][k]) : mem[c] = <<r, k>>

=============================================================================
