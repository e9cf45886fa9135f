--------------------------- MODULE MCTeamScratch ---------------------------
(* Teams of one to three threads asking for a 1-D, a 2-D and a 3-D view,  *)
(* with bytes_per_thread sized for one row of each and nothing per team,  *)
(* the way the kernels size their policies.                               *)
EXTENDS TeamScratch

MCRequests == <<<<2>>, <<1, 2>>, <<2, 1, 1>>>>
=============================================================================
