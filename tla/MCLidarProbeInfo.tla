-------------------------- MODULE MCLidarProbeInfo --------------------------
EXTENDS LidarProbeInfo

(* Up to 8 processors; sample counts from a negative one through more     *)
(* samples than processors.                                                *)
MCProcCounts == 1 .. 8
MCSampleCounts == -1 .. 10

=============================================================================
