--------------------------- MODULE MCLidarReduce ---------------------------
EXTENDS LidarReduce
=============================================================================
