------------------------- MODULE MCLidarLineOfSite -------------------------
(* Model-checking instance of LidarLineOfSite: three candidate names per  *)
(* suffix and four incarnations, so that the restart names run out.      *)
EXTENDS LidarLineOfSite

(* One YAML node per branch of load(): each output key (missing, text,    *)
(* netcdf, dataprobes, a misspelling), both timing keys, and a valid and  *)
(* an invalid predictor.                                                  *)
MCConfigs ==
  {[output |-> "text",       timing |-> "time_step", predictor |-> "none"],
   [output |-> "netcdf",     timing |-> "scan_time", predictor |-> "nearest"],
   [output |-> "none",       timing |-> "time_step", predictor |-> "forward_euler"],
   [output |-> "dataprobes", timing |-> "scan_time", predictor |-> "none"],
   [output |-> "other",      timing |-> "scan_time", predictor |-> "none"],
   [output |-> "other",      timing |-> "time_step", predictor |-> "none"],
   [output |-> "text",       timing |-> "scan_time", predictor |-> "other"]}

(* Incarnations that start with a node that writes files.                 *)
MCWritingConfigs ==
  {[output |-> "text",   timing |-> "time_step", predictor |-> "none"],
   [output |-> "netcdf", timing |-> "scan_time", predictor |-> "nearest"]}
=============================================================================
