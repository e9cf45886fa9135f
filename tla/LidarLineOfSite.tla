-------------------------- MODULE LidarLineOfSite --------------------------
(***************************************************************************)
(* The root rank of a LidarLineOfSite (src/src/wind_energy/SyntheticLidar.C) *)
(* across the life of a simulation: load() of the YAML node, one output()  *)
(* per time step writing the sampled line to a text or NetCDF file, I/O    *)
(* errors thrown out of output(), and restarts of the whole simulation,    *)
(* which lose every member of the object but keep the files on disk.       *)
(*                                                                         *)
(* Data is abstracted: the sample of the line at time t is the value t,    *)
(* one text line per point, one NetCDF record per output.                  *)
(***************************************************************************)
EXTENDS Integers, Sequences, FiniteSets, FiniteSetsExt

CONSTANTS
  MaxRestarts,    \* max_restarts of determine_filename (2048 in the code)
  MaxRuns,        \* bound: number of process incarnations explored
  MaxTime,        \* bound: number of lidar output steps per simulation
  NPoints,        \* npoints_ ("points_along_line")
  DefaultOutput,  \* output_type_ when the node has no "output" key (header)
  IoFailures,     \* TRUE: explore NetCDF / stream errors inside output()
  Configs         \* the YAML nodes a run may be started with

TEXT == "TEXT"
NETCDF == "NETCDF"
DATAPROBE == "DATAPROBE"
OutputTypes == {TEXT, NETCDF, DATAPROBE}

ASSUME MaxRestarts \in Nat \ {0, 1}
ASSUME MaxRuns \in Nat \ {0}
ASSUME MaxTime \in Nat \ {0}
ASSUME NPoints \in Nat \ {0}
ASSUME DefaultOutput \in {TEXT, NETCDF}
ASSUME IoFailures \in BOOLEAN
ASSUME Configs \subseteq
         [output    : {"none", "text", "netcdf", "dataprobes", "other"},
          timing    : {"time_step", "scan_time"},
          predictor : {"none", "nearest", "forward_euler", "other"}]

(* A file name: name_ + suffix (rst = 0) or name_ + "-rst-" + rst + suffix. *)
FileNames == [sfx : {"txt", "nc"}, rst : 0 .. MaxRestarts - 1]
NoName == [sfx |-> "none", rst |-> 0]

(* Contents of a text file: the header line and "t,x,y,z,u,v,w" lines.    *)
Header == [time |-> -1, pt |-> 0]   \* "t,x,y,z,u,v,w"
TxtLine == [time : 0 .. MaxTime, pt : 1 .. NPoints]

(* Contents of a NetCDF file: whether nc_enddef was reached, and one       *)
(* sequence per variable along the unlimited num_timesteps dimension.      *)
NcVars == {"step", "time", "coordinates", "velocity"}
Fill == -1      \* NetCDF fill value of a record not written
NcFile == [defined : BOOLEAN, vars : [NcVars -> Seq(Fill .. MaxTime + MaxRuns)]]

Phases == {"load", "running", "stopped"}
Errors == {"none", "load", "io", "restarts"}

VARIABLES
  run,          \* incarnation of the simulation process
  phase,        \* "load": before load(); "stopped": an exception escaped
  error,        \* why the process stopped
  outputType,   \* output_type_
  counter,      \* internal_output_counter_
  fname,        \* fname_
  t,            \* time() of the simulation, in lidar output steps
  disk,         \* file name -> contents, for every existing file
  written,      \* history: samples output() returned successfully for
  node          \* the YAML node of this incarnation (the input file)

vars == <<run, phase, error, outputType, counter, fname, t, disk, written, node>>

-----------------------------------------------------------------------------
(* Helpers *)

Put(d, f, c) == [g \in DOMAIN d \cup {f} |-> IF g = f THEN c ELSE d[g]]

(* nc_put_vara at record index i (0-based) of a variable along the        *)
(* unlimited dimension: records between the end and i become fill values. *)
PutAt(s, i, v) ==
  [j \in 1 .. IF i + 1 > Len(s) THEN i + 1 ELSE Len(s) |->
     IF j = i + 1 THEN v ELSE IF j <= Len(s) THEN s[j] ELSE Fill]

(* load(): the "output" key. The last branch tests the string literal     *)
(* "dataprobes", which is always true, so every other value selects       *)
(* DATAPROBE.                                                             *)
OutputTypeOf(o) ==
  IF o = "none" THEN DefaultOutput
  ELSE IF o = "text" THEN TEXT
  ELSE IF o = "netcdf" THEN NETCDF
  ELSE DATAPROBE

(* load(): whether the node is accepted. "time_step" is only honoured for *)
(* non-DATAPROBE output; otherwise scan_time / number_of_samples are      *)
(* required (get_required throws). An unknown predictor throws.           *)
LoadSucceeds(cfg, type) ==
  /\ cfg.timing = "time_step" => type # DATAPROBE
  /\ cfg.predictor \in {"none", "nearest", "forward_euler"}

(* Mutants of determine_filename: no existence check at all; a loop that  *)
(* stops one name early; a loop that runs one name past max_restarts.     *)
DetermineFilenameNoCheck(d, sfx) == [ok |-> TRUE, name |-> [sfx |-> sfx, rst |-> 0]]
DetermineFilenameShortLoop(d, sfx) ==
  LET base == [sfx |-> sfx, rst |-> 0]
      free == {j \in 1 .. MaxRestarts - 2 : [sfx |-> sfx, rst |-> j] \notin DOMAIN d}
  IN  IF base \notin DOMAIN d THEN [ok |-> TRUE, name |-> base]
      ELSE IF free = {} THEN [ok |-> FALSE, name |-> NoName]
      ELSE [ok |-> TRUE, name |-> [sfx |-> sfx, rst |-> Min(free)]]
DetermineFilenameLongLoop(d, sfx) ==
  LET base == [sfx |-> sfx, rst |-> 0]
      free == {j \in 1 .. MaxRestarts : [sfx |-> sfx, rst |-> j] \notin DOMAIN d}
  IN  IF base \notin DOMAIN d THEN [ok |-> TRUE, name |-> base]
      ELSE IF free = {} THEN [ok |-> FALSE, name |-> NoName]
      ELSE [ok |-> TRUE, name |-> [sfx |-> sfx, rst |-> Min(free)]]

(* determine_filename(name_, suffix): name_+suffix if it does not exist,  *)
(* else the first name_-rst-j+suffix, 1 <= j < max_restarts, that does    *)
(* not; "Too many restarts checked" when all exist.                       *)
DetermineFilename(d, sfx) ==
  LET base == [sfx |-> sfx, rst |-> 0]
      free == {j \in 1 .. MaxRestarts - 1 : [sfx |-> sfx, rst |-> j] \notin DOMAIN d}
  IN  IF base \notin DOMAIN d THEN [ok |-> TRUE, name |-> base]
      ELSE IF free = {} THEN [ok |-> FALSE, name |-> NoName]
      ELSE [ok |-> TRUE, name |-> [sfx |-> sfx, rst |-> Min(free)]]

(* How far a sequence of k I/O calls gets before one fails.               *)
Completed(k) == IF IoFailures THEN 0 .. k ELSE {k}

(* std::ofstream file{fname_, out} creates the file; the following        *)
(* file.open(fname_) on the already open stream fails and sets failbit    *)
(* (this stream has no exceptions enabled), so the header insertion       *)
(* writes nothing.                                                        *)
ReopenSucceeds(isOpen) == ~isOpen
TxtNewFile == IF ReopenSucceeds(TRUE) THEN <<Header>> ELSE <<>>

(* prepare_nc_file: nc_create with NC_CLOBBER, then the definitions.      *)
NcNewFile(defined) == [defined |-> defined, vars |-> [v \in NcVars |-> <<>>]]

(* output_nc: the four nc_put_vara calls, in order, at index counter.     *)
NcPutOrder == <<"step", "time", "coordinates", "velocity">>
NcPutRecord(file, idx, k, c, time) ==
  LET val == [step |-> c, time |-> time,
              coordinates |-> time, velocity |-> time]
  IN [file EXCEPT !.vars =
        [v \in NcVars |->
           IF \E i \in 1 .. k : NcPutOrder[i] = v
           THEN PutAt(file.vars[v], idx, val[v]) ELSE file.vars[v]]]

(* Stop the process: an exception propagated out of output().             *)
Fail(why, d) ==
  /\ phase' = "stopped" /\ error' = why /\ disk' = d
  /\ UNCHANGED <<run, outputType, counter, fname, t, written, node>>

(* Mutant: output_txt / output_nc without ++internal_output_counter_.      *)
SucceedNoCount(f, d) ==
  /\ disk' = d /\ fname' = f
  /\ written' = written \cup
       {[run |-> run, time |-> t, file |-> f, idx |-> counter]}
  /\ t' = t + 1
  /\ UNCHANGED <<run, phase, error, outputType, node, counter>>

(* output() returned: the sample of time t is in fname_, record counter.  *)
Succeed(f, d) ==
  /\ disk' = d /\ fname' = f
  /\ counter' = counter + 1
  /\ written' = written \cup
       {[run |-> run, time |-> t, file |-> f, idx |-> counter]}
  /\ t' = t + 1
  /\ UNCHANGED <<run, phase, error, outputType, node>>

-----------------------------------------------------------------------------
(* Actions *)

Init ==
  /\ run = 0
  /\ phase = "load"
  /\ error = "none"
  /\ outputType = DefaultOutput
  /\ counter = 0
  /\ fname = NoName
  /\ t = 0
  /\ disk = [f \in {} |-> NcNewFile(FALSE)]
  /\ written = {}
  /\ node = CHOOSE cfg \in Configs : TRUE

(* LidarLineOfSite::load, at the start of every incarnation.              *)
Load(cfg) ==
  LET type == OutputTypeOf(cfg.output) IN
  /\ phase = "load"
  /\ outputType' = type
  /\ node' = cfg
  /\ IF LoadSucceeds(cfg, type)
     THEN phase' = "running" /\ error' = "none"
     ELSE phase' = "stopped" /\ error' = "load"
  /\ UNCHANGED <<run, counter, fname, t, disk, written>>

(* LidarLineOfSite::output for DATAPROBE: returns at once.                *)
OutputDataprobe ==
  /\ phase = "running" /\ t < MaxTime
  /\ outputType = DATAPROBE
  /\ t' = t + 1
  /\ UNCHANGED <<run, phase, error, outputType, counter, fname, disk, written, node>>

(* LidarLineOfSite::output on the root rank for TEXT: output_txt.         *)
OutputTxt ==
  /\ phase = "running" /\ t < MaxTime
  /\ outputType = TEXT
  /\ LET first == counter = 0
         dn    == IF first THEN DetermineFilename(disk, "txt")
                  ELSE [ok |-> TRUE, name |-> fname]
         f     == dn.name
         d1    == IF first THEN Put(disk, f, TxtNewFile) ELSE disk
         lines == [j \in 1 .. NPoints |-> [time |-> t, pt |-> j]]
     IN IF ~dn.ok THEN Fail("restarts", disk)
        ELSE \E k \in Completed(NPoints) :
               LET d2 == Put(d1, f, d1[f] \o SubSeq(lines, 1, k)) IN
               IF k = NPoints THEN Succeed(f, d2) ELSE Fail("io", d2)

(* LidarLineOfSite::output on the root rank for NETCDF: output_nc, with   *)
(* prepare_nc_file on the first call. prepare may fail at nc_create (no   *)
(* file) or after it (a file without definitions); then nc_open and the   *)
(* four puts, any of which may fail.                                      *)
OutputNc ==
  /\ phase = "running" /\ t < MaxTime
  /\ outputType = NETCDF
  /\ LET first == counter = 0
         dn    == IF first THEN DetermineFilename(disk, "nc")
                  ELSE [ok |-> TRUE, name |-> fname]
         f     == dn.name
     IN IF ~dn.ok THEN Fail("restarts", disk)
        ELSE \E p \in (IF first THEN Completed(2) ELSE {2}) :
               LET d1 == IF ~first THEN disk
                         ELSE IF p = 0 THEN disk
                         ELSE Put(disk, f, NcNewFile(p = 2))
               IN IF p < 2 THEN Fail("io", d1)
                  ELSE \E k \in Completed(4) :
                         LET d2 == Put(d1, f, NcPutRecord(d1[f], counter, k, counter, t))
                         IN IF k = 4 THEN Succeed(f, d2) ELSE Fail("io", d2)

(* The job is killed or ends, and the simulation is restarted from a      *)
(* checkpoint at or before the current time. Files stay; the object is    *)
(* constructed anew (internal_output_counter_ = 0, fname_ empty).         *)
Restart ==
  /\ run < MaxRuns - 1
  /\ run' = run + 1
  /\ phase' = "load"
  /\ error' = "none"
  /\ counter' = 0
  /\ fname' = NoName
  /\ \E c \in 0 .. t : t' = c
  /\ UNCHANGED <<outputType, disk, written, node>>

Next ==
  \/ \E cfg \in Configs : Load(cfg)
  \/ OutputDataprobe
  \/ OutputTxt
  \/ OutputNc
  \/ Restart

Spec == Init /\ [][Next]_vars

-----------------------------------------------------------------------------
(* Properties *)

TypeOK ==
  /\ run \in 0 .. MaxRuns - 1
  /\ phase \in Phases
  /\ error \in Errors
  /\ outputType \in OutputTypes
  /\ node \in Configs
  /\ counter \in 0 .. MaxTime
  /\ fname \in FileNames \cup {NoName}
  /\ t \in 0 .. MaxTime
  /\ DOMAIN disk \subseteq FileNames
  /\ \A f \in DOMAIN disk :
       IF f.sfx = "txt" THEN disk[f] \in Seq(TxtLine \cup {Header})
       ELSE disk[f] \in NcFile

(* Whether file contents c hold the sample w, as output() wrote it.       *)
HoldsSample(c, w) ==
  IF w.file.sfx = "txt"
  THEN \A j \in 1 .. NPoints :
         \E i \in 1 .. Len(c) : c[i] = [time |-> w.time, pt |-> j]
  ELSE \A v \in NcVars :
         /\ Len(c.vars[v]) > w.idx
         /\ c.vars[v][w.idx + 1] = IF v = "step" THEN w.idx ELSE w.time

(* Every sample an output() call returned for, in this incarnation or an  *)
(* earlier one, is still in the file it was written to: a restart never   *)
(* recreates (NC_CLOBBER, ios::out) a file an earlier run wrote.          *)
SamplesPersist ==
  \A w \in written : w.file \in DOMAIN disk /\ HoldsSample(disk[w.file], w)

(* Each incarnation writes all its samples to one file, and no two        *)
(* incarnations write to the same file: internal_output_counter_ keeps    *)
(* the first-call branch (determine_filename) to the first output.        *)
OneFilePerRun ==
  \A w1, w2 \in written : (w1.run = w2.run) <=> (w1.file = w2.file)

(* determine_filename only gives up ("Too many restarts checked") when    *)
(* every one of the max_restarts candidate names exists.                  *)
RestartsExhaustedOnlyWhenAllTaken ==
  error = "restarts" =>
    \A j \in 0 .. MaxRestarts - 1 :
      [sfx |-> IF outputType = TEXT THEN "txt" ELSE "nc", rst |-> j] \in DOMAIN disk

(* A text file output_txt created starts with the "t,x,y,z,u,v,w" header  *)
(* line the code writes on the first call.                                *)
TxtHeaderFirst ==
  \A f \in DOMAIN disk : f.sfx = "txt" /\ disk[f] # <<>> => disk[f][1] = Header

=============================================================================
