------------------------------- MODULE Daemon -------------------------------
(***************************************************************************)
(* fl-client-daemon: its configuration, the training rounds of the polling *)
(* loop and the signals. run_training_round awaits nothing, so the select  *)
(* of main takes a signal only while the loop sleeps. The epoch metadata,  *)
(* the model and the data of a round are the mocks main.rs makes.          *)
(***************************************************************************)
EXTENDS Configuration, FiniteSets

CONSTANTS
  ConfigFiles,    \* what the operator writes into the configuration file
  Disks,          \* the sets of paths that may exist
  Stopped,        \* no configuration: the process is not running
  MaxStarts,      \* bound: starts of the process
  MaxEpoch        \* bound: rounds of one process

ASSUME DaemonAssumption ==
  /\ Stopped \notin ConfigFiles /\ ConfigFiles \subseteq Configurations \cup {Missing, Malformed}
  /\ Disks \subseteq SUBSET Paths
  /\ MaxStarts \in Nat /\ MaxEpoch \in Nat

VARIABLES
  configFile,     \* the file, outside of the process
  disk,           \* the paths that exist
  held,           \* the configuration ConfigManager holds
  used,           \* the snapshot the loops took when the process started
  lastProcessed,  \* last_processed_epoch
  leaving,        \* the select is complete, main is about to return
  starts,
  lastUpdate      \* the last round's noise and privacy settings, or NoRound

daemonVars == <<configFile, disk, held, used, lastProcessed, leaving, starts, lastUpdate>>
process == <<held, used, lastProcessed, leaving>>

NoRound == [noise |-> "no round yet"]

DaemonInit ==
  /\ configFile = Missing /\ disk = {}
  /\ held = Stopped /\ used = Stopped /\ lastProcessed = 0
  /\ leaving = FALSE /\ starts = 0 /\ lastUpdate = NoRound

-----------------------------------------------------------------------------
\* sqrt(2 ln(1.25 / delta)): a quotient by minus 0 or by a tiny delta may be infinite,
\* and of a delta from 1 to 100 the logarithm has any sign.
Root(delta) ==
  CASE delta = "zero" -> {"infinite", "nan"}
    [] delta = "tiny" -> {"positive", "infinite"}
    [] delta = "fraction" -> {"positive"}
    [] delta = "moderate" -> {"positive", "zero", "nan"}
    [] OTHER -> {"nan"}

\* The clip threshold times a root, which is not large: of the threshold's class.
Times(clip, root) ==
  IF "nan" \in {clip, root} \/ {clip, root} = {"zero", "infinite"} THEN "nan"
  ELSE IF "zero" \in {clip, root} THEN "zero"
  ELSE IF root = "infinite" /\ clip # "negative" THEN "infinite" ELSE clip

\* A quotient, cast to f32: what is too small for that becomes zero, what is too
\* large infinite. A negative one is only ever compared with zero.
Over(a, b) ==
  IF "nan" \in {a, b} \/ (a = b /\ a \in {"zero", "infinite"}) THEN {"nan"}
  ELSE IF a = "zero" THEN {"zero"}
  ELSE IF b = "zero" THEN {"infinite", "negative"}
  ELSE IF {a, b} = {"negative"} THEN {"zero", "positive", "infinite", "nan"}
  ELSE IF "negative" \in {a, b} THEN {"negative", "nan"}
  ELSE IF b = "infinite" THEN {"zero"}
  ELSE IF a = "infinite" THEN {"infinite"}
  ELSE {"positive"} \cup {x \in {"zero"} : b = "huge" \/ (a = "tiny" /\ b # "tiny")}
                    \cup {x \in {"infinite"} : b = "tiny" \/ (a = "huge" /\ b # "huge")}

\* compute_noise_scale; apply_privacy never asks whether privacy is enabled.
NoiseScale(p) == UNION {Over(Times(p.clip_threshold, r), p.epsilon) : r \in Root(p.delta)}

\* add_gaussian_noise: no noise where the scale is at most zero.
Noise(scale) ==
  CASE scale \in {"negative", "zero"} -> "none"
    [] scale = "positive" -> "gaussian"
    [] OTHER -> "not finite"

ValidEpochMetadata_OffByOne(m, last, org) == m.epoch_number > last + 1

\* validate_epoch_metadata
ValidEpochMetadata(m, last, org) ==
  /\ m.epoch_number > last
  /\ m.fedprox_mu \in {"zero", "tiny", "fraction"}
  /\ ~AtMostZero(m.privacy_epsilon)
  /\ ~AtMostZero(m.privacy_delta) /\ ~AtLeastOne(m.privacy_delta)
  /\ m.secure_agg_participants # {} => org \in m.secure_agg_participants

MockEpochMetadata(epoch, org) ==
  [epoch_number |-> epoch, fedprox_mu |-> "fraction", privacy_epsilon |-> "moderate",
   privacy_delta |-> "fraction", secure_agg_participants |-> {org}]

\* validate_dataset, which the round calls without a schema.
ValidDataset(rows, min, max) == min <= rows /\ rows <= max

-----------------------------------------------------------------------------
\* The operator, and whoever creates and removes files.
EditFile(file) ==
  /\ configFile' = file
  /\ UNCHANGED <<disk, process, starts, lastUpdate>>

ChangeDisk(paths) ==
  /\ disk' = paths
  /\ UNCHANGED <<configFile, process, starts, lastUpdate>>

\* main: exits with 1 where the configuration does not load.
Start ==
  /\ used = Stopped /\ starts < MaxStarts
  /\ LoadAndValidate(configFile, disk)
  /\ held' = configFile /\ used' = configFile
  /\ lastProcessed' = 0 /\ leaving' = FALSE
  /\ starts' = starts + 1 /\ lastUpdate' = NoRound
  /\ UNCHANGED <<configFile, disk>>

\* run_training_round, and the polling loop that calls it again after a sleep.
RunTrainingRound ==
  /\ used # Stopped /\ ~leaving /\ lastProcessed < MaxEpoch
  /\ LET epoch == lastProcessed + 1
         metadata == MockEpochMetadata(epoch, used.organization_id)
     IN /\ ValidEpochMetadata(metadata, lastProcessed, used.organization_id)
        /\ ValidDataset(1000, 100, 100000)
        /\ \E scale \in NoiseScale(used.privacy) :
             lastUpdate' = [noise |-> Noise(scale), privacy |-> used.privacy]
        /\ lastProcessed' = epoch
  /\ UNCHANGED <<configFile, disk, held, used, leaving, starts>>

Exit == held' = Stopped /\ used' = Stopped /\ lastProcessed' = 0 /\ leaving' = FALSE

Sighup_Unchecked ==
  /\ used # Stopped /\ ~leaving
  /\ held' = IF configFile \in {Missing, Malformed} THEN held ELSE configFile
  /\ leaving' = TRUE
  /\ UNCHANGED <<configFile, disk, used, lastProcessed, starts, lastUpdate>>

\* SIGHUP: reload swaps the configuration only if the new one loads.
Sighup ==
  /\ used # Stopped /\ ~leaving
  /\ held' = IF LoadAndValidate(configFile, disk) THEN configFile ELSE held
  /\ leaving' = TRUE
  /\ UNCHANGED <<configFile, disk, used, lastProcessed, starts, lastUpdate>>

\* The branch of the select is complete, and nothing follows the select.
MainReturns == leaving /\ Exit /\ UNCHANGED <<configFile, disk, starts, lastUpdate>>

\* SIGTERM and its graceful shutdown, or the end of the process in any other way.
Terminate == used # Stopped /\ ~leaving /\ Exit /\ UNCHANGED <<configFile, disk, starts, lastUpdate>>

ProcessNext == Start \/ RunTrainingRound \/ Sighup \/ MainReturns \/ Terminate

FilesChange ==
  \/ \E file \in ConfigFiles : EditFile(file)
  \/ \E paths \in Disks : ChangeDisk(paths)

DaemonNext == FilesChange \/ ProcessNext

DaemonSpec == DaemonInit /\ [][DaemonNext]_daemonVars

\* The sleep between two rounds ends and the loop goes on; main returns.
DaemonFairness == WF_daemonVars(RunTrainingRound) /\ WF_daemonVars(MainReturns)

-----------------------------------------------------------------------------
(* Type invariant. *)
DaemonTypeOK ==
  /\ configFile \in Configurations \cup {Missing, Malformed} /\ disk \subseteq Paths
  /\ held \in Configurations \cup {Stopped} /\ used \in Configurations \cup {Stopped}
  /\ lastProcessed \in 0..MaxEpoch /\ leaving \in BOOLEAN /\ starts \in 0..MaxStarts

\* Whatever is written into the file and whenever SIGHUP arrives, the daemon holds
\* and uses only configurations that validate would accept on a disk where every
\* path exists: a reload that fails leaves the old one in place.
HeldIsValid ==
  used # Stopped => Valid(held, Paths) /\ Valid(used, Paths)

\* Numbers whose quotients an f32 holds.
Usual == {"fraction", "moderate", "large"}

(* The update of every round that ran with privacy enabled carries Gaussian noise of
   a finite, positive scale, whatever configuration validate accepts, as long as
   epsilon, delta and the clip threshold keep between 10^-15 and 10^15. Outside of
   that validate is not enough: an epsilon of 10^50 leaves no noise at all, one of
   10^-40 noise that is not finite. *)
EnabledPrivacyAddsNoise ==
  /\ lastUpdate # NoRound /\ lastUpdate.privacy.enabled
  /\ {lastUpdate.privacy.epsilon, lastUpdate.privacy.delta, lastUpdate.privacy.clip_threshold}
       \subseteq Usual
  => lastUpdate.noise = "gaussian"

(* The polling loop never gets stuck on an epoch: until the process ends, round
   after round completes, each with metadata and data its own checks accept. *)
RoundsGoOn == used # Stopped /\ lastProcessed < MaxEpoch ~> used = Stopped \/ lastProcessed = MaxEpoch

(* DEPLOYMENT.md:245-253: a reload needs no restart; main.rs:455: "process continues". *)
ReloadNeedsNoRestart == [][leaving => used' # Stopped]_daemonVars

=============================================================================
