--------------------------- MODULE Configuration ----------------------------
(***************************************************************************)
(* The configuration file of the daemon and the command line client: its   *)
(* sections, the values serde fills in, and what ConfigManager::validate   *)
(* accepts. A floating-point number is the class its comparisons and the   *)
(* arithmetic of the noise tell apart; every comparison with a NaN is      *)
(* false. Fields no code reads, and those only displayed, are left out.    *)
(***************************************************************************)
EXTENDS Naturals, Sequences

CONSTANTS
  Paths,       \* file system paths a configuration names
  Texts,       \* organization ids, model ids and URLs
  Empty,       \* the empty text
  Absent       \* an optional field that is not given

\* x < 0 (and minus infinity), 0 (and minus 0), and what is above by its limits:
\* tiny < 10^-15 <= fraction < 1 <= moderate <= 100 < large <= 10^15 < huge.
Floats ==
  {"negative", "zero", "tiny", "fraction", "moderate", "large", "huge", "infinite", "nan"}

ASSUME ConfigurationAssumption == Empty \notin Texts /\ Absent \notin Nat \cup Floats

BelowZero(x) == x = "negative"
AtMostZero(x) == x \in {"negative", "zero"}
AtLeastOne(x) == x \in {"moderate", "large", "huge", "infinite"}
AboveHundred(x) == x \in {"large", "huge", "infinite"}

-----------------------------------------------------------------------------
CoordinatorConfig ==
  [base_url : Texts \cup {Empty}, poll_interval_secs : Nat, max_backoff_secs : Nat,
   request_timeout_secs : Nat, max_retries : Nat]
KeyStorageConfig == [type : {"tpm", "hsm", "cloudhsm"}, device : Paths]
CertificateConfig ==
  [cert_path : Paths, cert_dir : Paths, ca_bundle_path : Paths, key_storage : KeyStorageConfig,
   rotation_warning_days : Nat]
TrainingConfig ==
  [local_epochs : Nat, fedprox_mu : Floats, loss_tolerance_percent : Floats,
   max_gradient_norm : Floats]
PrivacyConfig == [enabled : BOOLEAN, epsilon : Floats, delta : Floats, clip_threshold : Floats]
SecureAggConfig == [enabled : BOOLEAN, dropout_recovery : BOOLEAN, threshold : Nat \cup {Absent}]
ResourceConfig ==
  [max_cpu_percent : Floats, max_ram_gb : Floats, max_disk_gb : Floats,
   max_gpu_memory_gb : Floats \cup {Absent}]
StorageConfig == [working_dir : Paths, model_retention_count : Nat]
NetworkConfig == [max_concurrent_requests : Nat]
ModelConfig ==
  [model_id : Texts \cup {Empty}, data_source : Paths,
   min_dataset_size : Nat \cup {Absent}, max_dataset_size : Nat \cup {Absent}]

Configurations ==
  [organization_id : Texts \cup {Empty}, coordinator : CoordinatorConfig,
   certificates : CertificateConfig, training : TrainingConfig, privacy : PrivacyConfig,
   secure_aggregation : SecureAggConfig, resources : ResourceConfig,
   storage : StorageConfig, network : NetworkConfig, models : Seq(ModelConfig)]

\* The values of fields a configuration file leaves out.
Defaults ==
  [max_retries |-> 5, rotation_warning_days |-> 30, loss_tolerance_percent |-> "moderate",
   max_gradient_norm |-> "moderate", enabled |-> TRUE, dropout_recovery |-> TRUE,
   threshold |-> Absent, model_retention_count |-> 5, max_concurrent_requests |-> 10]

-----------------------------------------------------------------------------
ValidCoordinator(c) ==
  /\ c.base_url # Empty
  /\ c.poll_interval_secs # 0 /\ c.max_backoff_secs # 0 /\ c.request_timeout_secs # 0

ValidCertificates(c, disk) == {c.cert_path, c.cert_dir, c.ca_bundle_path} \subseteq disk

ValidTraining(c) ==
  /\ c.local_epochs # 0
  /\ ~BelowZero(c.fedprox_mu) /\ ~BelowZero(c.loss_tolerance_percent)
  /\ ~AtMostZero(c.max_gradient_norm)

ValidPrivacy_AnyDelta(c) ==
  c.enabled => ~AtMostZero(c.epsilon) /\ ~AtMostZero(c.delta) /\ ~AtMostZero(c.clip_threshold)

\* Nothing is asked of the numbers where privacy is not enabled.
ValidPrivacy(c) ==
  c.enabled =>
    /\ ~AtMostZero(c.epsilon)
    /\ ~AtMostZero(c.delta) /\ ~AtLeastOne(c.delta)
    /\ ~AtMostZero(c.clip_threshold)

ValidResources(c) ==
  /\ ~AtMostZero(c.max_cpu_percent) /\ ~AboveHundred(c.max_cpu_percent)
  /\ ~AtMostZero(c.max_ram_gb) /\ ~AtMostZero(c.max_disk_gb)
  /\ c.max_gpu_memory_gb # Absent => ~AtMostZero(c.max_gpu_memory_gb)

ValidStorage(c) == c.model_retention_count # 0
ValidNetwork(c) == c.max_concurrent_requests # 0

ValidModel(c, disk) ==
  /\ c.model_id # Empty
  /\ c.data_source \in disk
  /\ c.min_dataset_size # 0
  /\ Absent \notin {c.min_dataset_size, c.max_dataset_size} => c.min_dataset_size <= c.max_dataset_size

\* ConfigManager::validate, with the paths that exist at that moment.
Valid(c, disk) ==
  /\ c.organization_id # Empty
  /\ ValidCoordinator(c.coordinator) /\ ValidCertificates(c.certificates, disk)
  /\ ValidTraining(c.training) /\ ValidPrivacy(c.privacy) /\ ValidResources(c.resources)
  /\ ValidStorage(c.storage) /\ ValidNetwork(c.network)
  /\ c.models # <<>> /\ \A i \in DOMAIN c.models : ValidModel(c.models[i], disk)

\* A configuration file: one that is missing, one that is not TOML or lacks a
\* field, or the configuration it holds.
Missing == [file |-> "missing"]
Malformed == [file |-> "malformed"]
LoadAndValidate(file, disk) == file \notin {Missing, Malformed} /\ Valid(file, disk)

=============================================================================
