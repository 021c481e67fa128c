----------------------------- MODULE CliSession -----------------------------
(***************************************************************************)
(* fl-client on the host of the daemon: the search for a configuration,    *)
(* the wizard that writes one, one-shot commands and the interactive menu, *)
(* which uses the configuration it was started with to its end. The file   *)
(* of the daemon comes first in the search, the one of the wizard second.  *)
(***************************************************************************)
EXTENDS Daemon

CONSTANTS
  Organizations,   \* what is typed at the wizard's prompts
  CertPaths, CaPaths, DataPaths,
  Quoted,          \* for each of these, what TOML reads where it stands in double quotes
  Unreadable       \* a model value: nothing, the text ends its string or escapes wrongly

\* The URL and the model id the wizard writes are not empty, and read as typed.
Answers == Organizations \cup CertPaths \cup CaPaths \cup DataPaths
ASSUME CliAssumption == {"coordinator", "model"} \subseteq Texts /\ Unreadable \notin Answers

VARIABLES
  hasHome,         \* whether the user has a home directory
  homeConfig,      \* ~/.fl-client/config.toml
  localConfig,     \* config.toml in the working directory
  session,         \* the configuration of a running menu, or Stopped
  shown,           \* the last command's configuration, or "no config"
  typed            \* history: the answers from which homeConfig was written

cliVars == <<hasHome, homeConfig, localConfig, session, shown, typed>>

NothingTyped == [file |-> "nothing typed"]
NoConfig == [file |-> "none loads"]

CliInit ==
  /\ hasHome \in BOOLEAN /\ homeConfig = Missing /\ localConfig = Missing
  /\ session = Stopped /\ shown = NoConfig /\ typed = NothingTyped

\* A configuration with what init asks for; what init leaves out has the default.
WizardConfig(org, cert, ca, data) ==
  [organization_id |-> org,
   coordinator |-> [base_url |-> "coordinator", poll_interval_secs |-> 10, max_backoff_secs |-> 300,
                    request_timeout_secs |-> 30, max_retries |-> Defaults.max_retries],
   certificates |-> [cert_path |-> cert, cert_dir |-> cert, ca_bundle_path |-> ca,
                     key_storage |-> [type |-> "tpm", device |-> "/dev/tpmrm0"],
                     rotation_warning_days |-> Defaults.rotation_warning_days],
   training |-> [local_epochs |-> 5, fedprox_mu |-> "fraction",
                 loss_tolerance_percent |-> Defaults.loss_tolerance_percent,
                 max_gradient_norm |-> Defaults.max_gradient_norm],
   privacy |-> [enabled |-> Defaults.enabled, epsilon |-> "moderate", delta |-> "fraction",
                clip_threshold |-> "moderate"],
   secure_aggregation |-> [enabled |-> Defaults.enabled, threshold |-> Defaults.threshold,
                           dropout_recovery |-> Defaults.dropout_recovery],
   resources |-> [max_cpu_percent |-> "moderate", max_ram_gb |-> "moderate",
                  max_disk_gb |-> "moderate", max_gpu_memory_gb |-> Absent],
   storage |-> [working_dir |-> "work", model_retention_count |-> Defaults.model_retention_count],
   network |-> [max_concurrent_requests |-> Defaults.max_concurrent_requests],
   models |-> <<[model_id |-> "model", data_source |-> data, min_dataset_size |-> Absent,
                 max_dataset_size |-> Absent]>>]

\* The file init writes: each answer goes between double quotes as it was typed, so
\* a backslash in it starts an escape and a quote ends the string.
WizardFile(org, cert, ca, data) ==
  IF Unreadable \in {Quoted[org], Quoted[cert], Quoted[ca], Quoted[data]} THEN Malformed
  ELSE WizardConfig(Quoted[org], Quoted[cert], Quoted[ca], Quoted[data])

\* init: asks before it overwrites, and checks none of the paths but the first, as
\* it was typed.
Wizard(org, cert, ca, data) ==
  /\ session = Stopped /\ cert \in disk
  /\ \/ /\ hasHome
        /\ homeConfig' = WizardFile(org, cert, ca, data)
        /\ typed' = [org |-> org, cert |-> cert, ca |-> ca, data |-> data]
        /\ UNCHANGED localConfig
     \/ ~hasHome /\ localConfig' = WizardFile(org, cert, ca, data) /\ UNCHANGED <<homeConfig, typed>>
  /\ UNCHANGED <<hasHome, session, shown>>

Found_Local == IF configFile # Missing THEN configFile ELSE localConfig

\* load_config without --config: the first file that exists, loads or not. It
\* never looks into the working directory.
Found == IF configFile # Missing THEN configFile ELSE homeConfig

Loaded == IF LoadAndValidate(Found, disk) THEN Found ELSE NoConfig

\* whoami and the other one-shot commands.
Command == session = Stopped /\ shown' = Loaded /\ UNCHANGED <<hasHome, homeConfig, localConfig, session, typed>>

\* run_interactive: its items show the configuration the menu was started with.
OpenMenu ==
  /\ session = Stopped /\ Loaded # NoConfig
  /\ session' = Loaded
  /\ UNCHANGED <<hasHome, homeConfig, localConfig, shown, typed>>
MenuItem == session # Stopped /\ shown' = session /\ UNCHANGED <<hasHome, homeConfig, localConfig, session, typed>>
CloseMenu == session # Stopped /\ session' = Stopped /\ UNCHANGED <<hasHome, homeConfig, localConfig, shown, typed>>

CliNext ==
  \/ \E org \in Organizations, cert \in CertPaths, ca \in CaPaths, data \in DataPaths :
       Wizard(org, cert, ca, data)
  \/ Command \/ OpenMenu \/ MenuItem \/ CloseMenu

HostInit == DaemonInit /\ CliInit

\* The daemon's process neither reads nor writes what the client does.
HostNext ==
  \/ FilesChange /\ UNCHANGED cliVars
  \/ CliNext /\ UNCHANGED daemonVars

HostSpec == HostInit /\ [][HostNext]_<<daemonVars, cliVars>>

-----------------------------------------------------------------------------
\* What was typed reads as typed, names an organization, and its paths exist.
GoodAnswers ==
  /\ \A text \in {typed.org, typed.cert, typed.ca, typed.data} : Quoted[text] = text
  /\ typed.org # Empty /\ {typed.cert, typed.ca, typed.data} \subseteq disk

(* Where no configuration of the daemon comes first, the client loads what was last
   typed into the wizard exactly when the answers are plain, the organization is not
   empty and every path exists by now. init says "Config written" of any answers:
   one with a quote or a backslash gives a file that does not load, or other settings. *)
WizardConfigLoads ==
  homeConfig # Missing /\ configFile = Missing =>
    (Loaded = WizardConfig(typed.org, typed.cert, typed.ca, typed.data) <=> GoodAnswers)

\* No command runs with settings the daemon would refuse: what the client shows was
\* valid when it was loaded, also in a menu that outlives its file.
ShownIsValid == \A c \in {session, shown} \ {Stopped, NoConfig} : Valid(c, Paths)

(* The daemon and the client, which share files and load them at different times,
   never work with a configuration validate refuses: neither after a reload that
   fails nor in a menu that outlives its file. *)
OnlyValidInUse == HeldIsValid /\ ShownIsValid

=============================================================================
