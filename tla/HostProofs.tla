----------------------------- MODULE HostProofs ------------------------------
(***************************************************************************)
(* Whatever the operator writes into the configuration file, whichever     *)
(* paths come and go and whenever SIGHUP arrives, the daemon and the       *)
(* client beside it hold and use configurations that validate accepts;     *)
(* what the wizard writes of plain answers is one of them; and what        *)
(* validate asks of the privacy section is enough for the arithmetic of    *)
(* the noise, where its numbers are of usual size. Then the connection to  *)
(* the coordinator: what a call sends and reports, for any number of calls *)
(* that share the backoff counter, and what overlapping rotations leave    *)
(* the client to identify itself with.                                     *)
(***************************************************************************)
EXTENDS Integers, CliSession, NetworkEngine, Certificates, TLAPS

Outside == configFile \in Configurations \cup {Missing, Malformed} /\ disk \subseteq Paths

\* What a running process has was a configuration that loaded.
Loads(c) == c \in Configurations /\ Valid(c, Paths)

HeldLoads == used # Stopped => Loads(held) /\ Loads(used)

DaemonInv == Outside /\ HeldLoads /\ EnabledPrivacyAddsNoise

-----------------------------------------------------------------------------
(* A path that goes away later does not make a configuration wrong that was read
   while it was there. *)
LEMMA StaysValid ==
  ASSUME NEW c, NEW before, NEW after, before \subseteq after, Valid(c, before)
  PROVE  Valid(c, after)
<1>1. ValidCertificates(c.certificates, after)
  BY DEF Valid, ValidCertificates
<1>2. ASSUME NEW i \in DOMAIN c.models PROVE ValidModel(c.models[i], after)
  BY DEF Valid, ValidModel
<1> QED
  BY <1>1, <1>2 DEF Valid

(* What the daemon loads is a configuration that validate accepts. *)
LEMMA LoadedIsValid ==
  ASSUME Outside, LoadAndValidate(configFile, disk)
  PROVE  Loads(configFile)
  BY StaysValid DEF Outside, LoadAndValidate, Loads

(* Whatever validate accepts as an enabled privacy section gives Gaussian noise of a
   finite, positive scale, if an f32 holds the quotients of its numbers. That validate
   bounds delta from above is needed for the root of its logarithm. *)
LEMMA ValidPrivacyGivesNoise ==
  ASSUME NEW p \in PrivacyConfig, ValidPrivacy(p), p.enabled,
         {p.epsilon, p.delta, p.clip_threshold} \subseteq Usual,
         NEW scale \in NoiseScale(p)
  PROVE  Noise(scale) = "gaussian"
<1>1. p.delta = "fraction"
  BY DEF Usual, ValidPrivacy, AtLeastOne
<1>2. Root(p.delta) = {"positive"}
  BY <1>1 DEF Root
<1>3. \A a, b \in Usual : Over(Times(a, "positive"), b) = {"positive"}
  <2>1. \A a \in Usual : Times(a, "positive") = a
    BY DEF Usual, Times
  <2>2. \A a, b \in Usual : Over(a, b) = {"positive"}
    BY DEF Usual, Over
  <2> QED
    BY <2>1, <2>2
<1>4. scale = "positive"
  BY <1>2, <1>3 DEF NoiseScale
<1> QED
  BY <1>4 DEF Noise

(* The process is not running at the start. *)
LEMMA DaemonInitInv == DaemonInit => DaemonInv
  BY DEF DaemonInit, DaemonInv, Outside, HeldLoads, EnabledPrivacyAddsNoise

(* The file and the disk change under the running process. *)
LEMMA FilesChangeInv == DaemonInv /\ FilesChange => DaemonInv'
<1> SUFFICES ASSUME DaemonInv, FilesChange PROVE DaemonInv'
  OBVIOUS
<1>1. Outside'
  BY DaemonAssumption DEF FilesChange, EditFile, ChangeDisk, DaemonInv, Outside
<1>2. UNCHANGED <<held, used, lastUpdate>>
  BY DEF FilesChange, EditFile, ChangeDisk, process
<1> QED
  BY <1>1, <1>2 DEF DaemonInv, HeldLoads, EnabledPrivacyAddsNoise

(* A start takes the file as it is, and only if it loads. *)
LEMMA StartInv == DaemonInv /\ Start => DaemonInv'
<1> SUFFICES ASSUME DaemonInv, Start PROVE DaemonInv'
  OBVIOUS
<1>1. Loads(configFile)
  BY LoadedIsValid DEF DaemonInv, Start
<1>2. held' = configFile /\ used' = configFile /\ lastUpdate' = NoRound
      /\ UNCHANGED <<configFile, disk>>
  BY DEF Start
<1> QED
  BY <1>1, <1>2 DEF DaemonInv, Outside, HeldLoads, EnabledPrivacyAddsNoise

(* The noise of a round comes from the snapshot, which was valid when it was taken. *)
LEMMA RoundInv == DaemonInv /\ RunTrainingRound => DaemonInv'
<1> SUFFICES ASSUME DaemonInv, RunTrainingRound PROVE DaemonInv'
  OBVIOUS
<1>1. Outside' /\ HeldLoads'
  BY DEF DaemonInv, RunTrainingRound, Outside, HeldLoads
<1>2. used.privacy \in PrivacyConfig /\ ValidPrivacy(used.privacy)
  BY DEF DaemonInv, HeldLoads, RunTrainingRound, Loads, Valid, Configurations
<1>3. PICK scale \in NoiseScale(used.privacy) :
        lastUpdate' = [noise |-> Noise(scale), privacy |-> used.privacy]
  BY DEF RunTrainingRound
<1>4. EnabledPrivacyAddsNoise'
  BY <1>2, <1>3, ValidPrivacyGivesNoise DEF EnabledPrivacyAddsNoise
<1> QED
  BY <1>1, <1>4 DEF DaemonInv

(* A reload that does not load leaves the old configuration in place. *)
LEMMA SighupInv == DaemonInv /\ Sighup => DaemonInv'
<1> SUFFICES ASSUME DaemonInv, Sighup PROVE DaemonInv'
  OBVIOUS
<1>1. Loads(held')
  BY LoadedIsValid DEF DaemonInv, HeldLoads, Sighup
<1>2. UNCHANGED <<configFile, disk, used, lastUpdate>>
  BY DEF Sighup
<1> QED
  BY <1>1, <1>2 DEF DaemonInv, Outside, HeldLoads, EnabledPrivacyAddsNoise

(* The invariant in every reachable state. *)
LEMMA DaemonAlwaysInv == DaemonSpec => []DaemonInv
<1>1. DaemonInv /\ [DaemonNext]_daemonVars => DaemonInv'
  <2> SUFFICES ASSUME DaemonInv, [DaemonNext]_daemonVars PROVE DaemonInv'
    OBVIOUS
  <2>1. CASE MainReturns \/ Terminate
    BY <2>1 DEF MainReturns, Terminate, Exit, DaemonInv, Outside, HeldLoads,
                EnabledPrivacyAddsNoise
  <2>2. CASE UNCHANGED daemonVars
    BY <2>2 DEF daemonVars, DaemonInv, Outside, HeldLoads, EnabledPrivacyAddsNoise
  <2> QED
    BY <2>1, <2>2, FilesChangeInv, StartInv, RoundInv, SighupInv DEF DaemonNext, ProcessNext
<1> QED
  BY DaemonInitInv, <1>1, PTL DEF DaemonSpec

\* What the process holds is a configuration, or nothing.
Holding ==
  /\ held \in Configurations \cup {Stopped} /\ used \in Configurations \cup {Stopped}
  /\ lastProcessed \in 0..MaxEpoch /\ leaving \in BOOLEAN /\ starts \in 0..MaxStarts

\* What a step of the process leaves.
LEMMA HoldingStep ==
  ASSUME DaemonInv, Holding, DaemonNext
  PROVE  Holding'
<1>1. MaxEpoch \in Nat /\ MaxStarts \in Nat
  BY DaemonAssumption
<1>2. CASE FilesChange
  BY <1>2 DEF Holding, FilesChange, EditFile, ChangeDisk, process
<1>3. CASE Start
  <2>1. configFile \in Configurations
    BY <1>3, LoadedIsValid DEF DaemonInv, Start, Loads
  <2>2. lastProcessed' \in 0..MaxEpoch /\ starts' \in 0..MaxStarts
    BY <1>1, <1>3 DEF Holding, Start
  <2>3. leaving' \in BOOLEAN
    BY <1>3 DEF Start
  <2> QED
    BY <1>3, <2>1, <2>2, <2>3 DEF Holding, Start
<1>4. CASE RunTrainingRound
  <2>1. lastProcessed' \in 0..MaxEpoch
    BY <1>1, <1>4 DEF Holding, RunTrainingRound
  <2> QED
    BY <1>4, <2>1 DEF Holding, RunTrainingRound
<1>5. CASE Sighup
  <2>1. held' \in Configurations \cup {Stopped}
    BY <1>5, LoadedIsValid DEF DaemonInv, Holding, Sighup, Loads
  <2>2. leaving' \in BOOLEAN
    BY <1>5 DEF Sighup
  <2> QED
    BY <1>5, <2>1, <2>2 DEF Holding, Sighup
<1>6. CASE MainReturns \/ Terminate
  <2>1. lastProcessed' \in 0..MaxEpoch
    BY <1>1, <1>6 DEF MainReturns, Terminate, Exit
  <2>2. leaving' \in BOOLEAN
    BY <1>6 DEF MainReturns, Terminate, Exit
  <2> QED
    BY <1>6, <2>1, <2>2 DEF Holding, MainReturns, Terminate, Exit
<1> QED
  BY <1>2, <1>3, <1>4, <1>5, <1>6 DEF DaemonNext, ProcessNext

(* The process holds a configuration or nothing, and counts within the bounds. *)
THEOREM DaemonTypesHold == DaemonSpec => []DaemonTypeOK
<1>1. DaemonInit => Holding
  <2> SUFFICES ASSUME DaemonInit PROVE Holding
    OBVIOUS
  <2>1. lastProcessed \in 0..MaxEpoch /\ starts \in 0..MaxStarts
    BY DaemonAssumption DEF DaemonInit
  <2>2. leaving \in BOOLEAN
    BY DEF DaemonInit
  <2> QED
    BY <2>1, <2>2 DEF DaemonInit, Holding
<1>2. ASSUME DaemonInv, Holding, [DaemonNext]_daemonVars PROVE Holding'
  BY <1>2, HoldingStep DEF Holding, daemonVars
<1>3. DaemonInv /\ Holding => DaemonTypeOK
  BY DEF DaemonInv, Outside, Holding, DaemonTypeOK
<1> QED
  BY <1>1, <1>2, <1>3, DaemonAlwaysInv, PTL DEF DaemonSpec

(* The daemon holds and uses only configurations that validate accepts. *)
THEOREM HeldIsValidHolds == DaemonSpec => []HeldIsValid
<1>1. DaemonInv => HeldIsValid
  BY DEF DaemonInv, HeldLoads, Loads, HeldIsValid
<1> QED
  BY DaemonAlwaysInv, <1>1, PTL

(* No round with privacy enabled and finite numbers sends an update without noise. *)
THEOREM EnabledPrivacyAddsNoiseHolds == DaemonSpec => []EnabledPrivacyAddsNoise
<1>1. DaemonInv => EnabledPrivacyAddsNoise
  BY DEF DaemonInv
<1> QED
  BY DaemonAlwaysInv, <1>1, PTL

-----------------------------------------------------------------------------
\* What a command shows and a menu keeps.
Shows(c) == c \in {Stopped, NoConfig} \/ Valid(c, Paths)

\* The file in the home directory comes from what was typed.
HomeFile ==
  homeConfig # Missing =>
    /\ {typed.org, typed.cert, typed.ca, typed.data} \subseteq Answers
    /\ homeConfig = WizardFile(typed.org, typed.cert, typed.ca, typed.data)

CliInv == disk \subseteq Paths /\ HomeFile /\ Shows(session) /\ Shows(shown)

(* A configuration with what init asks for is neither a missing nor a malformed file. *)
LEMMA WizardWritesConfig ==
  ASSUME NEW org, NEW cert, NEW ca, NEW data
  PROVE  WizardConfig(org, cert, ca, data) \notin {Missing, Malformed, NoConfig}
<1>1. "file" \notin DOMAIN WizardConfig(org, cert, ca, data)
  BY DEF WizardConfig
<1>2. "file" \in DOMAIN Missing /\ "file" \in DOMAIN Malformed /\ "file" \in DOMAIN NoConfig
  BY DEF Missing, Malformed, NoConfig
<1> QED
  BY <1>1, <1>2

(* What the wizard writes is valid just where its paths exist and the organization
   has a name: each default and each constant of init passes its check. *)
LEMMA WizardConfigIsValid ==
  ASSUME NEW org, NEW cert, NEW ca, NEW data
  PROVE  Valid(WizardConfig(org, cert, ca, data), disk)
           <=> org # Empty /\ {cert, ca, data} \subseteq disk
<1> DEFINE c == WizardConfig(org, cert, ca, data)
<1>1. ValidCoordinator(c.coordinator)
  BY ConfigurationAssumption, CliAssumption DEF WizardConfig, ValidCoordinator
<1>2. ValidCertificates(c.certificates, disk) <=> {cert, ca} \subseteq disk
  BY DEF WizardConfig, ValidCertificates
<1>3. ValidTraining(c.training) /\ ValidPrivacy(c.privacy)
  BY DEF WizardConfig, ValidTraining, ValidPrivacy, Defaults, BelowZero, AtMostZero, AtLeastOne
<1>4. ValidResources(c.resources) /\ ValidStorage(c.storage) /\ ValidNetwork(c.network)
  BY DEF WizardConfig, ValidResources, ValidStorage, ValidNetwork, Defaults, AtMostZero,
         AboveHundred
<1>5. c.models # <<>> /\ DOMAIN c.models = {1}
  BY DEF WizardConfig
<1>6. ValidModel(c.models[1], disk) <=> data \in disk
  BY ConfigurationAssumption, CliAssumption DEF WizardConfig, ValidModel
<1>7. c.organization_id = org
  BY DEF WizardConfig
<1> QED
  BY <1>1, <1>2, <1>3, <1>4, <1>5, <1>6, <1>7 DEF Valid

(* What the client finds and loads is valid. *)
LEMMA LoadedShows == disk \subseteq Paths => Shows(Loaded)
  BY StaysValid DEF Loaded, LoadAndValidate, Shows

\* The client beside every step of the daemon, those of its process too, which
\* HostNext leaves out.
BesideNext ==
  \/ DaemonNext /\ UNCHANGED cliVars
  \/ CliNext /\ UNCHANGED daemonVars
BesideSpec == HostInit /\ [][BesideNext]_<<daemonVars, cliVars>>

LEMMA HostIsBeside == HostSpec => BesideSpec
<1>1. [HostNext]_<<daemonVars, cliVars>> => [BesideNext]_<<daemonVars, cliVars>>
  BY DEF HostNext, BesideNext, DaemonNext
<1> QED
  BY <1>1, PTL DEF HostSpec, BesideSpec

(* The invariant of the client in every reachable state. *)
LEMMA HostAlwaysInv == BesideSpec => []CliInv
<1>1. HostInit => CliInv
  BY DEF HostInit, DaemonInit, CliInit, CliInv, HomeFile, Shows
<1>2. CliInv /\ [BesideNext]_<<daemonVars, cliVars>> => CliInv'
  <2> SUFFICES ASSUME CliInv, [BesideNext]_<<daemonVars, cliVars>> PROVE CliInv'
    OBVIOUS
  <2>1. CASE DaemonNext /\ UNCHANGED cliVars
    <3>1. disk' \subseteq Paths
      BY <2>1, DaemonAssumption
      DEF CliInv, DaemonNext, FilesChange, EditFile, ChangeDisk, ProcessNext, Start,
          RunTrainingRound, Sighup, MainReturns, Terminate
    <3> QED
      BY <2>1, <3>1 DEF cliVars, CliInv, HomeFile, Shows
  <2>2. ASSUME NEW org \in Organizations, NEW cert \in CertPaths, NEW ca \in CaPaths,
               NEW data \in DataPaths, Wizard(org, cert, ca, data), UNCHANGED daemonVars
        PROVE  CliInv'
    <3>1. CASE UNCHANGED <<homeConfig, typed>>
      BY <2>2, <3>1 DEF Wizard, daemonVars, CliInv, HomeFile, Shows
    <3>2. CASE ~UNCHANGED <<homeConfig, typed>>
      <4>1. /\ homeConfig' = WizardFile(org, cert, ca, data)
            /\ typed' = [org |-> org, cert |-> cert, ca |-> ca, data |-> data]
        BY <2>2, <3>2 DEF Wizard
      <4>2. {org, cert, ca, data} \subseteq Answers
        BY DEF Answers
      <4>3. /\ {typed'.org, typed'.cert, typed'.ca, typed'.data} \subseteq Answers
            /\ homeConfig' = WizardFile(typed'.org, typed'.cert, typed'.ca, typed'.data)
        BY <4>1, <4>2
      <4>4. HomeFile'
        BY <4>3 DEF HomeFile, WizardFile, WizardConfig
      <4> QED
        BY <2>2, <4>4 DEF Wizard, daemonVars, CliInv, Shows
    <3> QED
      BY <3>1, <3>2
  <2>3. CASE (Command \/ OpenMenu) /\ UNCHANGED daemonVars
    <3>1. Shows(Loaded)
      BY LoadedShows DEF CliInv
    <3>2. session' \in {session, Loaded} /\ shown' \in {shown, Loaded}
          /\ UNCHANGED <<disk, homeConfig, typed>>
      BY <2>3 DEF Command, OpenMenu, daemonVars
    <3> QED
      BY <3>1, <3>2 DEF CliInv, HomeFile, Shows
  <2>4. CASE (MenuItem \/ CloseMenu) /\ UNCHANGED daemonVars
    BY <2>4 DEF MenuItem, CloseMenu, daemonVars, CliInv, HomeFile, Shows
  <2>5. CASE UNCHANGED <<daemonVars, cliVars>>
    BY <2>5 DEF daemonVars, cliVars, CliInv, HomeFile, Shows
  <2> QED
    BY <2>1, <2>2, <2>3, <2>4, <2>5 DEF BesideNext, CliNext
<1> QED
  BY <1>1, <1>2, PTL DEF BesideSpec

(* Whatever the client shows was valid when it was loaded. *)
THEOREM ShownIsValidHolds == BesideSpec => []ShownIsValid
<1>1. CliInv => ShownIsValid
  BY DEF CliInv, Shows, ShownIsValid
<1> QED
  BY HostAlwaysInv, <1>1, PTL

(* The daemon and the client beside it work only with what validate accepts. *)
THEOREM OnlyValidInUseHolds == BesideSpec => []OnlyValidInUse
<1>1. [BesideNext]_<<daemonVars, cliVars>> => [DaemonNext]_daemonVars
  BY DEF BesideNext
<1>2. HostInit => DaemonInit
  BY DEF HostInit
<1>3. BesideSpec => DaemonSpec
  BY <1>1, <1>2, PTL DEF BesideSpec, DaemonSpec
<1> QED
  BY <1>3, HeldIsValidHolds, ShownIsValidHolds, PTL DEF OnlyValidInUse

(* And it tells apart what was asked for. *)
LEMMA WizardConfigTellsApart ==
  ASSUME NEW org, NEW cert, NEW ca, NEW data, NEW o, NEW c, NEW k, NEW d,
         WizardConfig(org, cert, ca, data) = WizardConfig(o, c, k, d)
  PROVE  org = o /\ cert = c /\ ca = k /\ data = d
<1>1. /\ WizardConfig(org, cert, ca, data).organization_id = org
      /\ WizardConfig(org, cert, ca, data).certificates.cert_path = cert
      /\ WizardConfig(org, cert, ca, data).certificates.ca_bundle_path = ca
      /\ WizardConfig(org, cert, ca, data).models[1].data_source = data
  BY DEF WizardConfig
<1>2. /\ WizardConfig(o, c, k, d).organization_id = o
      /\ WizardConfig(o, c, k, d).certificates.cert_path = c
      /\ WizardConfig(o, c, k, d).certificates.ca_bundle_path = k
      /\ WizardConfig(o, c, k, d).models[1].data_source = d
  BY DEF WizardConfig
<1> QED
  BY <1>1, <1>2

(* What was typed into the wizard loads exactly when its answers are plain, name an
   organization and paths that exist, whatever TOML makes of the other ones. *)
THEOREM WizardConfigLoadsHolds == BesideSpec => []WizardConfigLoads
<1>1. CliInv => WizardConfigLoads
  <2> DEFINE config == WizardConfig(typed.org, typed.cert, typed.ca, typed.data)
  <2> SUFFICES ASSUME CliInv, homeConfig # Missing, configFile = Missing
               PROVE  Loaded = config <=> GoodAnswers
    BY DEF WizardConfigLoads
  <2>1. /\ {typed.org, typed.cert, typed.ca, typed.data} \subseteq Answers
        /\ homeConfig = WizardFile(typed.org, typed.cert, typed.ca, typed.data)
    BY DEF CliInv, HomeFile
  <2>2. Found = homeConfig /\ config \notin {Missing, Malformed, NoConfig}
    BY WizardWritesConfig DEF Found
  <2>3. Valid(config, disk) <=> typed.org # Empty /\ {typed.cert, typed.ca, typed.data} \subseteq disk
    BY WizardConfigIsValid
  <2> HIDE DEF config
  <2>4. ASSUME GoodAnswers PROVE Loaded = config
    <3>1. /\ Quoted[typed.org] = typed.org /\ Quoted[typed.cert] = typed.cert
          /\ Quoted[typed.ca] = typed.ca /\ Quoted[typed.data] = typed.data
      BY <2>4 DEF GoodAnswers
    <3>2. Unreadable \notin {typed.org, typed.cert, typed.ca, typed.data}
      BY <2>1, CliAssumption
    <3>3. homeConfig = config
      BY <2>1, <3>1, <3>2 DEF WizardFile, config
    <3> QED
      BY <2>2, <2>3, <2>4, <3>3 DEF GoodAnswers, Loaded, LoadAndValidate
  <2>5. ASSUME Loaded = config PROVE GoodAnswers
    <3>1. homeConfig = config /\ Valid(config, disk)
      BY <2>2, <2>5 DEF Loaded, LoadAndValidate
    <3>2. homeConfig = WizardConfig(Quoted[typed.org], Quoted[typed.cert], Quoted[typed.ca],
                                    Quoted[typed.data])
      BY <2>1, <2>2, <3>1 DEF WizardFile
    <3>3. \A text \in {typed.org, typed.cert, typed.ca, typed.data} : Quoted[text] = text
      <4>1. WizardConfig(Quoted[typed.org], Quoted[typed.cert], Quoted[typed.ca], Quoted[typed.data])
              = WizardConfig(typed.org, typed.cert, typed.ca, typed.data)
        BY <3>1, <3>2 DEF config
      <4>2. /\ Quoted[typed.org] = typed.org /\ Quoted[typed.cert] = typed.cert
            /\ Quoted[typed.ca] = typed.ca /\ Quoted[typed.data] = typed.data
        <5> DEFINE o == Quoted[typed.org]
                   c == Quoted[typed.cert]
                   k == Quoted[typed.ca]
                   d == Quoted[typed.data]
                   org == typed.org
                   cert == typed.cert
                   ca == typed.ca
                   data == typed.data
        <5>1. WizardConfig(o, c, k, d) = WizardConfig(org, cert, ca, data)
          BY <4>1
        <5> HIDE DEF o, c, k, d, org, cert, ca, data
        <5>2. o = org /\ c = cert /\ k = ca /\ d = data
          BY <5>1, WizardConfigTellsApart
        <5> QED
          BY <5>2 DEF o, c, k, d, org, cert, ca, data
      <4> QED
        BY <4>2
    <3> QED
      BY <2>3, <3>1, <3>3 DEF GoodAnswers
  <2> QED
    BY <2>4, <2>5
<1> QED
  BY HostAlwaysInv, <1>1, PTL

-----------------------------------------------------------------------------
(* The calls. *)

\* On its way, or answered and not yet looked at.
InFlight == {"sent"} \cup Replies
Phases == {"ready", "sent", "waiting"} \cup Replies \cup Results

CallTypes ==
  /\ phase \in [Requests -> Phases]
  /\ attempts \in [Requests -> Nat] /\ sends \in [Requests -> Nat]
  /\ calls \in [Requests -> Nat]

\* A request in flight is one more than the failures counted so far.
SendsCounted ==
  \A r \in Requests :
    /\ sends[r] <= MostSends
    /\ phase[r] \in InFlight => sends[r] = attempts[r] + 1
    /\ phase[r] = "waiting" => sends[r] = attempts[r] /\ attempts[r] < MaxRetries

\* A call that ended knows, and a first call that does not is still under way
\* only if it is about to return Ok, or if the coordinator's reply was lost.
OutcomeKnown ==
  \A r \in Completions :
    /\ phase[r] \in {"success", "ok"} => r \in recorded
    /\ calls[r] = 0 => phase[r] = "ready" /\ r \notin recorded
    /\ r \in recorded /\ calls[r] = 1 /\ phase[r] \notin {"success", "ok"} => r \in lostReplies

NetInv == CallTypes /\ SendsCounted /\ OutcomeKnown

-----------------------------------------------------------------------------
(* No call is under way at the start. *)
LEMMA NetInitInv == NetInit => NetInv
<1> SUFFICES ASSUME NetInit PROVE NetInv
  OBVIOUS
<1>1. CallTypes
  BY DEF NetInit, CallTypes, Phases
<1>2. SendsCounted
  BY NetAssumption DEF NetInit, SendsCounted, InFlight, Replies, MostSends
<1>3. OutcomeKnown
  BY NetAssumption DEF NetInit, OutcomeKnown
<1> QED
  BY <1>1, <1>2, <1>3 DEF NetInv

(* Every step changes the functions only where its request is. *)
LEMMA NetStepTypes ==
  ASSUME NetInv, NEW q \in Requests, Call(q) \/ RequestStep(q)
  PROVE  CallTypes'
<1> USE DEF NetInv, CallTypes, Phases, Replies, Results, Becomes
<1>1. CASE Call(q)
  BY <1>1 DEF Call
<1>2. CASE Answer(q)
  BY <1>2 DEF Answer
<1>3. CASE Lose(q)
  BY <1>3 DEF Lose
<1>4. CASE Succeed(q)
  BY <1>4 DEF Succeed
<1>5. CASE Fail(q)
  BY <1>5 DEF Fail
<1>6. CASE Resend(q)
  BY <1>6 DEF Resend
<1> QED
  BY <1>1, <1>2, <1>3, <1>4, <1>5, <1>6 DEF RequestStep

(* A request is sent only where the last failure left room for it. *)
LEMMA NetStepSends ==
  ASSUME NetInv, NEW q \in Requests, Call(q) \/ RequestStep(q)
  PROVE  SendsCounted'
<1> USE NetAssumption DEF NetInv, CallTypes, SendsCounted, InFlight, Phases, Replies, Results, Becomes
<1>1. CASE Call(q)
  BY <1>1 DEF Call, MostSends
<1>2. CASE Answer(q)
  BY <1>2 DEF Answer
<1>3. CASE Lose(q)
  BY <1>3 DEF Lose
<1>4. CASE Succeed(q)
  BY <1>4 DEF Succeed
<1>5. CASE Fail(q)
  BY <1>5 DEF Fail
<1>6. CASE Resend(q)
  BY <1>6 DEF Resend, MostSends
<1> QED
  BY <1>1, <1>2, <1>3, <1>4, <1>5, <1>6 DEF RequestStep

(* Only an answer, or a loss that is remembered, records a completion. *)
LEMMA NetStepOutcome ==
  ASSUME NetInv, NEW q \in Requests, Call(q) \/ RequestStep(q)
  PROVE  OutcomeKnown'
<1> USE NetAssumption DEF NetInv, CallTypes, OutcomeKnown, Phases, Replies, Results, Becomes
<1>1. CASE Call(q)
  BY <1>1 DEF Call
<1>2. CASE Answer(q)
  BY <1>2 DEF Answer
<1>3. CASE Lose(q)
  BY <1>3 DEF Lose
<1>4. CASE Succeed(q)
  BY <1>4 DEF Succeed
<1>5. CASE Fail(q)
  BY <1>5 DEF Fail
<1>6. CASE Resend(q)
  BY <1>6 DEF Resend
<1> QED
  BY <1>1, <1>2, <1>3, <1>4, <1>5, <1>6 DEF RequestStep

(* The invariant in every reachable state. *)
LEMMA NetAlwaysInv == NetSpec => []NetInv
<1>1. NetInv /\ [NetNext]_netVars => NetInv'
  <2> SUFFICES ASSUME NetInv, [NetNext]_netVars PROVE NetInv'
    OBVIOUS
  <2>1. CASE NetNext
    BY <2>1, NetStepTypes, NetStepSends, NetStepOutcome DEF NetNext, NetInv
  <2>2. CASE UNCHANGED netVars
    BY <2>2 DEF netVars, NetInv, CallTypes, SendsCounted, OutcomeKnown
  <2> QED
    BY <2>1, <2>2
<1> QED
  BY NetInitInv, <1>1, PTL DEF NetSpec

(* No call of request_with_retry sends more than max_retries requests, whatever the
   concurrent calls do to the counter they share. *)
THEOREM SendsBoundedHolds == NetSpec => []SendsBounded
<1>1. NetInv => SendsBounded
  BY DEF NetInv, SendsCounted, SendsBounded, InFlight
<1> QED
  BY NetAlwaysInv, <1>1, PTL

(* Ok of submit_completion means recorded; a recorded completion reported as an
   error means that a reply was lost. *)
THEOREM CompletionReportedHolds == NetSpec => []CompletionReported
<1>1. NetInv => CompletionReported
  BY NetAssumption DEF NetInv, OutcomeKnown, CompletionReported
<1> QED
  BY NetAlwaysInv, <1>1, PTL

(* The sleep between two attempts, also where the power of two wraps. *)
LEMMA NextDelayIs ==
  ASSUME attempt \in Nat
  PROVE  NextDelay \in 0..MaxBackoff
<1> DEFINE width == 2^Bits
           power == 2^attempt
<1>1. power \in Int /\ width \in Nat \ {0}
  BY NetAssumption
<1>2. NextDelay = IF power % width < MaxBackoff THEN power % width ELSE MaxBackoff
  BY DEF NextDelay
<1> HIDE DEF power, width
<1>3. power % width \in 0..(width - 1)
  BY <1>1
<1> QED
  BY <1>1, <1>2, <1>3, NetAssumption

LEMMA NetTypesStep ==
  ASSUME NetTypeOK, NEW r \in Requests, Call(r) \/ RequestStep(r)
  PROVE  NetTypeOK'
<1> USE DEF NetTypeOK, Replies, Results, Becomes
<1>1. CASE Call(r)
  BY <1>1, NetAssumption DEF Call
<1>2. CASE Answer(r)
  BY <1>2 DEF Answer
<1>3. CASE Lose(r)
  BY <1>3 DEF Lose
<1>4. CASE Succeed(r)
  BY <1>4 DEF Succeed
<1>5. CASE Fail(r)
  <2>1. NextDelay \in 0..MaxBackoff
    BY NextDelayIs
  <2> QED
    BY <1>5, <2>1 DEF Fail
<1>6. CASE Resend(r)
  BY <1>6 DEF Resend
<1> QED
  BY <1>1, <1>2, <1>3, <1>4, <1>5, <1>6 DEF RequestStep

(* No request ever sleeps longer than max_backoff_secs, however often it has failed. *)
THEOREM NetTypesHold == NetSpec => []NetTypeOK
<1>1. NetInit => NetTypeOK
  BY NetAssumption DEF NetInit, NetTypeOK
<1>2. ASSUME NetTypeOK, [NetNext]_netVars PROVE NetTypeOK'
  <2>1. CASE UNCHANGED netVars
    BY <1>2, <2>1 DEF netVars, NetTypeOK
  <2> QED
    BY <1>2, <2>1, NetTypesStep DEF NetNext
<1> QED
  BY <1>1, <1>2, PTL DEF NetSpec

-----------------------------------------------------------------------------
(* The certificates. *)

Known(cert) == cert \in Certs /\ cert.org = OurOrg /\ cert.issuer \in CaBundle

\* The file the manager started from is never written again.
Started == currentCert # NoCert => certDir[CertPath] \in Certs

CurrentKnown ==
  currentCert # NoCert =>
    Known(currentCert) /\ currentCert.notAfter >= certDir[CertPath].notAfter

\* What a caller found is newer than the certificate it was compared with, and so
\* than the first, although perhaps no newer than the one it will replace.
FoundNewer ==
  \A p \in Callers : newCert[p] # NoCert =>
    /\ currentCert # NoCert /\ Known(newCert[p])
    /\ newCert[p].notAfter > certDir[CertPath].notAfter

CertInv == CertTypeOK /\ Started /\ CurrentKnown /\ FoundNewer

\* A caller has something to look at only once there is a manager.
ListingStarted == \A p \in Callers : listing[p] # {} => currentCert # NoCert

-----------------------------------------------------------------------------
(* At the start there is no manager. *)
LEMMA CertInitInv == CertInit => CertInv
<1> SUFFICES ASSUME CertInit PROVE CertInv
  OBVIOUS
<1>1. CertTypeOK
  BY CertAssumption DEF CertInit, CertTypeOK
<1> QED
  BY <1>1 DEF CertInit, CertInv, Started, CurrentKnown, FoundNewer

(* The manager loads the certificate at cert_path: it is the first itself. *)
LEMMA NewManagerInv == CertInv /\ NewManager => CertInv'
<1> SUFFICES ASSUME CertInv, NewManager PROVE CertInv'
  OBVIOUS
<1> USE CertAssumption DEF CertInv, NewManager, Acceptable
<1>1. CertTypeOK'
  BY DEF CertTypeOK
<1>2. certDir[CertPath] \in Certs /\ Known(certDir[CertPath])
  BY DEF CertTypeOK, Known
<1>3. Started' /\ CurrentKnown' /\ FoundNewer'
  BY <1>2 DEF Started, CurrentKnown, FoundNewer, Known
<1> QED
  BY <1>1, <1>3

(* A file that holds a certificate is not written again, cert_path in particular. *)
LEMMA InstallInv ==
  ASSUME CertInv, NEW f \in Files, NEW c \in Certs, Install(f, c)
  PROVE  CertInv'
<1> USE CertAssumption DEF CertInv, Install
<1>1. CertTypeOK'
  BY DEF CertTypeOK
<1>2. currentCert # NoCert => certDir'[CertPath] = certDir[CertPath]
  BY DEF CertTypeOK, Started
<1>3. Started' /\ CurrentKnown'
  BY <1>2 DEF Started, CurrentKnown
<1>4. FoundNewer'
  BY <1>2 DEF FoundNewer
<1> QED
  BY <1>1, <1>3, <1>4

(* Time passes. *)
LEMMA NextDayInv == CertInv /\ NextDay => CertInv'
  BY CertAssumption DEF CertInv, NextDay, CertTypeOK, Started, CurrentKnown, FoundNewer

(* One entry of the directory, compared under the read lock. *)
LEMMA ExamineInv ==
  ASSUME CertInv, NEW p \in Callers, NEW f \in Files, Examine(p, f), currentCert # NoCert
  PROVE  CertInv'
<1> USE CertAssumption DEF CertInv
<1>1. CertTypeOK'
  BY DEF Examine, CertTypeOK
<1>2. Started' /\ CurrentKnown'
  BY DEF Examine, Started, CurrentKnown
<1>3. CASE Newer(certDir[f])
  <2>1. Known(certDir[f]) /\ certDir[f].notAfter > currentCert.notAfter
    BY <1>3 DEF Newer, Acceptable, Known, CertTypeOK
  <2>2. certDir[f].notAfter > certDir[CertPath].notAfter
    BY <2>1 DEF CurrentKnown, Started, Known
  <2>3. newCert' = [newCert EXCEPT ![p] = certDir[f]] /\ UNCHANGED <<certDir, currentCert>>
    BY <1>3 DEF Examine
  <2>4. FoundNewer'
    BY <2>1, <2>2, <2>3 DEF FoundNewer, CertTypeOK
  <2> QED
    BY <1>1, <1>2, <2>4
<1>4. CASE ~Newer(certDir[f])
  BY <1>1, <1>2, <1>4 DEF Examine, FoundNewer
<1> QED
  BY <1>3, <1>4

(* The steps of a caller: the comparison is old when Rotate takes the write lock, and
   still the certificate it installs is newer than the first one. *)
LEMMA CallerInv ==
  ASSUME CertInv, ListingStarted, NEW p \in Callers, CallerStep(p)
  PROVE  CertInv'
<1>1. CASE CheckRotation(p)
  BY <1>1, CertAssumption
     DEF CertInv, CheckRotation, CertTypeOK, Started, CurrentKnown, FoundNewer
<1>2. CASE Rotate(p)
  <2> USE <1>2, CertAssumption DEF CertInv, Rotate
  <2>1. CertTypeOK'
    BY DEF CertTypeOK
  <2>2. currentCert # NoCert /\ Known(newCert[p]) /\ newCert[p].notAfter > certDir[CertPath].notAfter
    BY DEF FoundNewer
  <2>3. certDir[CertPath] \in Certs
    BY <2>2 DEF Started
  <2>4. Started' /\ CurrentKnown'
    BY <2>2, <2>3 DEF Started, CurrentKnown, Known
  <2>5. FoundNewer'
    BY <2>2 DEF FoundNewer, CertTypeOK
  <2> QED
    BY <2>1, <2>4, <2>5
<1>3. ASSUME NEW f \in Files, Examine(p, f) PROVE CertInv'
  BY <1>3, ExamineInv DEF Examine, ListingStarted
<1> QED
  BY <1>1, <1>2, <1>3 DEF CallerStep

(* currentCert is never taken away again. *)
LEMMA ListingStep ==
  ASSUME CertInv, ListingStarted, [CertNext]_certVars
  PROVE  ListingStarted'
<1> USE CertAssumption DEF CertInv, CertTypeOK, ListingStarted
<1>1. CASE NewManager
  BY <1>1 DEF NewManager
<1>2. ASSUME NEW f \in Files, NEW c \in Certs, Install(f, c) PROVE ListingStarted'
  BY <1>2 DEF Install
<1>3. CASE NextDay
  BY <1>3 DEF NextDay
<1>4. ASSUME NEW p \in Callers, CheckRotation(p) PROVE ListingStarted'
  BY <1>4 DEF CheckRotation
<1>5. ASSUME NEW p \in Callers, Rotate(p) PROVE ListingStarted'
  BY <1>5 DEF Rotate
<1>6. ASSUME NEW p \in Callers, NEW f \in Files, Examine(p, f) PROVE ListingStarted'
  BY <1>6 DEF Examine
<1>7. CASE UNCHANGED certVars
  BY <1>7 DEF certVars
<1> QED
  BY <1>1, <1>2, <1>3, <1>4, <1>5, <1>6, <1>7 DEF CertNext, CallerStep

(* The invariant in every reachable state. *)
LEMMA CertAlwaysInv == CertSpec => [](CertInv /\ ListingStarted)
<1>1. CertInit => CertInv /\ ListingStarted
  BY CertInitInv DEF CertInit, ListingStarted
<1>2. CertInv /\ ListingStarted /\ [CertNext]_certVars => (CertInv /\ ListingStarted)'
  <2> SUFFICES ASSUME CertInv, ListingStarted, [CertNext]_certVars
               PROVE  (CertInv /\ ListingStarted)'
    OBVIOUS
  <2>1. CASE CertNext
    BY <2>1, ListingStep, NewManagerInv, InstallInv, NextDayInv, CallerInv DEF CertNext
  <2>2. CASE UNCHANGED certVars
    BY <2>2, ListingStep
       DEF certVars, CertInv, CertTypeOK, Started, CurrentKnown, FoundNewer
  <2> QED
    BY <2>1, <2>2
<1> QED
  BY <1>1, <1>2, PTL DEF CertSpec

(* Whatever overlaps, check_rotation never goes below the first certificate. *)
THEOREM NeverBelowStartHolds == CertSpec => []NeverBelowStart
<1>1. CertInv => NeverBelowStart
  BY DEF CertInv, CurrentKnown, FoundNewer, NeverBelowStart, Known
<1> QED
  BY CertAlwaysInv, <1>1, PTL

=============================================================================
