---------------------------- MODULE ClientProofs -----------------------------
(***************************************************************************)
(* The parts of the client and the worker together. MCClient lets one of   *)
(* them run, so that TLC checks the sum of their states and not the        *)
(* product; here they all run, in any order. Every part still takes only   *)
(* steps of its own specification, and what was proved of a part holds of  *)
(* the whole.                                                              *)
(***************************************************************************)
EXTENDS MCClient, StorageProofs, HostProofs, AggregationProofs, SchedulerProofs

\* A step of any part, whatever the focus is, while the others stand still.
AnyNext ==
  \/ LogNext /\ Others("log")
  \/ StoreNext /\ Others("store")
  \/ CkptNext /\ Others("checkpoints")
  \/ CertNext /\ Others("certificates")
  \/ NetNext /\ Others("network")
  \/ DaemonNext /\ Others("daemon")
  \/ HostNext /\ Others("client")
  \/ AggNext /\ Others("masks")
  \/ KrumNext /\ Others("krum")
  \/ SchedNext /\ Others("scheduler")

Interleaved == Init /\ [][AnyNext]_vars

-----------------------------------------------------------------------------
(* The step of a part is its own step, and any other leaves it alone. *)
LEMMA StorageSteps ==
  ASSUME [AnyNext]_vars
  PROVE  [LogNext]_logVars /\ [StoreNext]_storeVars /\ [CkptNext]_ckptVars
  BY DEF AnyNext, Others, vars

LEMMA ConnectionSteps ==
  ASSUME [AnyNext]_vars
  PROVE  [CertNext]_certVars /\ [NetNext]_netVars
  BY DEF AnyNext, Others, vars

LEMMA AggregationSteps ==
  ASSUME [AnyNext]_vars
  PROVE  [AggNext]_aggVars /\ [KrumNext]_krumVars
  BY DEF AnyNext, Others, vars

LEMMA SchedulerSteps ==
  ASSUME [AnyNext]_vars
  PROVE  [SchedNext]_schedVars
  BY DEF AnyNext, Others, vars

\* The client shares the file and the disk with the daemon.
LEMMA HostSteps ==
  ASSUME [AnyNext]_vars
  PROVE  [DaemonNext]_daemonVars /\ [BesideNext]_<<daemonVars, cliVars>>
<1>1. CASE DaemonNext /\ Others("daemon")
  BY <1>1 DEF Others, BesideNext
<1>2. CASE HostNext /\ Others("client")
  BY <1>2 DEF HostNext, BesideNext, DaemonNext
<1>3. CASE UNCHANGED vars
  BY <1>3 DEF vars
<1>4. CASE UNCHANGED daemonVars /\ UNCHANGED cliVars
  BY <1>4
<1> QED
  BY <1>1, <1>2, <1>3, <1>4 DEF AnyNext, Others

(* Every part behaves as it does alone: the log, the store and the checkpoints, the
   certificates and the calls, the daemon and the client beside it, the masks and
   the selection, and the scheduler, however their steps are interleaved. *)
THEOREM PartsAreThemselves ==
  Interleaved => /\ LogSpec /\ StoreSpec /\ CkptSpec
                 /\ CertSpec /\ NetSpec /\ DaemonSpec /\ BesideSpec
                 /\ AggSpec /\ KrumSpec /\ SchedSpec
<1>1. Init => /\ LogInit /\ StoreInit /\ CkptInit /\ CertInit /\ NetInit
              /\ DaemonInit /\ HostInit /\ AggInit /\ KrumInit /\ SchedInit
  BY DEF Init, HostInit
<1> QED
  BY <1>1, StorageSteps, ConnectionSteps, AggregationSteps, HostSteps, SchedulerSteps, PTL
  DEF Interleaved, LogSpec, StoreSpec, CkptSpec, CertSpec, NetSpec, DaemonSpec, BesideSpec,
      AggSpec, KrumSpec, SchedSpec

-----------------------------------------------------------------------------
(* The types of all parts, in every behaviour of the whole: no part is driven out
   of what its own code leaves in its files, maps and counters. *)
THEOREM PartsTyped == Interleaved => []TypeOK
<1>1. CertInv => CertTypeOK
  BY DEF CertInv
<1>2. CertSpec => []CertTypeOK
  BY <1>1, CertAlwaysInv, PTL
<1> QED
  BY PartsAreThemselves, LogTypesHold, StoreTypesHold, CkptTypesHold, <1>2, NetTypesHold,
     DaemonTypesHold, AggTypesHold, KrumTypesHold, LimitsHold, PTL
  DEF TypeOK

\* What the files keep over restarts, crashes and failed writes.
StorageSafe ==
  /\ NumbersIncrease /\ LostPerFault /\ UndisturbedVerifies
  /\ MislabelledPerFault /\ RollbackReturnsReplaced
  /\ LatestIsOwn /\ ResumesFromLatest

\* What the host holds, shows and sends.
HostSafe ==
  /\ OnlyValidInUse /\ EnabledPrivacyAddsNoise /\ WizardConfigLoads
  /\ NeverBelowStart /\ SendsBounded /\ CompletionReported

\* What becomes of the updates.
AggregationSafe == UnmaskedExactlyWhenComplete /\ SharesSuffice /\ OutliersRejected

\* Where the jobs are, and what they use.
SchedulerSafe == AccountsCover /\ EachJobOnce

(* The safety of every part, in every behaviour of the whole: the calls, the
   rotations, the reloads, the crashes and the rounds of one part, in any order
   with those of the others, break nothing the others promise. *)
THEOREM PartsSafe == Interleaved => [](StorageSafe /\ HostSafe /\ AggregationSafe /\ SchedulerSafe)
<1>1. Interleaved => []StorageSafe
  BY PartsAreThemselves, NumbersIncreaseHolds, LostPerFaultHolds, UndisturbedVerifiesHolds,
     MislabelledPerFaultHolds, RollbackReturnsReplacedHolds, LatestIsOwnHolds,
     ResumesFromLatestHolds, PTL
  DEF StorageSafe
<1>2. Interleaved => []HostSafe
  BY PartsAreThemselves, OnlyValidInUseHolds, EnabledPrivacyAddsNoiseHolds,
     WizardConfigLoadsHolds, NeverBelowStartHolds, SendsBoundedHolds, CompletionReportedHolds, PTL
  DEF HostSafe
<1>3. Interleaved => []AggregationSafe
  <2>1. KrumSpec => []OutliersRejected
    <3>1. Separated(4) /\ 4 \in Nat
      BY PointsSeparated
    <3> QED
      BY <3>1, OutliersRejectedHolds
  <2> QED
    BY <2>1, PartsAreThemselves, UnmaskedExactlyHolds, SharesSufficeHolds, PTL
    DEF AggregationSafe
<1>4. Interleaved => []SchedulerSafe
  BY PartsAreThemselves, AccountsHold, JobOnce, PTL DEF SchedulerSafe
<1> QED
  BY <1>1, <1>2, <1>3, <1>4, PTL

(* And no model of another architecture reaches any of them, if a hash is of one
   binary. *)
THEOREM ArchitectureKept ==
  ASSUME HashNamesArchitecture PROVE Interleaved => []OneArchitecture
<1>1. StoreSpec => []OneArchitecture
  BY OneArchitectureHolds
<1> QED
  BY <1>1, PartsAreThemselves, PTL

=============================================================================
