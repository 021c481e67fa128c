------------------------------ MODULE MCClient ------------------------------
(***************************************************************************)
(* The components of the client and the worker that share no state, side   *)
(* by side: focus, chosen once, is the one that runs. The state space is   *)
(* the sum of theirs, and every property is checked on its own component.  *)
(***************************************************************************)
EXTENDS AuditLog, ModelStore, Checkpoints, Certificates, NetworkEngine, CliSession,
        SecureAggregation, MultiKrum, Scheduler

CONSTANTS c1, c2, c3, c4, corrupted, a, slash

VARIABLE focus

Others(component) ==
  /\ UNCHANGED focus
  /\ component = "log" \/ UNCHANGED logVars
  /\ component = "store" \/ UNCHANGED storeVars
  /\ component = "checkpoints" \/ UNCHANGED ckptVars
  /\ component = "certificates" \/ UNCHANGED certVars
  /\ component = "network" \/ UNCHANGED netVars
  /\ component \in {"daemon", "client"} \/ UNCHANGED daemonVars
  /\ component = "client" \/ UNCHANGED cliVars
  /\ component = "masks" \/ UNCHANGED aggVars
  /\ component = "krum" \/ UNCHANGED krumVars
  /\ component = "scheduler" \/ UNCHANGED schedVars

vars == <<focus, logVars, storeVars, ckptVars, certVars, netVars, daemonVars, cliVars, aggVars,
          krumVars, schedVars>>

Components ==
  {"log", "store", "checkpoints", "certificates", "network", "daemon", "client", "masks", "krum",
   "scheduler"}

Init ==
  /\ LogInit /\ StoreInit /\ CkptInit /\ CertInit /\ NetInit /\ HostInit /\ AggInit /\ KrumInit
  /\ SchedInit
  /\ focus \in Components /\ (focus # "client" => hasHome)

Step(component, action) == focus = component /\ action /\ Others(component)

Next ==
  \/ Step("log", LogNext)
  \/ Step("store", StoreNext)
  \/ Step("checkpoints", CkptNext)
  \/ Step("certificates", CertNext)
  \/ Step("network", NetNext)
  \/ Step("daemon", DaemonNext)
  \/ Step("client", HostNext)
  \/ Step("masks", AggNext)
  \/ Step("krum", KrumNext)
  \/ Step("scheduler", SchedNext)

\* NetFairness and DaemonFairness, each of the component that runs. Nothing is fair
\* about the certificates and the scheduler, whose operations no code calls.
Fairness ==
  /\ \A r \in Requests : WF_vars(Step("network", RequestStep(r)))
  /\ WF_vars(Step("daemon", RunTrainingRound))
  /\ WF_vars(Step("daemon", MainReturns))

Spec == Init /\ [][Next]_vars /\ Fairness

TypeOK ==
  /\ LogTypeOK /\ StoreTypeOK /\ CkptTypeOK /\ CertTypeOK /\ NetTypeOK /\ DaemonTypeOK /\ AggTypeOK
  /\ KrumTypeOK /\ SchedTypeOK

-----------------------------------------------------------------------------
\* Within 2 of each other, and their squared distances within 4.
ASSUME PointsSeparated == Separated(4)

Model(v, content, arch) ==
  [version |-> v, signature |-> content, hash |-> content, architecture |-> arch]
MCMetadata ==
  {Model("v1", c1, "a1"), Model("v2", c2, "a1"), Model("v3", c3, "a1"), Model("v4", c4, "a2"),
   [Model("v1", c1, "a1") EXCEPT !.signature = None]}
MCSanitizeVersion ==
  [v \in {"v1", "v2", "v3", "v4", Torn, Unknown} |->
     IF v = Torn THEN "torn" ELSE IF v = Unknown THEN "unknown" ELSE v]

MCJobs == {<<a>>, <<a, Underscore, 1>>, <<a, slash, 1>>}

Cert(org, issuer, day) == [org |-> org, issuer |-> issuer, notAfter |-> day]
MCCerts ==
  {Cert("us", "ca", 1), Cert("us", "ca", 2), Cert("us", "ca", 3), Cert("us", "other", 3),
   Cert("them", "ca", 3)}

Base == [WizardConfig("org", "cert", "ca", "data") EXCEPT !.certificates.cert_dir = "certs"]
MCConfigFiles ==
  {Missing, Malformed, Base,
   [Base EXCEPT !.coordinator.poll_interval_secs = 60],
   [Base EXCEPT !.coordinator.poll_interval_secs = 0],
   [Base EXCEPT !.privacy = [enabled |-> FALSE, epsilon |-> "zero", delta |-> "moderate",
                             clip_threshold |-> "negative"]],
   [Base EXCEPT !.privacy.epsilon = "infinite"],
   [Base EXCEPT !.privacy.epsilon = "huge"],
   [Base EXCEPT !.privacy.epsilon = "tiny"],
   [Base EXCEPT !.privacy.epsilon = "negative"],
   [Base EXCEPT !.privacy.delta = "moderate"]}
MCPaths ==
  {"cert", "certs", "ca", "data", "c:\\data", "c:\\new", "c:\new", "work", "/dev/tpmrm0"}
MCDisks == {MCPaths, MCPaths \ {"data"}}

\* In double quotes \d is no escape, and \n is the end of a line.
MCDataPaths == {"data", "c:\\data", "c:\\new"}
MCQuoted ==
  [text \in MCDataPaths \cup {"org", "", "cert", "none", "ca"} |->
     CASE text = "c:\\data" -> Unreadable
       [] text = "c:\\new" -> "c:\new"
       [] OTHER -> text]

\* Jobs that fit beside each other, that fit only alone and that never fit; below, at
\* and above the priority from which a job may preempt.
Demand(p, c, r) == [priority |-> p, cpu |-> c, ram |-> r]
MCDemands == {Demand(3, 1, 1), Demand(8, 2, 1), Demand(9, 3, 3), Demand(9, 4, 1)}

=============================================================================
