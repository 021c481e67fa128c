----------------------------- MODULE Submission -----------------------------
(***************************************************************************)
(* How one organization gets its update recorded for an epoch: fl-client   *)
(* download, train, submit and run, the files they leave for each other in *)
(* model_dir and working_dir, and the Lambda update_complete that checks   *)
(* the uploaded object and puts the submission.                            *)
(*                                                                         *)
(* Client processes may overlap (cron starts fl-client run, somebody types *)
(* a command), give up on a call that the coordinator goes on to serve,    *)
(* and die between any two steps. The epochs come and go on their own: see *)
(* EpochRound for what happens to them and to the submissions.             *)
(***************************************************************************)
EXTENDS Integers, Sequences, FiniteSets

CONSTANTS
  MaxEpoch,     \* bound: epoch numbers 1..MaxEpoch
  Procs,        \* concurrent processes of the client
  Timers,       \* those that a timer starts over and over, with fl-client run
  Requests,     \* concurrent invocations of update_complete for it
  Update,       \* updates: the bytes, and their SHA-256
  UpdateBytes,  \* size of update.bin
  MaxFaults,    \* bound: faults of a behaviour
  Environment,  \* what may go wrong, a subset of Hazards
  None          \* a model value: no process

(***************************************************************************)
(* crash       a client process or an invocation dies                      *)
(* error       a call or a computation of the client fails without effect  *)
(* lostReply   the client gives up on a call that takes effect later       *)
(* manual      somebody types one of the commands                          *)
(* staleIndex  the index update_complete reads lags behind the table       *)
(***************************************************************************)
Hazards == {"crash", "error", "lostReply", "manual", "staleIndex"}

ASSUME ConstantsAssumption ==
  /\ MaxEpoch \in Nat \ {0}
  /\ IsFiniteSet(Procs) /\ IsFiniteSet(Requests) /\ 0 \notin Update
  /\ UpdateBytes \in Nat /\ MaxFaults \in Nat
  /\ Environment \subseteq Hazards
  /\ None \notin Procs /\ Timers \subseteq Procs

VARIABLES
  active,      \* coordinator: the ACTIVE epoch, 0 if there is none
  last,        \* coordinator: the epoch that was activated last
  records,     \* coordinator: hashes of the recorded submissions, per epoch
  object,      \* S3: what is at updates/<model>/<epoch>/<org>/update.bin
  modelFiles,  \* model_dir: the epochs whose model_<version>.npy is there
  epochFile,   \* model_dir/current_epoch.json
  updateBin,   \* working_dir/update.bin
  updateMeta,  \* working_dir/update_meta.json
  submitted,   \* working_dir/submission_state.json: last_submitted_epoch
  trainedOn,   \* the epoch whose model each update was trained from
  proc,        \* the client's processes
  req,         \* the invocations of update_complete
  late,        \* uploads the client gave up on that may still arrive
  faults       \* faults so far

files == <<modelFiles, epochFile, updateBin, updateMeta, submitted>>
epochs == <<active, last>>
requests == <<records, req>>
uploads == <<object, late>>
vars == <<active, last, records, object, modelFiles, epochFile, updateBin, updateMeta,
          submitted, trainedOn, proc, req, late, faults>>

Epoch == 1..MaxEpoch
Nothing == 0      \* no such epoch, file or object

Idle == [pc |-> "idle", cmd |-> "run", epoch |-> Nothing, update |-> Nothing,
         bytes |-> Nothing]
NoRequest == [pc |-> "idle", epoch |-> Nothing, hash |-> Nothing, from |-> None]

Init ==
  /\ active = Nothing /\ last = 0
  /\ records = [e \in Epoch |-> <<>>]
  /\ object = [e \in Epoch |-> Nothing]
  /\ modelFiles = {} /\ epochFile = Nothing
  /\ updateBin = Nothing /\ updateMeta = [epoch |-> Nothing, hash |-> Nothing]
  /\ submitted = Nothing
  /\ trainedOn = [u \in Update |-> Nothing]
  /\ proc = [p \in Procs |-> Idle]
  /\ req = [r \in Requests |-> NoRequest]
  /\ late = {}
  /\ faults = 0

Fault(kind) ==
  /\ kind \in Environment
  /\ faults < MaxFaults
  /\ faults' = faults + 1

\* The coordinator's epochs (see EpochRound): one is ACTIVE at a time.
Activate ==
  /\ active = Nothing /\ last < MaxEpoch
  /\ active' = last + 1 /\ last' = last + 1
  /\ UNCHANGED <<records, uploads, files, trainedOn, proc, req, faults>>

Close ==
  /\ active # Nothing
  /\ active' = Nothing
  /\ UNCHANGED <<last, records, uploads, files, trainedOn, proc, req, faults>>

----------------------------------------------------------------------------
(* The client's processes. A command is a chain of places; run goes through *)
(* those of download, train and submit.                                    *)

First == [run |-> "check", download |-> "query", train |-> "load", submit |-> "readMeta"]

Stage(pc) ==
  CASE pc \in {"check", "ready"} -> "run"
    [] pc \in {"query", "fetch", "saveEpoch"} -> "download"
    [] pc \in {"load", "train", "saveBin", "saveMeta"} -> "train"
    [] OTHER -> "submit"

At(p, pc) == proc[p].pc = pc
Move(p, next) == proc' = [proc EXCEPT ![p] = next]
GoTo(p, pc) == [proc[p] EXCEPT !.pc = pc]

Begin(cmd, as) == [pc |-> First[cmd], cmd |-> as, epoch |-> Nothing, update |-> Nothing,
                   bytes |-> Nothing]

\* What a process does after one of the commands, well or badly ended: run
\* awaits all three before it looks at their exit codes.
After(p, stage) ==
  IF proc[p].cmd = "run" /\ stage \in {"download", "train"}
  THEN Begin(IF stage = "download" THEN "train" ELSE "submit", "run")
  ELSE Idle

Start(p, cmd) ==
  /\ At(p, "idle")
  /\ IF p \in Timers THEN cmd = "run" /\ UNCHANGED faults ELSE Fault("manual")
  /\ Move(p, Begin(cmd, cmd))
  /\ UNCHANGED <<epochs, records, uploads, files, trainedOn, req>>

\* The files, the bucket and the coordinator as they are.
Quiet == UNCHANGED <<epochs, requests, uploads, files, trainedOn, faults>>

\* run: the ACTIVE epoch, and whether it has been submitted already.
Check(p) ==
  /\ At(p, "check")
  /\ Move(p, IF active = Nothing THEN Idle ELSE [GoTo(p, "ready") EXCEPT !.epoch = active])
  /\ Quiet

Ready(p) ==
  /\ At(p, "ready")
  /\ Move(p, IF submitted = proc[p].epoch THEN Idle ELSE Begin("download", "run"))
  /\ Quiet

\* download: the ACTIVE epoch again ...
Query(p) ==
  /\ At(p, "query")
  /\ Move(p, IF active = Nothing THEN After(p, "download")
             ELSE [GoTo(p, "fetch") EXCEPT !.epoch = active])
  /\ Quiet

\* ... its model, verified and written under the name of its version ...
Fetch(p) ==
  /\ At(p, "fetch")
  /\ modelFiles' = modelFiles \cup {proc[p].epoch}
  /\ Move(p, GoTo(p, "saveEpoch"))
  /\ UNCHANGED <<epochs, requests, uploads, epochFile, updateBin, updateMeta, submitted,
                 trainedOn, faults>>

\* ... and the metadata.
SaveEpoch(p) ==
  /\ At(p, "saveEpoch")
  /\ epochFile' = proc[p].epoch
  /\ Move(p, After(p, "download"))
  /\ UNCHANGED <<epochs, requests, uploads, modelFiles, updateBin, updateMeta, submitted,
                 trainedOn, faults>>

\* train: the metadata and then the model that download left.
LoadEpoch(p) ==
  /\ At(p, "load")
  /\ Move(p, IF epochFile \in modelFiles THEN [GoTo(p, "train") EXCEPT !.epoch = epochFile]
             ELSE After(p, "train"))
  /\ Quiet

Recorded(e) == {records[e][k] : k \in DOMAIN records[e]}

\* Updates somebody still refers to; training makes another one, for its noise
\* is drawn anew.
InFiles == {updateBin, updateMeta.hash}
InObjects == {object[e] : e \in Epoch} \cup {x.update : x \in late}
InRecords == UNION {Recorded(e) : e \in Epoch}
InProcs == {proc[p].update : p \in Procs} \cup {proc[p].bytes : p \in Procs}
InRequests == {req[r].hash : r \in Requests}

InUse == InFiles \cup InObjects \cup InRecords \cup InProcs \cup InRequests
Fresh == Update \ InUse

Train(p) ==
  /\ At(p, "train") /\ Fresh # {}
  /\ LET u == CHOOSE v \in Update : v \in Fresh
     IN /\ Move(p, [GoTo(p, "saveBin") EXCEPT !.update = u])
        /\ trainedOn' = [trainedOn EXCEPT ![u] = proc[p].epoch]
  /\ UNCHANGED <<epochs, requests, uploads, files, faults>>

SaveBin(p) ==
  /\ At(p, "saveBin")
  /\ updateBin' = proc[p].update
  /\ Move(p, GoTo(p, "saveMeta"))
  /\ UNCHANGED <<epochs, requests, uploads, modelFiles, epochFile, updateMeta, submitted,
                 trainedOn, faults>>

SaveMeta(p) ==
  /\ At(p, "saveMeta")
  /\ updateMeta' = [epoch |-> proc[p].epoch, hash |-> proc[p].update]
  /\ Move(p, After(p, "train"))
  /\ UNCHANGED <<epochs, requests, uploads, modelFiles, epochFile, updateBin, submitted,
                 trainedOn, faults>>

\* submit: the metadata and ...
ReadMeta_ActiveEpoch(p) ==
  /\ At(p, "readMeta")
  /\ Move(p, IF updateMeta.epoch = Nothing \/ active = Nothing THEN After(p, "submit")
             ELSE [GoTo(p, "readBin") EXCEPT !.epoch = active, !.update = updateMeta.hash])
  /\ Quiet

ReadMeta(p) ==
  /\ At(p, "readMeta")
  /\ Move(p, IF updateMeta.epoch = Nothing THEN After(p, "submit")
             ELSE [GoTo(p, "readBin") EXCEPT !.epoch = updateMeta.epoch,
                                             !.update = updateMeta.hash])
  /\ Quiet

\* ... the update that train left ...
ReadBin(p) ==
  /\ At(p, "readBin")
  /\ Move(p, IF updateBin = Nothing THEN After(p, "submit")
             ELSE [GoTo(p, "upload") EXCEPT !.bytes = updateBin])
  /\ Quiet

\* ... are uploaded to the one key this organization has for the epoch ...
Upload(p) ==
  /\ At(p, "upload")
  /\ object' = [object EXCEPT ![proc[p].epoch] = proc[p].bytes]
  /\ Move(p, [GoTo(p, "notify") EXCEPT !.bytes = Nothing])
  /\ UNCHANGED <<epochs, requests, late, files, trainedOn, faults>>

UploadGivenUp(p) ==
  /\ At(p, "upload") /\ Fault("lostReply")
  /\ late' = late \cup {[epoch |-> proc[p].epoch, update |-> proc[p].bytes]}
  /\ Move(p, After(p, "submit"))
  /\ UNCHANGED <<epochs, requests, object, files, trainedOn>>

Arrive(x) ==
  /\ object' = [object EXCEPT ![x.epoch] = x.update]
  /\ late' = late \ {x}
  /\ UNCHANGED <<epochs, requests, files, trainedOn, proc, faults>>

\* ... and reported to update_complete ...
Notify_NoState(p, r) ==
  /\ At(p, "notify") /\ req[r].pc = "idle"
  /\ req' = [req EXCEPT ![r] = [pc |-> "dup", epoch |-> proc[p].epoch,
                                hash |-> proc[p].update, from |-> None]]
  /\ Move(p, GoTo(p, "saveState"))
  /\ UNCHANGED <<epochs, records, uploads, files, trainedOn, faults>>

Notify(p, r) ==
  /\ At(p, "notify") /\ req[r].pc = "idle"
  /\ req' = [req EXCEPT ![r] = [pc |-> "dup", epoch |-> proc[p].epoch,
                                hash |-> proc[p].update, from |-> p]]
  /\ Move(p, GoTo(p, "wait"))
  /\ UNCHANGED <<epochs, records, uploads, files, trainedOn, faults>>

\* ... which may answer when nobody waits any more ...
Forget_Nobody(p) == req
Forget(p) == [r \in Requests |-> IF req[r].from = p THEN [req[r] EXCEPT !.from = None]
                                 ELSE req[r]]

NotifyGivenUp(p) ==
  /\ At(p, "wait") /\ Fault("lostReply")
  /\ Move(p, After(p, "submit"))
  /\ req' = Forget(p)
  /\ UNCHANGED <<epochs, records, uploads, files, trainedOn>>

\* ... and only then is the submission noted (failing that is a warning).
SaveState(p) ==
  /\ At(p, "saveState")
  /\ \/ submitted' = proc[p].epoch /\ UNCHANGED faults
     \/ Fault("error") /\ UNCHANGED submitted
  /\ Move(p, After(p, "submit"))
  /\ UNCHANGED <<epochs, requests, uploads, modelFiles, epochFile, updateBin, updateMeta,
                 trainedOn>>

\* A call, a check of what it returned or a write fails: so does the command.
ClientError(p) ==
  /\ proc[p].pc \notin {"idle", "ready", "wait", "saveState"} /\ Fault("error")
  /\ Move(p, After(p, Stage(proc[p].pc)))
  /\ UNCHANGED <<epochs, requests, uploads, files, trainedOn>>

ClientCrash(p) ==
  /\ ~At(p, "idle") /\ Fault("crash")
  /\ Move(p, Idle)
  /\ req' = Forget(p)
  /\ UNCHANGED <<epochs, records, uploads, files, trainedOn>>

----------------------------------------------------------------------------
(* update_complete.                                                        *)

AtRequest(r, pc) == req[r].pc = pc
Proceed(r, pc) == req' = [req EXCEPT ![r].pc = pc] /\ UNCHANGED proc

\* The answer ends the invocation; the client may not be there any more.
Reply(r, ok) ==
  /\ req' = [req EXCEPT ![r] = NoRequest]
  /\ IF req[r].from = None THEN UNCHANGED proc
     ELSE LET p == req[r].from
          IN Move(p, IF ok THEN GoTo(p, "saveState") ELSE After(p, "submit"))

\* A submission of the organization for the epoch is a conflict.
CheckDuplicate_AnyEpoch(r) ==
  /\ AtRequest(r, "dup")
  /\ IF \E e \in Epoch : records[e] # <<>> THEN Reply(r, FALSE) ELSE Proceed(r, "verify")
  /\ UNCHANGED <<epochs, records, uploads, files, trainedOn, faults>>

CheckDuplicate(r) ==
  /\ AtRequest(r, "dup")
  /\ \/ records[req[r].epoch] # <<>> /\ Reply(r, FALSE)
     \/ /\ records[req[r].epoch] = <<>> \/ "staleIndex" \in Environment
        /\ Proceed(r, "verify")
  /\ UNCHANGED <<epochs, records, uploads, files, trainedOn, faults>>

\* The object must be there, have an acceptable size and hash to update_hash.
\* All updates have one size, for all have one length: see GetsRecorded.
SizeAllowed == UpdateBytes >= 1024 /\ UpdateBytes <= 500 * 1024 * 1024

Verify(r) ==
  /\ AtRequest(r, "verify")
  /\ IF SizeAllowed /\ object[req[r].epoch] = req[r].hash
     THEN Proceed(r, "put") ELSE Reply(r, FALSE)
  /\ UNCHANGED <<epochs, records, uploads, files, trainedOn, faults>>

Put(r) ==
  /\ AtRequest(r, "put")
  /\ records' = [records EXCEPT ![req[r].epoch] = Append(@, req[r].hash)]
  /\ Reply(r, TRUE)
  /\ UNCHANGED <<epochs, uploads, files, trainedOn, faults>>

InvocationCrash(r) ==
  /\ ~AtRequest(r, "idle") /\ Fault("crash")
  /\ Reply(r, FALSE)
  /\ UNCHANGED <<epochs, records, uploads, files, trainedOn>>

----------------------------------------------------------------------------
ClientStep(p) ==
  \/ p \in Timers /\ Start(p, "run")
  \/ Check(p) \/ Ready(p)
  \/ Query(p) \/ Fetch(p) \/ SaveEpoch(p)
  \/ LoadEpoch(p) \/ Train(p) \/ SaveBin(p) \/ SaveMeta(p)
  \/ ReadMeta(p) \/ ReadBin(p) \/ Upload(p) \/ SaveState(p)
  \/ \E r \in Requests : Notify(p, r)

ClientFault(p) ==
  \/ p \notin Timers /\ \E cmd \in DOMAIN First : Start(p, cmd)
  \/ UploadGivenUp(p) \/ NotifyGivenUp(p) \/ ClientError(p) \/ ClientCrash(p)

RequestStep(r) == CheckDuplicate(r) \/ Verify(r) \/ Put(r)

Next ==
  \/ Activate \/ Close
  \/ \E p \in Procs : ClientStep(p) \/ ClientFault(p)
  \/ \E r \in Requests : RequestStep(r) \/ InvocationCrash(r)
  \/ \E x \in late : Arrive(x)

Spec == Init /\ [][Next]_vars

\* A timer keeps starting fl-client run, and what is started goes on.
Fairness ==
  /\ \A p \in Procs : WF_vars(ClientStep(p))
  /\ \A r \in Requests : WF_vars(RequestStep(r))

FairSpec == Spec /\ Fairness

----------------------------------------------------------------------------
(* Properties.                                                             *)

Places == {"idle", "check", "ready", "query", "fetch", "saveEpoch", "load", "train",
           "saveBin", "saveMeta", "readMeta", "readBin", "upload", "notify", "wait",
           "saveState"}

\* Where a process has an update, and where it has an epoch.
WithUpdate == {"saveBin", "saveMeta", "readBin", "upload", "notify", "wait", "saveState"}
WithEpoch == {"ready", "fetch", "saveEpoch", "train"} \cup WithUpdate

ProcType == [pc : Places, cmd : DOMAIN First, epoch : Epoch \cup {Nothing},
             update : Update \cup {Nothing}, bytes : Update \cup {Nothing}]
RequestType == [pc : {"idle", "dup", "verify", "put"}, epoch : Epoch \cup {Nothing},
                hash : Update \cup {Nothing}, from : Procs \cup {None}]

CoordinatorOK ==
  /\ last \in 0..MaxEpoch /\ active \in {Nothing, last}
  /\ records \in [Epoch -> Seq(Update)]
  /\ object \in [Epoch -> Update \cup {Nothing}]
  /\ late \subseteq [epoch : Epoch, update : Update]
  /\ faults \in 0..MaxFaults

FilesOK ==
  /\ modelFiles \subseteq Epoch /\ epochFile \in Epoch \cup {Nothing}
  /\ updateBin \in Update \cup {Nothing}
  /\ updateMeta \in [epoch : Epoch \cup {Nothing}, hash : Update \cup {Nothing}]
  /\ updateMeta.epoch # Nothing => updateMeta.hash # Nothing
  /\ submitted \in Epoch \cup {Nothing}
  /\ trainedOn \in [Update -> Epoch \cup {Nothing}]

ProcsOK ==
  /\ proc \in [Procs -> ProcType]
  /\ \A p \in Procs :
       /\ proc[p].pc \in WithEpoch => proc[p].epoch # Nothing
       /\ proc[p].pc \in WithUpdate => proc[p].update # Nothing
       /\ proc[p].pc = "upload" => proc[p].bytes # Nothing

\* Whoever waits is waited for by one invocation, about the same epoch.
RequestsOK ==
  /\ req \in [Requests -> RequestType]
  /\ \A r \in Requests :
       /\ req[r].pc # "idle" => req[r].epoch # Nothing /\ req[r].hash # Nothing
       /\ req[r].from # None =>
            /\ req[r].pc # "idle"
            /\ proc[req[r].from].pc = "wait"
            /\ proc[req[r].from].epoch = req[r].epoch
            /\ \A q \in Requests : req[q].from = req[r].from => q = r

Types == CoordinatorOK /\ FilesOK /\ ProcsOK /\ RequestsOK

\* Types, and an update that is not in use: training never waits for one.
TypeOK == Types /\ Fresh # {}

\* "Submission state is only recorded locally after the coordinator confirms
\* receipt" (docs/FL_CLIENT_CLI.md): the epoch that run will skip from now on
\* has a recorded submission.
SkippedIsRecorded == submitted # Nothing => Recorded(submitted) # {}

\* What is recorded for an epoch was trained from the model of that epoch,
\* although it comes out of three files that overlapping commands rewrite and
\* out of an object that any upload replaces.
RecordedFromItsModel == \A e \in Epoch : \A u \in Recorded(e) : trainedOn[u] = e

\* If update_complete takes updates of this size, an organization whose timer
\* keeps starting run has its update recorded, or the epoch ends before that: no
\* lost reply, crash or failed call is final. Training makes 100 f32 at present
\* (src/training.rs:203), 400 bytes where 1024 are the least: nothing is
\* recorded then, which SubmissionProofs!NothingRecorded shows.
GetsRecorded ==
  SizeAllowed => \A e \in Epoch : active = e ~> Recorded(e) # {} \/ active # e

\* "No partial state is left that would confuse a retry" (docs/FL_CLIENT_CLI.md):
\* what S3 holds for an epoch that has a submission hashes to what was recorded,
\* or the worker will skip this organization's update.
RecordedIsKept == \A e \in Epoch : Recorded(e) # {} => object[e] \in Recorded(e)

----------------------------------------------------------------------------
(* Inductive invariants, proved in SubmissionProofs.                       *)

\* Who is about to note a submission has it recorded.
SkippedInv ==
  /\ SkippedIsRecorded
  /\ \A p \in Procs : proc[p].pc = "saveState" => Recorded(proc[p].epoch) # {}

\* An epoch and a hash never part: in the metadata, in a process, in a request
\* and in a submission the hash is that of an update of the epoch. (The bytes
\* that are uploaded may be others; update_complete sees to that.)
MetaOrigin == updateMeta.epoch # Nothing => trainedOn[updateMeta.hash] = updateMeta.epoch

ProcsOrigin ==
  \A p \in Procs : proc[p].pc \in WithUpdate => trainedOn[proc[p].update] = proc[p].epoch

RequestsOrigin ==
  \A r \in Requests : req[r].pc # "idle" => trainedOn[req[r].hash] = req[r].epoch

OriginInv == RecordedFromItsModel /\ MetaOrigin /\ ProcsOrigin /\ RequestsOrigin

=============================================================================
