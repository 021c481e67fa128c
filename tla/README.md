# Verification of the federated learning coordinator and its client

TLA+ specifications of this repository, TLC configurations that check them on
small instances, and theorems that TLAPS proves for every value of the
constants. `PROJECT.json` is the index: components, runs, mutants, the map from
every definition to the lines of `src/` it models, findings, hazards, theorems.

    tlc -workers 2 -config MCEpochRound_lock.cfg MCEpochRound.tla
    tlapm EpochRoundProofs.tla
    tlapm SubmissionProofs.tla
    tlapm SchedulerProofs.tla
    tlc -workers 2 -config MCClient_parts.cfg MCClient.tla
    tlapm ClientProofs.tla

## The system

Organizations train a model on their own data. A coordinator (AWS Lambdas, two
DynamoDB tables, an S3 bucket, a Fargate task, operator scripts; Python) runs
numbered *epochs* of one model: it announces an epoch, records one update per
organization, aggregates them, publishes the next model and announces the next
epoch. Each organization runs a Rust client: the CLI `fl-client` that does the
actual round today, and a daemon whose round is still simulated.

| Component | State | Operations | Talks to | Hard parts |
|---|---|---|---|---|
| Operator scripts `seed_epoch`, `bootstrap`, `activate_epoch` | none of their own | seed an epoch, acquire the lock, set ACTIVE | epoch table, S3 | several operators, crash between lock and status, rerun of bootstrap |
| `update_complete` Lambda | submission table | check duplicate, check object, put | S3, submission table, audit | check and put are separate, caller gone |
| `aggregation_trigger` Lambda | none of its own | read epoch, count, claim, run the task | stream of the submission table, epoch table, ECS | redelivery, concurrent invocations, stale index, crash after the claim, lost reply of `run_task` |
| Aggregation worker `aggregator.py` | none of its own | guard, fetch, load, Multi-Krum, publish, complete, open next, release | both tables, S3 | crash between steps, duplicate tasks, partial failures, double release |
| Coordinator audit chain `shared/audit.py`, `_write_audit` | audit table | read newest hash, append | audit table | concurrent writers fork the chain |
| Read endpoints | none | epoch, model URL, update URL, audit query, health | tables, S3 | none |
| `fl-client` `run`, `download`, `train`, `submit` | `model_dir`, `working_dir` files | as named | coordinator, S3 | overlap, crash, lost reply, leftovers of earlier runs |
| Daemon `main.rs`, `config/manager.rs` | configuration, `last_processed_epoch` | poll, reload, monitor, shut down | (simulated) coordinator | select of loops and signals, files that change meanwhile |
| `fl-client` `init`, `whoami`, menu, `config_loader.rs` | the configuration of the session | write, find and load a configuration, show it | files the daemon reads too | search order, a menu that outlives its file |
| Job scheduler `scheduler.rs` | queue, running jobs, allocations | enqueue, schedule, preempt, complete, fail | none | preemption, ceiling, duplicate ids |
| Network engine `network.rs` | backoff counter | request with retry | coordinator | shared counter, overflow |
| Client audit log `audit.rs` | log file, last hash, counter | append, verify | file system | restart, write cut short between text and newline |
| Model store `model.rs` | current model in three files, archive, manifest | validate, store, archive, roll back | file system | crash windows, truncated files |
| Checkpoints `checkpoint.rs` | a directory | save, find, delete, expire | file system | job ids that are prefixes of others |
| Certificates `certificates.rs` | the certificate in use | load, rotate | directory, operator | overlapping rotations |
| Secure aggregation `secureagg.rs` | an engine's key pair | mask, share | epoch metadata | keys of engines that are gone, dropout |
| Training, privacy | none | arithmetic on gradients, noise | configuration | zero, negative and NaN parameters |
| Metrics, memory, time, attestation, supply chain | baselines | measure, compare | operating system | thresholds |

What makes the components correct:

* coordination: one epoch is ACTIVE at a time, one aggregation at a time runs,
  epochs are aggregated only with a quorum, epochs go through their phases once
  and in order, the ACTIVE epoch serves the model its item names, a quorum is
  eventually aggregated and the next epoch announced;
* submission: what the client will skip is recorded, what is recorded was
  trained from that epoch's model, an organization whose timer keeps running is
  eventually recorded;
* audit log: entry numbers identify entries over restarts and faults, a fault
  costs no more than one entry, verification accepts what was written, as far as
  it is written the same way twice;
* scheduler: allocations equal the sum of the running jobs', limits are kept, no
  job is lost, urgency decides, what was started is not stopped by asking again;
* stores: after a crash no more files are mislabelled than calls were cut short,
  a rollback returns what the last store replaced, a job resumes from its own
  latest checkpoint;
* certificates: overlapping rotations never go below the first certificate;
* network: a call returns, after a bounded number of requests, and Ok means done;
* daemon and client: only configurations that validate are held, used and shown,
  and what validate asks of privacy parameters of usual size is enough for the noise;
* secure aggregation: an aggregate is unmasked exactly when it is of everybody and
  everybody masked with the listed key, the shares of those that remain suffice for
  the rest; Multi-Krum selects no outlier.

## Modules

| Module | What it is |
|---|---|
| `EpochRound` | the round on the coordinator: scripts, trigger, worker, tables, bucket, stream |
| `RoundProtocol` | what `EpochRound` promises: epochs one after the other, one open at a time |
| `EpochRoundProofs` | theorems about `EpochRound` |
| `Submission` | the client's commands and files, and `update_complete` |
| `SubmissionProofs` | theorems about `Submission` |
| `Scheduler` | the job scheduler of the daemon: queue, allocator, preemption |
| `SchedulerProofs` | theorems about `Scheduler` |
| `AuditLog` | the client's audit log over restarts and faults |
| `ModelStore` | the global model on disk, write by write |
| `Checkpoints` | the checkpoint directory |
| `StorageProofs` | theorems about these three |
| `Certificates` | the certificate in use and its rotation |
| `NetworkEngine` | requests with retries and a shared backoff |
| `Configuration` | the configuration file and `validate` |
| `Daemon` | main loop, reload, rounds and their noise |
| `CliSession` | the client's session, beside the daemon's files |
| `HostProofs` | theorems about what runs on one host: `Daemon`, `CliSession`, and the two modules of its connection, `Certificates` and `NetworkEngine` |
| `KrumSelection`, `MultiKrum` | the selection, and updates with outliers |
| `SecureAggregation` | engines, masks, shares and the aggregate |
| `AggregationProofs` | theorems about masks, shares and the selection |
| `FiniteSums` | lemmas: induction over finite sets and numbers, sums over sets |
| `ClientProofs` | theorems about all parts of `MCClient` running interleaved |
| `MCEpochRound`, `MCSubmission`, `MCClient` | the instances TLC checks |

`CliSession` extends `Daemon`, which extends `Configuration`: the client and the
daemon read the same files. `SecureAggregation` and `MultiKrum` extend
`KrumSelection`. `MCClient` puts the components that share no state side by
side; `ClientProofs` lets them all run.

### EpochRound

State: `status` and `modelOf` are the epoch items (a model is identified by the
set of updates it was made of; `{}` is the placeholder that seeds upload),
`lock` is the lock item, `object` the S3 object per version, `subEpoch` the
submission table, `stream` and `tries` the event source, `op`, `trig` and
`worker` the program counters and locals of the scripts, the invocations and
the tasks. Every call to DynamoDB, S3 or ECS is a step of its own. `Required`
is `max(2, secure_agg_threshold)`, asked by the trigger and the worker alike.
`Claim` is the conditional update ACTIVE to AGGREGATING. `Requeue` is the event
source: a failed batch returns with siblings already handled, up to
`MaximumRetryAttempts`, then goes to the dead-letter queue. `FailMark` and
`ReleaseLock` swallow errors as the code does, and `failAgain` is the path that
releases twice.

`Environment` says what may go wrong (crash, lostReply, launchError, manualRun,
bootstrap, preSeed, early, staleIndex, allBad); the runs differ in it. Reads of
a base table see the latest write; queries of the index may lag. The unhandled
and the swallowed errors of a step are counted as `crash`.

### Submission

State: the five files of `model_dir` and `working_dir`, the processes with the
command they run and its locals, the one object an organization has per epoch,
the recorded hashes per epoch, the invocations of `update_complete`, and late
uploads. An update stands for its bytes and its hash; `trainedOn` remembers the
epoch whose model it came from. Training always makes a new update, for its
noise is drawn anew. `run` goes on to the next command whether or not the
previous one succeeded, for `run.rs` awaits all three before it looks at an exit
code. `submit` reads metadata and bytes in two steps, `train` writes them in two.
The two reads of the object by `update_complete` are one step (`Verify`);
between them and `Put` anything may happen. `Activate` and `Close` stand for
everything `EpochRound` does; `update_complete` never looks at the epoch's
status, and neither does the model.

### Scheduler

State: `activeJobs` is the map of the running jobs, `jobQueue` the heap (a set of
entries; `Before` is `Ord for QueuedJob`), `allocated` the accounts of the
`ResourceAllocator`. The scheduler is a value with `&mut self` operations, so
each is one step. `TrySchedule` is the whole of `try_schedule`: start the head,
or preempt the lowest for it, which may free enough or not; in the second case
the victim stays preempted and the head keeps waiting, as in the code. Which of
several lowest jobs is the victim is left open, for a `HashMap` decides. `clash`
is a history variable: the caller has used an id twice at the same time, which
`enqueue` does not refuse; `lately` is another, what `try_schedule` put to run
since any other call, of which `StartedStays` says that it still runs. Nothing in
the repository calls the scheduler yet, so the calls come in any order and none is
assumed to come. That what waits eventually runs is therefore not stated, and it is
not true of the code either: nothing raises the priority of a job that waits, so a
stream of more urgent ones keeps it waiting for ever, as does a head of the queue
that fits nowhere.

`docs/DEPLOYMENT.md:239` says that a lower number is a higher priority and that
higher priorities preempt. The code orders the other way round, and only 8 and
above preempt; the model follows the code.

### AuditLog

State: `lines` and `tail` are the file, terminated lines and an unterminated
rest; `counter`, `lastHash`, `key` and `tamper` are the engine's; `writing` holds
the calls between the two writes of `writeln!`. A hash is the sequence of what
went into it, so equal hashes mean equal histories. `Open` reads the counter from
the last line that parses, and nothing else, from the file. `log_with_chain` holds
its locks to the end, so its calls do not overlap; those of `log_simple` do.
The context of an event is a `HashMap` (`types.rs:428-429`): `verify_log_integrity`
writes the event it has read once more to hash it, and two keys or more may come
out in another order than they were hashed in. `ManyKeys` are the events with that
many; `VerifyLogIntegrity` is asked for each choice of entries that come out
differently (`Reorderings`).

### ModelStore, Checkpoints

Every `std::fs::write` of `ModelStore` is a step; `StoreFault` ends the call before
or inside the write that is next. The manager keeps nothing in memory, so a crash
and an error are the same. `SanitizeVersion` is a constant: which versions share a
file name is up to the caller. A `Checkpoints` file name is a sequence of
characters, for what matters is which names begin like which.

### Certificates, NetworkEngine

`check_rotation` takes `&self`: listing, each comparison and the installation are
steps of their own. The operator installs files at any time, but never replaces one.
Nothing in the repository calls `check_rotation`: the monitor loop
(`main.rs:294-300`) only logs. In `NetworkEngine` the coordinator records a
completion once and refuses a second, as `update_complete` does; `Lose` loses a
request or its reply. `Bits` is the width of the delay, 64 in the code and 3 in the
run.

### Configuration, Daemon, CliSession

A float is the class its comparisons and the noise scale tell apart (`Floats`),
NaN included, for a comparison with NaN is false and `validate` therefore accepts
it; "tiny" and "huge" are those whose quotient by another may be zero or infinite
once it is an f32. `Times`, `Root` and `Over` give the classes a result may be in.
Every section's check is an operator of its own. `run_training_round` awaits
nothing, so SIGHUP and SIGTERM are handled between rounds. `leaving` is the time
between the end of the select and the end of main. `Found` is the search for a
configuration, which never looks at the `config.toml` the wizard writes when
there is no home directory. The wizard puts what is typed between double quotes as it is;
`Quoted` says what TOML reads there (`Unreadable` if it reads nothing), and
`WizardFile` is the configuration that comes out, not the one that was typed
(`typed`).

### SecureAggregation, MultiKrum

Every `SecureAggEngine::new` draws a new key; the key that counts for the others is
the one in the epoch's metadata. One value of the mask is followed, with its sign.
The distances of masked updates are arbitrary, so `Aggregate` selects any set of the
size `KrumSelection` gives: all for an even number of updates, n-f-2 of them for an
odd one. `Left` are the secrets whose masks do not cancel in a sum. In `MultiKrum`
updates are numbers: correct ones close to each other, outliers on one side or both.

## Runs

| Run | Instance | Shows |
|---|---|---|
| `round_lock` | 2 operators, 2 invocations, 2 workers, 3 epochs, 2 faults, symmetry | `SingleActive`, `OneAggregation` with crashes, launch errors, bootstrap, pre-seeding, stale reads |
| `round_faults` | 1 operator, 1 invocation, 2 workers, 2 faults, every hazard | `TypeOK`, `QuorumBeforeAggregation` |
| `round_live` | 1 of each, 4 submissions, 3 epochs, 1 fault, an index that does not lag | `ServedModel`, `NothingForgotten`, `QuorumTriggers`, `RoundResolves`, refinement of `RoundProtocol` |
| `round_double_release` | 2 operators, unusable updates | violated `SingleActive` |
| `round_published_quorum` | unreadable updates | violated `PublishedFromQuorum` |
| `round_late_submission` | stale index | violated `LateSubmissionRetries` |
| `round_stale_count` | 1 of each, 2 submissions, no fault, stale index | violated `CountTransitions` |
| `submission` | a timer and a typed command, 2 invocations, 2 epochs, 1 fault of any kind, updates of 2048 bytes | `TypeOK`, `SkippedIsRecorded`, `RecordedFromItsModel`, `GetsRecorded` |
| `submission_kept` | one timer, one lost reply | violated `RecordedIsKept` |
| `client_parts` | the ten components of `MCClient`, see below | 25 properties, by component as named in `PROJECT.json` |
| `audit_chain` | the audit log alone matters | violated `EntriesChained` |
| `hot_reload` | the daemon alone matters | violated `ReloadNeedsNoRestart` |

`client_parts` chooses one component in the initial state (`focus`) and lets only
that one move: the components share no state, so nothing is lost (`PartsSafe`,
below, is about all of them moving), and the state space is the sum of theirs
instead of their product. The audit log has 3 events, one of them with two context
keys, 3 lives and 2 faults (a fault, a restart into its remains, a fault during the
next entry). The store has 5 metadata records over 4 models and 2 architectures, one
without a signature, retention 2 and 2 faults: one eviction more than a crash can
hide. The checkpoints have three jobs, one the prefix of another and two that are
the same once sanitized. The certificates have 3 files, 2 callers and certificates
of another organization and another issuer. The network has 2 requests, 3 attempts
and a delay of 3 bits, so that the delay wraps. The daemon starts twice, with files
that are missing, malformed, refused or accepted, one with privacy disabled and
parameters nobody checked, and some with an epsilon that is accepted and tiny, huge
or infinite. The wizard is given a path with a backslash that is no escape and one
with a backslash that is. Three organizations create two engines each; of three
updates Multi-Krum selects one, so the aggregate is of a part. Five workers submit 3
kinds of correct and 2 kinds of outlying updates: 5 is the smallest number with f =
1, where Multi-Krum has an outlier to reject. The scheduler has 3 ids, 2 slots and 4
calls besides `try_schedule` and the ends of jobs.

Bounds. Three epochs are the smallest number with two complete rounds after each
other (the last epoch is announced and never run), which the lock needs to pass on.
Two of each process give every pairwise race; the claims that do not depend on the
bounds are proved. Two faults allow one failure during the recovery from another.
Submissions in `round_live` are enough for a quorum in two epochs. The eight update
ids of `Submission` are checked to be enough (`Fresh # {}` in `TypeOK`), and
`FreshUpdates` proves that no behaviour ever exhausts an infinite set of them. The
four demands of the scheduler are one below the priority that may preempt, one at
it, and two above it of which one fits only alone and one never fits; four calls are
enough for a chain of two preemptions and for a clash, and no property of the
scheduler depends on there being no more (they are proved for every `MaxCalls`). In
`round_live` there is one fault, within the retries of a record, so the exception
`faults > MaxRetryAttempts` of `QuorumTriggers` is never used there. Deadlock is not
checked: every one of these systems comes to rest (the last epoch is not run; ids,
calls and faults run out).

Fairness. Lambda and Fargate run what was started and the event source keeps
delivering, so `TriggerProgress` and `WorkerProgress` are weakly fair; operators
and participants owe nothing. In `Submission` only the timer's processes are
started by fairness, and every started process and invocation goes on.
Faults are never fair. Nothing is fair about the scheduler and the rotation of
certificates, for no code of the repository calls them. In `NetworkEngine` a
request is answered or times out, and a sleep ends (`RequestStep`); the polling
loop's sleep ends, and main returns once the select is complete. The operator, the
files, the clock and the faults owe nothing.

### What the violations say

1. `aggregator.py:187-188`: `_fail_epoch` has released the lock already; the
   second release can delete the lock of an epoch activated in between, and two
   epochs become ACTIVE, against `activate_epoch.py:4`.
2. `aggregator.py:139`: the minimum of two participants is asked of submissions,
   not of updates that could be loaded; one update can become the model.
3. `aggregator.py:141`: nothing retries on the next submission, because the
   trigger drops submissions of an epoch that is not ACTIVE.
4. `FL_CLIENT_CLI.md:320`: after a lost reply of `update_complete` the next
   `run` replaces the recorded object before it is told of the conflict.
5. `audit.rs:59`: after a restart the chain begins at the genesis hash again, so
   the first new entry does not contain the hash of the previous one, and
   `verify_log_integrity` rejects every log that saw a restart, against
   `SECURITY.md:264-270`.
6. `aggregation_trigger/app.py:47`: the count is of an index that lags. The
   invocation of the last record of the quorum can see one submission too few and
   end well; no record is left, and the epoch stays ACTIVE for ever, against
   `app.py:3`, although nothing failed. `QuorumTriggers` is what holds where the
   index does not lag.
7. `main.rs:449`: SIGHUP ends the daemon, against `DEPLOYMENT.md:245` and the
   comment at `main.rs:455`.

Further disagreements that no run shows. `update_complete/app.py:58` says that the
trigger relies on the duplicate check, which is a query and an unconditional put:
two invocations can record, and the trigger count, one organization twice.
`network.rs:28` gives the delay as the minimum of a power of two and a bound; in a
release build the power wraps to zero at attempt 64 of the shared counter, and
`CallsReturn` and `SendsBounded` hold in spite of it. `secureagg.rs:115` says that
the mask is as long as the gradients; it has 100 values, and what lies behind them
is sent unmasked. `SECURITY.md:109-115` says that the masks cancel and only the
aggregate is recovered. `UnmaskedExactlyWhenComplete` says when: of an odd number of
updates from 3 on Multi-Krum averages n-f-2, so the masks these share with the rest
stay in the model, and nothing takes them out, for no code asks for the shares. Besides, the metadata of `fl-client train` and of `main.rs` carry
empty keys, and engines are created anew for every round: with nobody's key listed
the hypothesis is not met, and the secrets of an organization with all others are
one, so that of three organizations the middle one's masks cancel each other.
`aggregator.py:36` says that the default f tolerates up to a third; for every even
number of updates the plain mean is taken.

`SECURITY.md:271` says that whoever modifies an entry is detected; an event with two
context keys or more may also be reported as tampered with although nobody touched
it (`audit.rs:207`, `UndisturbedVerifies`). `docs/README.md:254` says that the noise
scale is always positive for valid parameters: `validate` accepts an epsilon of
1e50, whose scale is 0 as an f32, so that no noise is added, and one of 1e-40,
whose scale is infinite (`privacy.rs:53`, `EnabledPrivacyAddsNoise`). `init` says
"Config written" of a file that does not parse when an answer has a backslash or a
quote (`init.rs:42-93`, `WizardConfigLoads`). `SECURITY.md:204-208` says that the
daemon watches `cert_dir`; its monitor loop only logs (`main.rs:294-300`), and of
overlapping rotations the one that installs last may leave an older certificate
than another had installed, though none older than the first (`NeverBelowStart`).

Met while modelling, outside the runs: the update of the present synthetic
training is 400 bytes (`training.rs:203`) and raw floats, while `update_complete`
refuses less than 1024 bytes (`app.py:82`) and the worker loads `.npy`. As the program
stands, no organization ever gets recorded, however often its timer runs: that is
the theorem `RefusedForSize`. `GetsRecorded` has an accepted size as its
hypothesis, and the run gives `UpdateBytes` one; the bound of the run is about a
training that produces a larger update, not about the present one.
With `LOCAL_MODE` the documentation
(`DAEMON_CONNECT.md:202-207`) describes an automatic trigger that no process of
the local setup invokes.

## Proofs

`EpochRoundProofs` proves, for all constants that satisfy `BoundsAssumption` and
`SetsAssumption`:

* `TypeCorrect`: `Spec => []TypeOK`, in every environment;
* `QuorumSafety`: `Spec => []QuorumBeforeAggregation`, in every environment. The
  invariant `QuorumInv` adds that an invocation about to claim, and a worker past
  its count, have seen a quorum. It is inductive because submissions are never
  deleted: what an index showed, however stale, is in the table;
* `LockSafety` and `AggregationExclusion`: `SingleActive` and `OneAggregation`
  where `OneTaskPerEpoch` holds, that is without lost `run_task` replies, manual
  reruns and rounds whose updates are all unusable. `LockInv` follows the lock
  from the operator that acquired it to the ACTIVE epoch, the invocation that
  claimed it and the worker that releases it: at any time at most one of these
  holds it, and the item names its epoch. Without the hypothesis the properties
  are false, see finding 1 and the hazards;
* `ServedModelHolds` and `ProtocolImplemented`: `ServedModel`, and that every step
  of `EpochRound` is a transition of `RoundProtocol` or a stutter, where
  `InSequence` holds: one operator, and no lost `run_task` replies, manual reruns,
  reruns of bootstrap or seeding of a version ahead of its epoch. Crashes, launch
  errors, stale reads, early submissions and rounds without a usable update are
  allowed, and so is any number of invocations and workers. `SequenceInv` has four
  parts: every epoch before one that has an item is over (`Frontier`); what a
  script found still holds at its next step (`ScriptInv`); between the claim and
  the last write about an epoch one process works on it, and the object of the
  next version is the one it has published when it goes on to the next item
  (`WorkInv`); an item that waits or is open names its object
  (`ItemsNameObjects`). `LockInv` is not needed: with the double release a lock
  may be taken from an epoch, but a single operator does not open another epoch
  while one is neither completed nor failed. With two operators that is false, as
  `round_double_release` shows, and so is `ServedModel` even in an environment
  without faults: `seed_epoch.py` reads and puts in two calls, and the put of the
  slower operator makes its epoch PENDING again, whatever became of it meanwhile;
* `SingleActiveInSequence`, `RoundsInOrder` and `RoundOutcomesFinal`, where
  `InSequence` holds: what the refinement is good for. Of the small specification
  `RoundProtocol` it is proved that epochs have items only in order (`InOrder`),
  that no two are open at once (`OneOpen`) and that an outcome is never taken back
  (`OutcomesFinal`), each in a few lines; through `ProtocolImplemented` they hold
  of the scripts, invocations and workers, and `SingleActive` follows without
  `OneTaskPerEpoch`, so also where every download fails and the lock is deleted
  twice;
* `RoundHeldAlways`: `RoundHeld` where `Undisturbed` holds (the index does not lag
  and `run_task` returns no error), for any number of operators. It is inductive
  with `QuorumInv`: a claimed epoch had its quorum, so that the worker's own count
  does not send it away (`aggregator.py:139`), whatever else happens to the epoch;
* `LockNotLeakedHolds`: `LockNotLeaked` where both hold, from `SequenceInv`. It
  needs the one operator: a second one's seeding can overwrite the item of the
  epoch that holds the lock, which then has nobody on its way to release it;
* `QuorumNotForgottenHolds`: `QuorumNotForgotten` in sequence and where submissions
  follow the activation and the index does not lag (`SeenInTime`). `DeliveryInv`
  counts deliveries against faults: the records of an ACTIVE epoch have been tried
  at most as often as something failed, once more if they have left the stream.
  The invocation that handled the last record of the quorum without a failure saw
  all the others in the index, and claimed. Launch errors are
  allowed: they strike after the claim, when the epoch is no longer ACTIVE;
* `NothingForgottenHolds`: the three as one, `NothingForgotten`, where all three
  hypotheses hold.

`SubmissionProofs` proves, for all constants that satisfy `ConstantsAssumption`
and in every environment:

* `TypesHold`: `Spec => []Types`, the types and who waits for whom;
* `FreshUpdates`: `Spec => []TypeOK`, if the set of update ids is infinite. `TypeOK`
  adds that an id is left that nothing refers to, the guard of `Train` that the
  code does not have. `InUseFinite` says that files, processes, invocations, late
  uploads and objects refer to finitely many at any time;
* `RecordedOrigin`: `Spec => []RecordedFromItsModel`. The invariant `OriginInv`
  says of every place where an epoch and a hash travel together (the metadata
  file, a process, an invocation, a submission) that the hash is of an update
  trained from that epoch's model. It is inductive because they are read and
  written together, in one file and one request, and because training makes an
  update no place has yet. Nothing of the kind holds of `update.bin` and of the S3
  object, and nothing of the kind is needed: `update_complete` compares them with
  the hash;
* `SkippedSafety`: `Spec => []SkippedIsRecorded`. `SkippedInv` adds that a process
  about to note a submission has one recorded for its epoch: only the answer to
  `Put` brings it there, the answer reaches the process that asked, about the
  epoch it asked for (part of `Types`), and submissions are never deleted;
* `RefusedForSize`: `Spec => []NothingRecorded` while `SizeAllowed` is false. No
  invocation is ever about to put: `Verify` answers that the size is wrong, and no
  other step leads there.

`SchedulerProofs` proves, for all constants that satisfy `SchedulerAssumption`:

* `LimitsHold`: `SchedSpec => []SchedTypeOK`, with `LimitInv` (the running jobs are finitely
  many, so that one more is one more);
* `JobOnce`: `[]EachJobOnce`, inductive together with `LimitInv`;
* `FinishedLeave` and `UrgencyServed`: the action properties `OnlyFinishedLeave`
  and `UrgentFirst`, from the same invariant. The clock matters here: an entry
  that is pushed is not the candidate that is popped;
* `StartedStay`: the action property `StartedStays`. What was put to run since the
  last other call is at least as urgent as everything that waits, and a victim is
  less urgent than the candidate, which waits;
* `AccountsHold`: `[]AccountsCover`. `Accounted` says it of the totals of
  `FiniteSums`: a start adds its demand to the account and no more than that
  to the sum, less when it replaces a job of the same id; every release takes the
  same from both; so only a clash of ids makes them differ. With the limits
  on the accounts from `LimitsHold` it follows that the running jobs never use
  more than there is.

`StorageProofs` proves, for all constants that satisfy `LogAssumption`:

* `LogTypesHold` and `NumbersIncreaseHolds`: `LogSpec => [](LogTypeOK)` and
  `[]NumbersIncrease`. `Order` speaks of the terminated lines and the tail
  separately: the lines increase, an entry in the tail is above them, a running
  engine's counter is above both. `LastReadable` says that a last entry exists if
  there is one; without it `get_last_entry_number`'s result could not be compared
  with anything;
* `UndisturbedVerifiesHolds`: `[]UndisturbedVerifies`. `ChainInv` follows the
  chain of the first engine up to `last_hash` and the one call that may be in
  progress. So every line passes each comparison but the one with the rewritten
  event, and the log passes exactly when no entry is written in another order;
* `LostPerFaultHolds`: `[]LostPerFault`. The set of lost entries grows and, when a
  newline comes late, shrinks, and a fault may leave a line that costs an entry
  only later. `Paid` therefore counts the acknowledged entries no terminated line
  says together with the line that will spoil the next one (`Debt`), and
  `CallsApart` says that a numbered call is alone in the file, which the mutexes
  of `log_with_chain` see to;

for all that satisfy `StoreAssumption`:

* `MislabelledPerFaultHolds`: `[]MislabelledPerFault`. `StoreInv` counts `Wrong`,
  the mislabelled files together with the one the current model would be archived
  in under a version it is not of. A store cut short between its binary and its
  version mislabels nothing yet; the next store does, without a fault of its own,
  and the file it mislabels was counted before;
* `OneArchitectureHolds`: `[]OneArchitecture`, if a hash names one architecture
  (`HashNamesArchitecture`, in the statement; the instance's metadata satisfy it).
  `ArchInv`: until the first fault the archived models and, outside the writes of
  a store, the current one have the architecture that is written down, and a store
  that is going on was compared with it;
* `RollbackReturnsReplacedHolds`: `[]RollbackReturnsReplaced`. `RollInv` says that
  the manifest names every version once and that the file of its last one exists
  (`ManifestKept`), that what a store replaces is archived before the manifest
  says so (`ArchivedFirst`), and that from then on a rollback leads to it
  (`Replaced`). The manifest is a sequence from which one version is taken out
  (`Retained`) and a front is cut off; lemmas say which versions remain and that
  the last one does. `Distinct` is part of the property, not of the theorem's
  hypotheses;

and for all that satisfy `CheckpointAssumption`:

* `LatestIsOwnHolds` and `ResumesFromLatestHolds`. `CkptInv`: every file has the
  name of the job and epoch it holds, and what a job saved in time is in its file.
  The lemmas are about names as sequences of characters: a name that begins with a
  job's prefix and ends in an epoch is that job's, which is what the parsing of
  the epoch in `find_latest` is for; and `FindLatest` has the highest epoch of a
  finite set.

`HostProofs` (from `DaemonAssumption`, `ConfigurationAssumption` and
`CliAssumption`) proves `HeldIsValidHolds` and `EnabledPrivacyAddsNoiseHolds`. What
was valid on the disk at the time it was read is valid on the disk where every path
exists; and for every privacy section that `validate` accepts, with numbers of usual
size (`Usual`), "positive" is the only class the scale can be in
(`ValidPrivacyGivesNoise`). For the others it is not: the classes of `Over` are as
many as the cast to f32 makes possible. It proves `ShownIsValidHolds` and
`WizardConfigLoadsHolds` of `BesideSpec`, in which the files change under the
session and the daemon's process runs beside it (`HostSpec`, which TLC checks, is a
part of it): what `Found` and `validate` accept is remembered by the session, and
every configuration the wizard writes passes each section's check once its three
paths exist and the organization is not empty (`WizardConfigIsValid`); an answer
that TOML reads otherwise than it was typed gives another configuration, or none.
`OnlyValidInUseHolds` says both of the two processes together.

Of the connection it proves `SendsBoundedHolds` and `CompletionReportedHolds` (from
`NetAssumption`): a request in flight is one more than the failures counted, and a
first call that has not succeeded yet is of a completion that is not recorded or
whose reply was lost. Nothing is needed of the shared counter, and
`NetTypesHold` adds that no sleep is longer than `max_backoff_secs`. It proves
`NeverBelowStartHolds` (from `CertAssumption`): what a caller found was compared
with some earlier certificate in use, which was no older than the first, and
`cert_path` is not written again.

`AggregationProofs` proves, for any set of organizations and number of engines
(`AggAssumption`):

* `UnmaskedExactlyHolds` and `SharesSufficeHolds`. `AggInv`: keys name their engines,
  an update carries the masks of its engine with every other participant, and
  whoever gave shares gave one for everybody who is still missing. Of a pair that
  both submitted with their listed keys the two masks have one secret and opposite
  signs, so no secret is left in the sum; of a pair with one missing the share of
  the other has it. Conversely, in the sum of a part, or with one that masked with
  another engine, some pair has one mask only, and a single mask stays (`OneRemains`,
  `LoneMaskIsLeft`). That a secret comes from exactly two keys is what makes the
  sum over a set of masks a sum of two;

and for any finite number of workers (`KrumAssumption`):

* `OutliersRejectedHolds`: `[]OutliersRejected`, if for some `d` correct updates
  are within `d` of each other, and outliers further from them than a quarter of
  `d` per worker (`Separated(d)`; distances are squares, as in the code;
  `MCClient` checks `Separated(4)` of its instance). Let n = 2k+1, so that f is
  k-1 and k are selected; at least k+2 are then correct. A correct update has k
  others within d, so its score is at most k times d; among the k nearest to an
  outlier at least two are correct, and these alone are further away than that. So
  every outlier scores above every correct update, and a selection of k with an
  outlier in it would have passed over a correct one.

`ClientProofs` puts them together. `Interleaved` is `MCClient` without the focus: at
any time any part takes a step.

* `PartsAreThemselves`: every part behaves as its own specification says. The daemon
  and the client share the configuration file and the disk, and each sees the
  other's steps as steps of its environment (`HostSteps`);
* `PartsTyped`: `[]TypeOK`, from a theorem on the types of each part. Three of these
  say more than a type: a manifest that parses never lists more versions than are
  retained, whatever was torn in between (`StoreTypesHold`, which needs that no
  version is listed twice); no delay is above its bound (`NetTypesHold`); a key that
  was announced is of an engine that existed (`AggTypesHold`);
* `PartsSafe` and `ArchitectureKept`: the safety properties of `client_parts`, the
  latter under `HashNamesArchitecture`. `MCClient` assumes `Separated(4)`, which
  `OutliersRejected` needs.

Induction. The library's induction theorems take an operator as a parameter, which
no prover here can instantiate. `FiniteSums` states induction over finite sets and
over the natural numbers with a *set* of what has the property instead of a
predicate (from the library's `WFMin`, which has no such parameter). With it the
folds over sets (`MapThenSumSet`), which add in the order of a `CHOOSE`, are
proved to be sums that gain and lose one element at a time (`TotalAdd` and its
consequences), and functions defined by recursion, such as `Retained`, are proved
to exist and to do what they say.

The assumptions on constants are about encodings: values that stand for "nothing"
are none of the values (`NoKey`, `None`, `Torn`, `Absent`, `NoJob`), job ids are
sequences, the wizard's fixed texts are texts, workers are finitely many, a word
has a positive number of values (`2^Bits`: the provers know nothing of powers). TLC
evaluates all of them. Those that restrict what the program meets are hypotheses
of the theorems instead (`OneTaskPerEpoch`, `InSequence`, `SeenInTime`,
`Undisturbed`, `HashNamesArchitecture`, `Separated`).

Each action has a lemma per invariant; the temporal step combines them with `PTL`.
Only model-checked: everything under fairness (`QuorumTriggers`, `RoundResolves`,
`GetsRecorded`, `CallsReturn`, `RoundsGoOn`), which is beyond the prover.
`NothingForgotten` is the safety part of the first two: there is always somebody
left whose fair steps lead to what must happen. TLC checks it with one invocation
and one worker, the theorem is about any number. No module uses a RECURSIVE
operator.

## Not modelled, and why

The audit writes, metrics and log output of the coordinator are side effects that
never raise and that no round reads. Its audit chain (`shared/audit.py`) forks when
two writers overlap; its hashes are read for the next entry only, and no code of
the repository verifies it, so there is no promise to check. `LOCAL_MODE` runs the
same worker inside the invocation. The arithmetic of training, clipping and losses,
the bytes of masks, X.509 parsing, key handles and signing, attestation and the
measurements of metrics, memory and clock are data or I/O; the resource and
certificate monitors of the daemon only log. `epoch`, `status` and `version` of the
client read and print. `anchor_to_fabric` is a stub. Registration of an
organization is one put with certificates and keys.

## Plan

Done: `EpochRound`, `RoundProtocol`, `Submission`, `Scheduler`, the components of
`MCClient`, and the proof modules listed above: every safety and action property of
a passing run has a theorem. Left, in this order:

1. `SingleActive` with lost `run_task` replies and several operators: which
   weaker promise the lock keeps there.
2. The drift baselines of `metrics.rs` and the clock check of `time_sync.rs`, once
   the daemon acts on what they return.
3. The daemon's round against the coordinator instead of mocks, when `main.rs`
   calls the network engine: then `NetworkEngine`, `ModelStore` and `Daemon` compose.
