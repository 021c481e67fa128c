----------------------------- MODULE EpochRound -----------------------------
(***************************************************************************)
(* The round of one federated model on the coordinator: the epoch items    *)
(* and the lock item of the DynamoDB epoch table, the operator scripts     *)
(* that seed and activate epochs, the Lambda that consumes the stream of   *)
(* submission inserts and triggers the aggregation, and the Fargate        *)
(* worker that aggregates, publishes the model and opens the next epoch.   *)
(*                                                                         *)
(* Every call the code makes to DynamoDB, S3 or ECS is a step of its own:  *)
(* processes interleave, and die, between any two of them.                 *)
(***************************************************************************)
EXTENDS Integers, FiniteSets

CONSTANTS
  MaxEpoch,          \* bound: epoch numbers 1..MaxEpoch, the last one never run
  Threshold,         \* secure_agg_threshold of every epoch
  Submissions,       \* submission ids; bound on the submissions of a behaviour
  Operators,         \* people running the scripts of coordinator/scripts
  Invocations,       \* concurrent invocations of the trigger Lambda
  Workers,           \* concurrent aggregation tasks
  MaxRetryAttempts,  \* retries of a stream record before it goes to the DLQ
  RunTaskAttempts,   \* calls of ecs.run_task before the trigger gives up
  MaxFaults,         \* bound: crashes, lost replies, reruns of a behaviour
  Environment,       \* what may go wrong around the code, a subset of Hazards
  NoSub              \* a model value: no submission

(***************************************************************************)
(* crash        a process dies, or an error the code swallows happens      *)
(* lostReply    ecs.run_task starts the task and its reply is lost         *)
(* launchError  ecs.run_task fails                                         *)
(* manualRun    somebody runs aggregator.py by hand                        *)
(* bootstrap    bootstrap.py runs (again)                                  *)
(* preSeed      an epoch is seeded while earlier ones are still to be run  *)
(* early        submissions for epochs that were never activated           *)
(* staleIndex   reads of the submission index lag behind the table         *)
(* allBad       no submitted update can be downloaded and loaded           *)
(***************************************************************************)
Hazards == {"crash", "lostReply", "launchError", "manualRun", "bootstrap",
            "preSeed", "early", "staleIndex", "allBad"}

ASSUME BoundsAssumption ==
  /\ MaxEpoch \in Nat \ {0}
  /\ Threshold \in Nat
  /\ MaxRetryAttempts \in Nat
  /\ RunTaskAttempts \in Nat \ {0}
  /\ MaxFaults \in Nat
  /\ Environment \subseteq Hazards

ASSUME SetsAssumption ==
  /\ IsFiniteSet(Submissions)
  /\ NoSub \notin Submissions
  /\ Invocations \cap Workers = {}

VARIABLES
  status,    \* epoch item: its status, "ABSENT" before the item is put
  modelOf,   \* epoch item: model_hash, as the updates that model was made of
  object,    \* S3: the content of models/<model>/v<n>/model.npy, likewise
  lock,      \* lock item: its active_epoch_id, 0 when there is no item
  subEpoch,  \* submission table: the epoch of each submission, 0 if not put
  stream,    \* submissions whose INSERT record waits for delivery
  tries,     \* deliveries of each INSERT record so far
  op,        \* operators: where each one is in its script
  trig,      \* trigger invocations
  worker,    \* aggregation workers
  faults     \* crashes, lost replies and reruns so far

tableVars == <<status, modelOf, lock>>
streamVars == <<subEpoch, stream, tries>>
vars == <<status, modelOf, object, lock, subEpoch, stream, tries, op, trig,
          worker, faults>>

Epoch == 1..MaxEpoch
Statuses == {"ABSENT", "PENDING", "ACTIVE", "AGGREGATING", "COMPLETED", "FAILED"}
Models == SUBSET Submissions          \* {} is the placeholder model of a seed
NoModel == {NoSub}                    \* no model at all
Free == 0

IdleOp == [pc |-> "idle", epoch |-> Free]
IdleTrigger == [pc |-> "idle", sub |-> NoSub, epoch |-> Free, calls |-> 0]
IdleWorker == [pc |-> "idle", epoch |-> Free, updates |-> {}]

Init ==
  /\ status = [e \in Epoch |-> "ABSENT"]
  /\ modelOf = [e \in Epoch |-> NoModel]
  /\ object = [e \in Epoch |-> NoModel]
  /\ lock = Free
  /\ subEpoch = [s \in Submissions |-> 0]
  /\ stream = {}
  /\ tries = [s \in Submissions |-> 0]
  /\ op = [o \in Operators |-> IdleOp]
  /\ trig = [i \in Invocations |-> IdleTrigger]
  /\ worker = [w \in Workers |-> IdleWorker]
  /\ faults = 0

----------------------------------------------------------------------------
(* Submissions as the trigger and the worker see them.                     *)

Recorded(e) == {s \in Submissions : subEpoch[s] = e}

\* What a query of the epoch_id-org_id-index may return.
IndexReads(e) ==
  IF "staleIndex" \in Environment THEN SUBSET Recorded(e) ELSE {Recorded(e)}

Required_NoMinimum == Threshold
Required == IF Threshold > 2 THEN Threshold ELSE 2

Fault(kind) ==
  /\ kind \in Environment
  /\ faults < MaxFaults
  /\ faults' = faults + 1

\* update_complete puts the submission; the table's stream emits its INSERT.
RecordSubmission(s, e) ==
  /\ e < MaxEpoch /\ subEpoch[s] = 0
  /\ "early" \notin Environment => status[e] \notin {"ABSENT", "PENDING"}
  /\ subEpoch' = [subEpoch EXCEPT ![s] = e]
  /\ stream' = stream \cup {s}
  /\ UNCHANGED <<tableVars, object, tries, op, trig, worker, faults>>

----------------------------------------------------------------------------
(* The operator scripts.                                                   *)

AtOp(o, pc, next) ==
  /\ op[o].pc = pc
  /\ op' = [op EXCEPT ![o] = next]

OpUnchanged == UNCHANGED <<streamVars, trig, worker>>

\* seed_epoch.py uploads the placeholder model. Operators seed the number
\* after a failed epoch, or ("preSeed") any number that has no item yet.
SeedUpload(o, e) ==
  /\ status[e] = "ABSENT"
  /\ "preSeed" \notin Environment /\ e > 1 => status[e - 1] = "FAILED"
  /\ AtOp(o, "idle", [pc |-> "seed", epoch |-> e])
  /\ object' = [object EXCEPT ![e] = {}]
  /\ UNCHANGED <<tableVars, faults>> /\ OpUnchanged

\* bootstrap.py does the same for epoch 1, whatever became of epoch 1.
BootstrapUpload(o) ==
  /\ Fault("bootstrap")
  /\ AtOp(o, "idle", [pc |-> "boot", epoch |-> 1])
  /\ object' = [object EXCEPT ![1] = {}]
  /\ UNCHANGED tableVars /\ OpUnchanged

\* Both put the epoch item, unconditionally; bootstrap.py goes on to activate.
SeedItem(o) ==
  /\ \/ AtOp(o, "seed", IdleOp)
     \/ AtOp(o, "boot", [pc |-> "lock", epoch |-> op[o].epoch])
  /\ status' = [status EXCEPT ![op[o].epoch] = "PENDING"]
  /\ modelOf' = [modelOf EXCEPT ![op[o].epoch] = {}]
  /\ UNCHANGED <<object, lock, faults>> /\ OpUnchanged

\* activate_epoch.py: the epoch must be PENDING when it is read ...
ReadPending(o, e) ==
  /\ e < MaxEpoch
  /\ status[e] = "PENDING"
  /\ AtOp(o, "idle", [pc |-> "lock", epoch |-> e])
  /\ UNCHANGED <<tableVars, object, faults>> /\ OpUnchanged

\* ... the lock item is put if there is none, otherwise the script ends ...
AcquireLock_Unconditional(o) ==
  /\ AtOp(o, "lock", [pc |-> "activate", epoch |-> op[o].epoch])
  /\ lock' = op[o].epoch
  /\ UNCHANGED <<status, modelOf, object, faults>> /\ OpUnchanged

AcquireLock(o) ==
  /\ IF lock = Free
     THEN /\ AtOp(o, "lock", [pc |-> "activate", epoch |-> op[o].epoch])
          /\ lock' = op[o].epoch
     ELSE AtOp(o, "lock", IdleOp) /\ UNCHANGED lock
  /\ UNCHANGED <<status, modelOf, object, faults>> /\ OpUnchanged

\* ... and the status is set, without looking at it again.
SetActive(o) ==
  /\ AtOp(o, "activate", IdleOp)
  /\ status' = [status EXCEPT ![op[o].epoch] = "ACTIVE"]
  /\ UNCHANGED <<modelOf, object, lock, faults>> /\ OpUnchanged

OperatorCrash(o) ==
  /\ Fault("crash")
  /\ op[o].pc # "idle"
  /\ op' = [op EXCEPT ![o] = IdleOp]
  /\ UNCHANGED <<tableVars, object>> /\ OpUnchanged

----------------------------------------------------------------------------
(* The trigger Lambda: handler and _process_epoch.                         *)

AtTrigger(i, pc, next) ==
  /\ trig[i].pc = pc
  /\ trig' = [trig EXCEPT ![i] = next]

\* An INSERT record is delivered: the epoch item is read, and the record is
\* dropped unless the epoch is ACTIVE.
Deliver(i, s) ==
  /\ s \in stream
  /\ stream' = stream \ {s}
  /\ tries' = [tries EXCEPT ![s] = @ + 1]
  /\ AtTrigger(i, "idle", IF status[subEpoch[s]] = "ACTIVE"
                          THEN [pc |-> "count", sub |-> s, epoch |-> subEpoch[s], calls |-> 0]
                          ELSE IdleTrigger)
  /\ UNCHANGED <<tableVars, object, subEpoch, op, worker, faults>>

\* The submissions of the epoch are counted; too few, and the record is done.
Count(i) ==
  \E seen \in IndexReads(trig[i].epoch) :
    /\ AtTrigger(i, "count", IF Cardinality(seen) < Required
                             THEN IdleTrigger
                             ELSE [trig[i] EXCEPT !.pc = "claim"])
    /\ UNCHANGED <<tableVars, object, streamVars, op, worker, faults>>

Claim_Unconditional(i) ==
  /\ AtTrigger(i, "claim", [trig[i] EXCEPT !.pc = "launch"])
  /\ status' = [status EXCEPT ![trig[i].epoch] = "AGGREGATING"]
  /\ UNCHANGED <<modelOf, lock, object, streamVars, op, worker, faults>>

\* The conditional update ACTIVE -> AGGREGATING picks one invocation.
Claim(i) ==
  /\ trig[i].pc = "claim"
  /\ IF status[trig[i].epoch] = "ACTIVE"
     THEN /\ AtTrigger(i, "claim", [trig[i] EXCEPT !.pc = "launch"])
          /\ status' = [status EXCEPT ![trig[i].epoch] = "AGGREGATING"]
     ELSE AtTrigger(i, "claim", IdleTrigger) /\ UNCHANGED status
  /\ UNCHANGED <<modelOf, lock, object, streamVars, op, worker, faults>>

StartTask(w, e) ==
  /\ worker[w].pc = "idle"
  /\ worker' = [worker EXCEPT ![w] = [pc |-> "guard", epoch |-> e, updates |-> {}]]

RunTask(i, w) ==
  /\ AtTrigger(i, "launch", IdleTrigger)
  /\ StartTask(w, trig[i].epoch)
  /\ UNCHANGED <<tableVars, object, streamVars, op, faults>>

\* A failed batch goes back to the stream, with the records of it that were
\* already handled, until its retries are used up.
Requeue(i) ==
  LET handled == {s \in Submissions : /\ tries[s] > 0
                                      /\ \A j \in Invocations : trig[j].sub # s}
  IN \E again \in SUBSET handled :
       stream' = stream \cup {s \in again \cup {trig[i].sub} : tries[s] <= MaxRetryAttempts}

\* After the last failed call the handler raises, and the invocation fails.
RunTaskError_Unbounded(i) ==
  /\ "launchError" \in Environment
  /\ AtTrigger(i, "launch", [trig[i] EXCEPT !.calls = @ + 1])
  /\ UNCHANGED <<tableVars, object, streamVars, op, worker, faults>>

RunTaskError(i) ==
  /\ "launchError" \in Environment
  /\ IF trig[i].calls + 1 < RunTaskAttempts
     THEN /\ AtTrigger(i, "launch", [trig[i] EXCEPT !.calls = @ + 1])
          /\ UNCHANGED stream
     ELSE /\ AtTrigger(i, "launch", IdleTrigger)
          /\ Requeue(i)
  /\ UNCHANGED <<tableVars, object, subEpoch, tries, op, worker, faults>>

\* The task was started, the reply was lost, and there is a call left.
RunTaskLostReply(i, w) ==
  /\ Fault("lostReply")
  /\ trig[i].calls + 1 < RunTaskAttempts
  /\ AtTrigger(i, "launch", [trig[i] EXCEPT !.calls = @ + 1])
  /\ StartTask(w, trig[i].epoch)
  /\ UNCHANGED <<tableVars, object, streamVars, op>>

InvocationCrash_Dropped(i) ==
  /\ Fault("crash")
  /\ trig[i].pc # "idle"
  /\ trig' = [trig EXCEPT ![i] = IdleTrigger]
  /\ UNCHANGED <<tableVars, object, streamVars, op, worker>>

InvocationCrash(i) ==
  /\ Fault("crash")
  /\ trig[i].pc # "idle"
  /\ trig' = [trig EXCEPT ![i] = IdleTrigger]
  /\ Requeue(i)
  /\ UNCHANGED <<tableVars, object, subEpoch, tries, op, worker>>

----------------------------------------------------------------------------
(* The aggregation worker: run_aggregation, _fail_epoch, _release_lock.    *)

AtWorker(w, pc, next) ==
  /\ worker[w].pc = pc
  /\ worker' = [worker EXCEPT ![w] = next]

GoTo(w, pc) == [worker[w] EXCEPT !.pc = pc]

WorkerUnchanged == UNCHANGED <<streamVars, op, trig>>

\* aggregator.py started by hand.
ManualRun(w, e) ==
  /\ Fault("manualRun")
  /\ e < MaxEpoch /\ status[e] # "ABSENT"
  /\ StartTask(w, e)
  /\ UNCHANGED <<tableVars, object>> /\ WorkerUnchanged

\* The guard against reruns.
Guard(w) ==
  /\ AtWorker(w, "guard", IF status[worker[w].epoch] = "COMPLETED"
                          THEN IdleWorker ELSE GoTo(w, "fetch"))
  /\ UNCHANGED <<tableVars, object, faults>> /\ WorkerUnchanged

\* No submissions: the epoch fails. Too few: the worker just ends.
Fetch(w) ==
  \E seen \in IndexReads(worker[w].epoch) :
    /\ AtWorker(w, "fetch",
         CASE seen = {} -> GoTo(w, "fail")
           [] seen # {} /\ Cardinality(seen) < Required -> IdleWorker
           [] OTHER -> [GoTo(w, "load") EXCEPT !.updates = seen])
    /\ UNCHANGED <<tableVars, object, faults>> /\ WorkerUnchanged

Load_Ends(w) ==
  \E good \in SUBSET worker[w].updates :
    /\ good # {} \/ "allBad" \in Environment
    /\ AtWorker(w, "load", IF good = {} THEN IdleWorker
                           ELSE [GoTo(w, "publish") EXCEPT !.updates = good])
    /\ UNCHANGED <<tableVars, object, faults>> /\ WorkerUnchanged

\* Updates that cannot be read, do not hash to the recorded hash or have
\* another shape are skipped; with none left the epoch fails.
Load(w) ==
  \E good \in SUBSET worker[w].updates :
    /\ good # {} \/ "allBad" \in Environment
    /\ AtWorker(w, "load", IF good = {} THEN GoTo(w, "failAgain")
                           ELSE [GoTo(w, "publish") EXCEPT !.updates = good])
    /\ UNCHANGED <<tableVars, object, faults>> /\ WorkerUnchanged

PublishModel_OwnVersion(w) ==
  /\ AtWorker(w, "publish", GoTo(w, "complete"))
  /\ object' = [object EXCEPT ![worker[w].epoch] = worker[w].updates]
  /\ UNCHANGED <<tableVars, faults>> /\ WorkerUnchanged

\* The aggregate is put in S3 under the version of the next epoch.
PublishModel(w) ==
  /\ AtWorker(w, "publish", GoTo(w, "complete"))
  /\ object' = [object EXCEPT ![worker[w].epoch + 1] = worker[w].updates]
  /\ UNCHANGED <<tableVars, faults>> /\ WorkerUnchanged

Complete(w) ==
  /\ AtWorker(w, "complete", GoTo(w, "open"))
  /\ status' = [status EXCEPT ![worker[w].epoch] = "COMPLETED"]
  /\ UNCHANGED <<modelOf, lock, object, faults>> /\ WorkerUnchanged

OpenNext_Active(w) ==
  /\ AtWorker(w, "open", GoTo(w, "release"))
  /\ status' = [status EXCEPT ![worker[w].epoch + 1] = "ACTIVE"]
  /\ modelOf' = [modelOf EXCEPT ![worker[w].epoch + 1] = worker[w].updates]
  /\ UNCHANGED <<lock, object, faults>> /\ WorkerUnchanged

OpenNext_NoRelease(w) ==
  /\ AtWorker(w, "open", IdleWorker)
  /\ status' = [status EXCEPT ![worker[w].epoch + 1] = "PENDING"]
  /\ modelOf' = [modelOf EXCEPT ![worker[w].epoch + 1] = worker[w].updates]
  /\ UNCHANGED <<lock, object, faults>> /\ WorkerUnchanged

\* The item of the next epoch is put, whatever item is there.
OpenNext(w) ==
  /\ AtWorker(w, "open", GoTo(w, "release"))
  /\ status' = [status EXCEPT ![worker[w].epoch + 1] = "PENDING"]
  /\ modelOf' = [modelOf EXCEPT ![worker[w].epoch + 1] = worker[w].updates]
  /\ UNCHANGED <<lock, object, faults>> /\ WorkerUnchanged

\* _fail_epoch marks the epoch; an error of that update is swallowed. It is
\* called from two places, and one of them releases the lock once more.
FailMark(w) ==
  /\ \/ AtWorker(w, "fail", GoTo(w, "release"))
     \/ AtWorker(w, "failAgain", GoTo(w, "releaseTwice"))
  /\ \/ /\ status' = [status EXCEPT ![worker[w].epoch] = "FAILED"]
        /\ UNCHANGED faults
     \/ Fault("crash") /\ UNCHANGED status
  /\ UNCHANGED <<modelOf, lock, object>> /\ WorkerUnchanged

\* The lock item is deleted, whichever epoch it names; errors are swallowed.
ReleaseLock(w) ==
  /\ \/ AtWorker(w, "release", IdleWorker)
     \/ AtWorker(w, "releaseTwice", GoTo(w, "release"))
  /\ \/ lock' = Free /\ UNCHANGED faults
     \/ Fault("crash") /\ UNCHANGED lock
  /\ UNCHANGED <<status, modelOf, object>> /\ WorkerUnchanged

WorkerCrash(w) ==
  /\ Fault("crash")
  /\ worker[w].pc # "idle"
  /\ worker' = [worker EXCEPT ![w] = IdleWorker]
  /\ UNCHANGED <<tableVars, object>> /\ WorkerUnchanged

----------------------------------------------------------------------------
OperatorStep(o) ==
  \/ \E e \in Epoch : SeedUpload(o, e) \/ ReadPending(o, e)
  \/ BootstrapUpload(o) \/ SeedItem(o) \/ AcquireLock(o) \/ SetActive(o)
  \/ OperatorCrash(o)

TriggerProgress(i) ==
  \/ \E s \in Submissions : Deliver(i, s)
  \/ Count(i) \/ Claim(i) \/ RunTaskError(i)
  \/ \E w \in Workers : RunTask(i, w)

TriggerStep(i) ==
  \/ TriggerProgress(i) \/ InvocationCrash(i)
  \/ \E w \in Workers : RunTaskLostReply(i, w)

WorkerProgress(w) ==
  \/ Guard(w) \/ Fetch(w) \/ Load(w) \/ PublishModel(w) \/ Complete(w)
  \/ OpenNext(w) \/ FailMark(w) \/ ReleaseLock(w)

WorkerStep(w) ==
  \/ WorkerProgress(w) \/ WorkerCrash(w)
  \/ \E e \in Epoch : ManualRun(w, e)

Next ==
  \/ \E s \in Submissions, e \in Epoch : RecordSubmission(s, e)
  \/ \E o \in Operators : OperatorStep(o)
  \/ \E i \in Invocations : TriggerStep(i)
  \/ \E w \in Workers : WorkerStep(w)

Spec == Init /\ [][Next]_vars

\* Lambda and Fargate run what was started; operators and clients need not act.
Fairness ==
  /\ \A i \in Invocations : WF_vars(TriggerProgress(i))
  /\ \A w \in Workers : WF_vars(WorkerProgress(w))

FairSpec == Spec /\ Fairness

----------------------------------------------------------------------------
(* Properties.                                                             *)

OpStates == {"idle", "seed", "boot", "lock", "activate"}
TriggerStates == {"idle", "count", "claim", "launch"}
WorkerStates == {"idle", "guard", "fetch", "load", "publish", "complete",
                 "open", "fail", "failAgain", "releaseTwice", "release"}

OpType == [pc : OpStates, epoch : Epoch \cup {Free}]
TriggerType == [pc : TriggerStates, sub : Submissions \cup {NoSub},
                epoch : Epoch \cup {Free}, calls : 0..RunTaskAttempts - 1]
WorkerType == [pc : WorkerStates, epoch : Epoch \cup {Free}, updates : Models]

TablesOK ==
  /\ status \in [Epoch -> Statuses]
  /\ modelOf \in [Epoch -> Models \cup {NoModel}]
  /\ object \in [Epoch -> Models \cup {NoModel}]
  /\ lock \in Epoch \cup {Free}
  /\ faults \in 0..MaxFaults

\* What waits in the stream belongs to a recorded submission, and has
\* deliveries left.
StreamOK ==
  /\ subEpoch \in [Submissions -> Epoch \cup {0}]
  /\ stream \subseteq {s \in Submissions : subEpoch[s] # 0 /\ tries[s] <= MaxRetryAttempts}
  /\ tries \in [Submissions -> 0..MaxRetryAttempts + 1]
  /\ \A s \in Submissions : subEpoch[s] = 0 => tries[s] = 0

OpOK ==
  /\ op \in [Operators -> OpType]
  /\ \A o \in Operators : op[o].pc # "idle" => op[o].epoch # Free

TriggerOK ==
  /\ trig \in [Invocations -> TriggerType]
  /\ \A i \in Invocations :
       trig[i].pc # "idle" =>
         /\ trig[i].sub # NoSub /\ trig[i].epoch # Free
         /\ subEpoch[trig[i].sub] = trig[i].epoch

WorkerOK ==
  /\ worker \in [Workers -> WorkerType]
  /\ \A w \in Workers : worker[w].pc # "idle" => worker[w].epoch # Free

\* The types of the tables, the bucket, the stream and the processes.
TypeOK == TablesOK /\ StreamOK /\ OpOK /\ TriggerOK /\ WorkerOK

Quorum(S) == Cardinality(S) >= 2 /\ Cardinality(S) >= Threshold
HasQuorum(e) == Quorum(Recorded(e))

\* An epoch is aggregated, and completed, only with the submissions that the
\* trigger and the worker both ask for (max(2, secure_agg_threshold)), however
\* reads lag, deliveries repeat and processes die.
QuorumBeforeAggregation ==
  \A e \in Epoch : status[e] \in {"AGGREGATING", "COMPLETED"} => HasQuorum(e)

\* "Enforces single-active-epoch invariant" (activate_epoch.py): the lock item
\* keeps a second epoch from becoming ACTIVE.
SingleActive ==
  \A e, f \in Epoch : status[e] = "ACTIVE" /\ status[f] = "ACTIVE" => e = f

Launching == {i \in Invocations : trig[i].pc = "launch"}
Busy == {w \in Workers : worker[w].pc # "idle"}
Activating == {o \in Operators : op[o].pc = "activate"}
InFlight == Launching \cup Busy

\* The conditional update of the trigger and the lock together let one
\* aggregation at a time run for the model, from the claim of an epoch to the
\* release of the lock.
OneAggregation == \A x, y \in InFlight : x = y

\* Daemons check what they download against model_hash: the object in S3 is the
\* one the ACTIVE epoch's item names, although it is put in a step of its own.
ServedModel ==
  \A e \in Epoch : status[e] = "ACTIVE" => object[e] = modelOf[e] /\ object[e] # NoModel

\* "Require minimum 2 participants before aggregation" (aggregator.py): a
\* published model is made of the updates of a quorum, or is a seeded one.
PublishedFromQuorum ==
  \A e \in Epoch : modelOf[e] \in Models \ {{}} => Quorum(modelOf[e])

\* The environments in which what is recorded for an epoch is seen: not before the
\* epoch is ACTIVE, and by every query from then on.
SeenInTime == Environment \cap {"early", "staleIndex"} = {}

\* "When submission count >= secure_agg_threshold, transitions epoch ACTIVE ->
\* AGGREGATING" (aggregation_trigger/app.py): whatever a query of the index shows, an
\* ACTIVE epoch with its quorum does not stay ACTIVE.
CountTransitions ==
  \A e \in Epoch : status[e] = "ACTIVE" /\ HasQuorum(e) ~> status[e] # "ACTIVE"

\* Where submissions follow the activation and the index shows them at once, an
\* ACTIVE epoch with its quorum is taken to aggregation, unless more invocations
\* failed than a record has retries: some INSERT record is then delivered late
\* enough to see them all. Of an index that lags this is not true.
QuorumTriggers ==
  SeenInTime =>
    \A e \in Epoch :
      status[e] = "ACTIVE" /\ HasQuorum(e) ~> status[e] # "ACTIVE" \/ faults > MaxRetryAttempts

\* Unless something crashes, such an epoch is resolved, the lock is given up
\* and, when the epoch is completed, the next one is there to be activated.
RoundResolves ==
  \A e \in 1..MaxEpoch - 1 :
    status[e] = "ACTIVE" /\ HasQuorum(e)
      ~> \/ faults > 0
         \/ status[e] = "FAILED" /\ lock # e
         \/ status[e] = "COMPLETED" /\ lock # e /\ status[e + 1] # "ABSENT"

\* What a fault loses, and only that, is lost: the three properties below say so of
\* the steps that Lambda, ECS and the worker owe each other.

\* Records that will bring an invocation to claim the epoch, or invocations that do.
Pending(e) ==
  \/ \E s \in stream : subEpoch[s] = e
  \/ \E i \in Invocations : trig[i].pc \in {"count", "claim"} /\ trig[i].epoch = e

\* No trigger is lost: an ACTIVE epoch with its quorum has a record or an invocation
\* that will see it, until more invocations have failed than a record has retries.
QuorumNotForgotten ==
  \A e \in Epoch :
    status[e] = "ACTIVE" /\ HasQuorum(e) /\ faults <= MaxRetryAttempts => Pending(e)

\* Workers that have not yet decided, and written, what becomes of their epoch.
Deciding == {w \in Workers : worker[w].pc \notin {"idle", "release", "releaseTwice"}}

\* Invocations that will start, and workers that will end, the aggregation of e.
Aggregated(e) ==
  \/ \E i \in Launching : trig[i].epoch = e
  \/ \E w \in Deciding : worker[w].pc # "open" /\ worker[w].epoch = e

\* No round is dropped: an epoch that is AGGREGATING has an invocation or a worker
\* that will decide it, and one that is COMPLETED a worker that will open the next
\* epoch unless it is there, as long as nothing has failed.
RoundHeld ==
  faults = 0 =>
    \A e \in Epoch :
      /\ status[e] = "AGGREGATING" => Aggregated(e)
      /\ status[e] = "COMPLETED" /\ e < MaxEpoch =>
           \/ status[e + 1] # "ABSENT"
           \/ \E w \in Workers : worker[w].pc = "open" /\ worker[w].epoch = e

\* The lock, which nobody but a worker deletes, is not left behind: there is a
\* script, an epoch or an aggregation on whose way its release lies.
LockNotLeaked ==
  lock # Free /\ faults = 0 =>
    Activating # {} \/ InFlight # {} \/ \E e \in Epoch : status[e] = "ACTIVE"

(* Whatever is begun has somebody who finishes it: a quorum that must trigger, a
   round that must be decided and announce the next one, a lock that must be
   released. Invocations, workers and scripts hand these to each other, over
   redelivered records and crashes, and no hand drops them. *)
NothingForgotten == QuorumNotForgotten /\ RoundHeld /\ LockNotLeaked

\* A worker that found too few submissions left the epoch AGGREGATING "not
\* failing, will retry on next submission" (aggregator.py): a later submission
\* starts an aggregation or resolves the epoch.
LateSubmissionRetries ==
  \A e \in Epoch :
    status[e] = "AGGREGATING" /\ InFlight = {} /\ (\E s \in stream : subEpoch[s] = e)
      ~> InFlight # {} \/ status[e] # "AGGREGATING"

\* What the components promise together: see RoundProtocol.
Protocol == INSTANCE RoundProtocol WITH phase <- status
ImplementsProtocol == Protocol!Spec

----------------------------------------------------------------------------
(* Inductive invariants, proved in EpochRoundProofs.                       *)

\* A count that reached the minimum was right, and remains so: submissions are
\* never deleted.
QuorumInv ==
  /\ QuorumBeforeAggregation
  /\ \A i \in Invocations : trig[i].pc = "claim" => HasQuorum(trig[i].epoch)
  /\ \A w \in Workers :
       worker[w].pc \in {"load", "publish", "complete"} => HasQuorum(worker[w].epoch)

\* The lock passes from the operator that acquired it to the ACTIVE epoch, to the
\* invocation that claims the epoch and to the worker that will release it.
HolderNamesLock ==
  /\ \A e \in Epoch : status[e] = "ACTIVE" => lock = e
  /\ \A o \in Activating : lock = op[o].epoch
  /\ \A i \in Launching : lock = trig[i].epoch
  /\ \A w \in Busy : lock = worker[w].epoch

OneHolder ==
  /\ \A o, p \in Activating : o = p
  /\ \A i, j \in Launching : i = j
  /\ \A w, v \in Busy : w = v
  /\ Activating = {} \/ Launching = {}
  /\ Activating = {} \/ Busy = {}
  /\ Launching = {} \/ Busy = {}
  /\ \A e \in Epoch :
       status[e] = "ACTIVE" => Activating = {} /\ Launching = {} /\ Busy = {}

ReleasedOnce == \A w \in Workers : worker[w].pc \notin {"failAgain", "releaseTwice"}

LockInv == HolderNamesLock /\ OneHolder /\ ReleasedOnce

\* The environments in which the lock does its work: the task of an epoch is
\* started once, and the double release of aggregator.py is not reached.
OneTaskPerEpoch == Environment \cap {"lostReply", "manualRun", "allBad"} = {}

\* The environments in which epochs come one after the other: one operator, and
\* every epoch is seeded once and has its task started once.
InSequence ==
  /\ \A o, p \in Operators : o = p
  /\ Environment \cap {"lostReply", "manualRun", "bootstrap", "preSeed"} = {}

\* Everything before an epoch that has an item is over.
Frontier ==
  \A e, f \in Epoch :
    e < f /\ status[f] # "ABSENT" => status[e] \in {"COMPLETED", "FAILED"}

\* What the script of an operator found still holds at its next step.
ScriptInv ==
  \A o \in Operators :
    LET e == op[o].epoch
    IN /\ op[o].pc # "boot"
       /\ op[o].pc = "seed" =>
            /\ status[e] = "ABSENT" /\ object[e] = {}
            /\ e > 1 => status[e - 1] = "FAILED"
       /\ op[o].pc \in {"lock", "activate"} => status[e] = "PENDING"

\* At most one process, up to the release of the lock, works on an epoch, and the
\* item of that epoch says how far it has come.
WorkInv ==
  /\ \A x, y \in Launching \cup Deciding : x = y
  /\ \A i \in Launching : status[trig[i].epoch] = "AGGREGATING"
  /\ \A w \in Deciding :
       LET e == worker[w].epoch
       IN /\ IF worker[w].pc = "open"
             THEN status[e] = "COMPLETED" /\ (e + 1 \in Epoch => status[e + 1] = "ABSENT")
             ELSE status[e] = "AGGREGATING"
          /\ worker[w].pc \in {"complete", "open"} /\ e + 1 \in Epoch
               => object[e + 1] = worker[w].updates

\* An item that will be opened, or is open, names the object in S3.
ItemsNameObjects ==
  \A e \in Epoch :
    status[e] \in {"PENDING", "ACTIVE"} => object[e] = modelOf[e] /\ object[e] # NoModel

SequenceInv == Frontier /\ ScriptInv /\ WorkInv /\ ItemsNameObjects

\* Nothing is recorded before the epoch is ACTIVE; and every delivery of a record of
\* an ACTIVE epoch but the last has failed.
DeliveryInv ==
  /\ QuorumNotForgotten
  /\ \A e \in Epoch : status[e] \in {"ABSENT", "PENDING"} => Recorded(e) = {}
  /\ \A s \in Submissions : subEpoch[s] # 0 /\ status[subEpoch[s]] = "ACTIVE" =>
       tries[s] <= (IF s \in stream THEN faults ELSE faults + 1)

\* The environments in which a quorum that is there is seen and a task that is asked
\* for is started.
Undisturbed == Environment \cap {"staleIndex", "launchError"} = {}

=============================================================================
