-------------------------- MODULE EpochRoundProofs --------------------------
(***************************************************************************)
(* Proofs about EpochRound for every number of epochs, submissions,        *)
(* operators, invocations and workers, and every Environment.              *)
(***************************************************************************)
EXTENDS EpochRound, FiniteSetTheorems, TLAPS

----------------------------------------------------------------------------
(* Type correctness. What an action of a process changes of that process,  *)
(* stated once.                                                            *)

LEMMA InitTypes == Init => TypeOK
<1> SUFFICES ASSUME Init PROVE TypeOK
  OBVIOUS
<1>1. TablesOK
  BY BoundsAssumption DEF Init, TablesOK, Statuses, Models
<1>2. StreamOK
  BY BoundsAssumption DEF Init, StreamOK
<1>3. OpOK
  BY DEF Init, OpOK, OpType, OpStates, IdleOp
<1>4. TriggerOK
  BY BoundsAssumption DEF Init, TriggerOK, TriggerType, TriggerStates, IdleTrigger
<1>5. WorkerOK
  BY DEF Init, WorkerOK, WorkerType, WorkerStates, IdleWorker, Models
<1>6. QED
  BY <1>1, <1>2, <1>3, <1>4, <1>5 DEF TypeOK

\* A fault is counted within its bound.
LEMMA FaultBound ==
  ASSUME TablesOK, NEW kind, Fault(kind)
  PROVE  faults' \in 0..MaxFaults
BY BoundsAssumption DEF TablesOK, Fault

\* The place an operator moves to is one of its script.
LEMMA AtOpType ==
  ASSUME OpOK, NEW o \in Operators, NEW pc, NEW next \in OpType,
         next.pc # "idle" => next.epoch # Free, AtOp(o, pc, next)
  PROVE  OpOK'
BY DEF OpOK, AtOp

\* Likewise an invocation, as long as it is about a recorded submission.
LEMMA AtTriggerType ==
  ASSUME TriggerOK, NEW i \in Invocations, NEW pc, NEW next \in TriggerType,
         next.pc # "idle" => /\ next.sub # NoSub /\ next.epoch # Free
                             /\ subEpoch[next.sub] = next.epoch,
         AtTrigger(i, pc, next), UNCHANGED subEpoch
  PROVE  TriggerOK'
BY DEF TriggerOK, AtTrigger

\* Likewise a worker.
LEMMA AtWorkerType ==
  ASSUME WorkerOK, NEW w \in Workers, NEW pc, NEW next \in WorkerType,
         next.pc # "idle" => next.epoch # Free, AtWorker(w, pc, next)
  PROVE  WorkerOK'
BY DEF WorkerOK, AtWorker

LEMMA StartTaskType ==
  ASSUME WorkerOK, NEW w \in Workers, NEW e \in Epoch, StartTask(w, e)
  PROVE  WorkerOK'
<1> DEFINE next == [pc |-> "guard", epoch |-> e, updates |-> {}]
<1>1. next \in WorkerType /\ next.epoch # Free
  BY BoundsAssumption DEF WorkerType, WorkerStates, Models, Epoch, Free
<1>2. AtWorker(w, "idle", next)
  BY DEF StartTask, AtWorker
<1>3. QED
  BY <1>1, <1>2, AtWorkerType

\* The epoch of a process that is not idle.
LEMMA Places ==
  ASSUME TypeOK
  PROVE  /\ IdleOp \in OpType /\ IdleOp.pc = "idle"
         /\ IdleTrigger \in TriggerType /\ IdleTrigger.pc = "idle"
         /\ IdleWorker \in WorkerType /\ IdleWorker.pc = "idle"
         /\ \A o \in Operators : op[o].pc # "idle" => op[o].epoch \in Epoch
         /\ \A i \in Invocations : trig[i].pc # "idle" =>
              /\ trig[i].epoch \in Epoch /\ trig[i].sub \in Submissions
              /\ subEpoch[trig[i].sub] = trig[i].epoch
         /\ \A w \in Workers : worker[w].pc # "idle" => worker[w].epoch \in Epoch
<1>1. /\ IdleOp \in OpType /\ IdleOp.pc = "idle"
      /\ IdleTrigger \in TriggerType /\ IdleTrigger.pc = "idle"
      /\ IdleWorker \in WorkerType /\ IdleWorker.pc = "idle"
  BY BoundsAssumption DEF IdleOp, IdleTrigger, IdleWorker, OpType, TriggerType, WorkerType,
     OpStates, TriggerStates, WorkerStates, Models
<1>2. \A o \in Operators : op[o].pc # "idle" => op[o].epoch \in Epoch
  BY DEF TypeOK, OpOK, OpType
<1>3. \A i \in Invocations : trig[i].pc # "idle" =>
        /\ trig[i].epoch \in Epoch /\ trig[i].sub \in Submissions
        /\ subEpoch[trig[i].sub] = trig[i].epoch
  BY DEF TypeOK, TriggerOK, TriggerType
<1>4. \A w \in Workers : worker[w].pc # "idle" => worker[w].epoch \in Epoch
  BY DEF TypeOK, WorkerOK, WorkerType
<1>5. QED
  BY <1>1, <1>2, <1>3, <1>4

----------------------------------------------------------------------------
(* Each action keeps the types.                                            *)

LEMMA RecordType ==
  ASSUME TypeOK, NEW s \in Submissions, NEW e \in Epoch, RecordSubmission(s, e)
  PROVE  TypeOK'
<1> USE DEF TypeOK, RecordSubmission, tableVars
<1>1. TablesOK' /\ OpOK' /\ WorkerOK'
  BY DEF TablesOK, OpOK, WorkerOK
<1>2. e # 0 /\ subEpoch[s] = 0 /\ tries[s] = 0
  BY BoundsAssumption DEF Epoch, StreamOK
<1>3. StreamOK'
  BY <1>2, BoundsAssumption DEF StreamOK
<1>4. \A i \in Invocations : trig[i].pc # "idle" => trig[i].sub # s
  BY <1>2, Places DEF Epoch
<1>5. TriggerOK'
  BY <1>4 DEF TriggerOK, TriggerType, StreamOK
<1>6. QED
  BY <1>1, <1>3, <1>5

\* The operator scripts only touch the epoch table and their own place.
LEMMA OperatorTypes ==
  ASSUME TypeOK, NEW o \in Operators, OperatorStep(o)
  PROVE  TypeOK'
<1>1. StreamOK' /\ TriggerOK' /\ WorkerOK'
  BY DEF OperatorStep, TypeOK, StreamOK, TriggerOK, WorkerOK, SeedUpload, ReadPending,
     BootstrapUpload, SeedItem, AcquireLock, SetActive, OperatorCrash, OpUnchanged, streamVars
<1>2. {} \in Models /\ 1 \in Epoch
  BY BoundsAssumption DEF Models, Epoch
<1>3. \A pc \in OpStates, e \in Epoch :
        [pc |-> pc, epoch |-> e] \in OpType /\ [pc |-> pc, epoch |-> e].epoch # Free
  BY BoundsAssumption DEF OpType, Epoch, Free
<1> USE DEF tableVars
<1>4. ASSUME NEW e \in Epoch, SeedUpload(o, e)
      PROVE  TablesOK' /\ OpOK'
  <2>1. AtOp(o, "idle", [pc |-> "seed", epoch |-> e]) /\ "seed" \in OpStates
    BY <1>4 DEF SeedUpload, OpStates
  <2>2. OpOK'
    BY <2>1, <1>3, AtOpType DEF TypeOK
  <2>3. TablesOK'
    BY <1>4, <1>2 DEF SeedUpload, TypeOK, TablesOK
  <2>4. QED
    BY <2>2, <2>3
<1>5. ASSUME NEW e \in Epoch, ReadPending(o, e)
      PROVE  TablesOK' /\ OpOK'
  <2>1. AtOp(o, "idle", [pc |-> "lock", epoch |-> e]) /\ "lock" \in OpStates
    BY <1>5 DEF ReadPending, OpStates
  <2>2. OpOK'
    BY <2>1, <1>3, AtOpType DEF TypeOK
  <2>3. TablesOK'
    BY <1>5 DEF ReadPending, TypeOK, TablesOK
  <2>4. QED
    BY <2>2, <2>3
<1>6. ASSUME BootstrapUpload(o)
      PROVE  TablesOK' /\ OpOK'
  <2>1. AtOp(o, "idle", [pc |-> "boot", epoch |-> 1]) /\ "boot" \in OpStates
    BY <1>6 DEF BootstrapUpload, OpStates
  <2>2. OpOK'
    BY <2>1, <1>2, <1>3, AtOpType DEF TypeOK
  <2>3. faults' \in 0..MaxFaults
    BY <1>6, FaultBound DEF BootstrapUpload, TypeOK
  <2>4. TablesOK'
    BY <1>6, <1>2, <2>3 DEF BootstrapUpload, TypeOK, TablesOK
  <2>5. QED
    BY <2>2, <2>4
<1>7. ASSUME SeedItem(o)
      PROVE  TablesOK' /\ OpOK'
  <2>1. op[o].epoch \in Epoch
    BY <1>7, Places DEF SeedItem, AtOp
  <2>2. "lock" \in OpStates
    BY DEF OpStates
  <2>3. OpOK'
    BY <1>7, <2>1, <2>2, <1>3, Places, AtOpType DEF SeedItem, TypeOK
  <2>4. TablesOK'
    BY <1>7, <1>2, <2>1 DEF SeedItem, TypeOK, TablesOK, Statuses
  <2>5. QED
    BY <2>3, <2>4
<1>8. ASSUME AcquireLock(o)
      PROVE  TablesOK' /\ OpOK'
  <2>1. op[o].epoch \in Epoch
    BY <1>8, Places DEF AcquireLock, AtOp
  <2>2. "activate" \in OpStates
    BY DEF OpStates
  <2>3. OpOK'
    BY <1>8, <2>1, <2>2, <1>3, Places, AtOpType DEF AcquireLock, TypeOK
  <2>4. TablesOK'
    BY <1>8, <2>1 DEF AcquireLock, TypeOK, TablesOK
  <2>5. QED
    BY <2>3, <2>4
<1>9. ASSUME SetActive(o)
      PROVE  TablesOK' /\ OpOK'
  <2>1. OpOK'
    BY <1>9, Places, AtOpType DEF SetActive, TypeOK
  <2>2. TablesOK'
    BY <1>9 DEF SetActive, TypeOK, TablesOK, Statuses
  <2>3. QED
    BY <2>1, <2>2
<1>10. ASSUME OperatorCrash(o)
       PROVE  TablesOK' /\ OpOK'
  <2>1. OpOK'
    BY <1>10, Places DEF OperatorCrash, TypeOK, OpOK
  <2>2. faults' \in 0..MaxFaults
    BY <1>10, FaultBound DEF OperatorCrash, TypeOK
  <2>3. TablesOK'
    BY <1>10, <2>2 DEF OperatorCrash, TypeOK, TablesOK
  <2>4. QED
    BY <2>1, <2>3
<1>11. QED
  BY <1>1, <1>4, <1>5, <1>6, <1>7, <1>8, <1>9, <1>10 DEF OperatorStep, TypeOK

\* What a failed invocation puts back has deliveries left.
LEMMA RequeueType ==
  ASSUME TypeOK, NEW i \in Invocations, trig[i].pc # "idle", Requeue(i)
  PROVE  stream' \subseteq {s \in Submissions : subEpoch[s] # 0 /\ tries[s] <= MaxRetryAttempts}
<1> DEFINE handled == {s \in Submissions : /\ tries[s] > 0
                                           /\ \A j \in Invocations : trig[j].sub # s}
<1>1. PICK again \in SUBSET handled :
        stream' = stream \cup {s \in again \cup {trig[i].sub} : tries[s] <= MaxRetryAttempts}
  BY DEF Requeue
<1>2. trig[i].sub \in Submissions /\ subEpoch[trig[i].sub] # 0
  BY Places DEF Epoch
<1>3. \A s \in again : s \in Submissions /\ subEpoch[s] # 0
  BY DEF TypeOK, StreamOK
<1>4. stream \subseteq {s \in Submissions : subEpoch[s] # 0 /\ tries[s] <= MaxRetryAttempts}
  BY DEF TypeOK, StreamOK
<1>5. QED
  BY <1>1, <1>2, <1>3, <1>4

LEMMA TriggerTypes ==
  ASSUME TypeOK, NEW i \in Invocations, TriggerStep(i)
  PROVE  TypeOK'
<1> USE DEF TypeOK, tableVars, streamVars
<1>1. OpOK'
  BY DEF TriggerStep, TriggerProgress, OpOK, Deliver, Count, Claim, RunTaskError, RunTask,
     RunTaskLostReply, InvocationCrash
<1>2. ASSUME NEW s \in Submissions, Deliver(i, s)
      PROVE  TypeOK'
  <2>1. /\ s \in stream /\ subEpoch[s] \in Epoch /\ tries[s] \in 0..MaxRetryAttempts
        /\ tries' = [tries EXCEPT ![s] = @ + 1] /\ stream' = stream \ {s}
        /\ UNCHANGED subEpoch
    BY <1>2, BoundsAssumption DEF StreamOK, Deliver
  <2>2. StreamOK'
    BY <2>1, BoundsAssumption DEF StreamOK
  <2>3. [pc |-> "count", sub |-> s, epoch |-> subEpoch[s], calls |-> 0] \in TriggerType
    BY <2>1, BoundsAssumption DEF TriggerType, TriggerStates
  <2>4. s # NoSub /\ subEpoch[s] # Free
    BY <2>1, SetsAssumption, BoundsAssumption DEF Epoch, Free
  <2>5. TriggerOK'
    BY <1>2, <2>1, <2>3, <2>4, Places, AtTriggerType DEF Deliver
  <2>6. TablesOK' /\ WorkerOK'
    BY <1>2 DEF Deliver, TablesOK, WorkerOK
  <2>7. QED
    BY <1>1, <2>2, <2>5, <2>6
<1>3. ASSUME Count(i)
      PROVE  TypeOK'
  <2>1. [trig[i] EXCEPT !.pc = "claim"] \in TriggerType
    BY DEF TriggerOK, TriggerType, TriggerStates
  <2>2. TriggerOK'
    BY <1>3, <2>1, Places, AtTriggerType DEF Count, AtTrigger, TriggerOK
  <2>3. TablesOK' /\ StreamOK' /\ WorkerOK'
    BY <1>3 DEF Count, TablesOK, StreamOK, WorkerOK
  <2>4. QED
    BY <1>1, <2>2, <2>3
<1>4. ASSUME Claim(i)
      PROVE  TypeOK'
  <2> DEFINE next == [trig[i] EXCEPT !.pc = "launch"]
  <2>1. next \in TriggerType /\ next.sub = trig[i].sub /\ next.epoch = trig[i].epoch
    BY DEF TriggerOK, TriggerType, TriggerStates
  <2>2. TriggerOK'
    <3> HIDE DEF next
    <3>1. CASE status[trig[i].epoch] = "ACTIVE"
      <4>1. AtTrigger(i, "claim", next) /\ UNCHANGED subEpoch
        BY <1>4, <3>1 DEF Claim, next
      <4>2. /\ next.sub # NoSub /\ next.epoch # Free
            /\ subEpoch[next.sub] = next.epoch
        BY <4>1, <2>1 DEF AtTrigger, TriggerOK
      <4>3. QED
        BY <4>1, <4>2, <2>1, AtTriggerType
    <3>2. CASE status[trig[i].epoch] # "ACTIVE"
      BY <1>4, <3>2, Places, AtTriggerType DEF Claim
    <3>3. QED
      BY <3>1, <3>2
  <2>3. TablesOK' /\ StreamOK' /\ WorkerOK'
    BY <1>4 DEF Claim, TablesOK, StreamOK, WorkerOK, Statuses
  <2>4. QED
    BY <1>1, <2>2, <2>3
<1>5. ASSUME RunTaskError(i)
      PROVE  TypeOK'
  <2>1. TablesOK' /\ WorkerOK'
    BY <1>5 DEF RunTaskError, TablesOK, WorkerOK
  <2>2. CASE trig[i].calls + 1 < RunTaskAttempts
    <3> DEFINE next == [trig[i] EXCEPT !.calls = @ + 1]
    <3>1. next \in TriggerType /\ next.sub = trig[i].sub /\ next.epoch = trig[i].epoch
      BY <2>2, BoundsAssumption DEF TriggerOK, TriggerType
    <3>2. TriggerOK'
      <4> HIDE DEF next
      <4>1. AtTrigger(i, "launch", next) /\ UNCHANGED subEpoch
        BY <1>5, <2>2 DEF RunTaskError, next
      <4>2. /\ next.sub # NoSub /\ next.epoch # Free
            /\ subEpoch[next.sub] = next.epoch
        BY <4>1, <3>1 DEF AtTrigger, TriggerOK
      <4>3. QED
        BY <4>1, <4>2, <3>1, AtTriggerType
    <3>3. StreamOK'
      BY <1>5, <2>2 DEF RunTaskError, StreamOK
    <3>4. QED
      BY <1>1, <2>1, <3>2, <3>3
  <2>3. CASE ~(trig[i].calls + 1 < RunTaskAttempts)
    <3>1. AtTrigger(i, "launch", IdleTrigger) /\ Requeue(i) /\ UNCHANGED <<subEpoch, tries>>
      BY <1>5, <2>3 DEF RunTaskError
    <3>2. TriggerOK'
      BY <3>1, Places, AtTriggerType
    <3>3. StreamOK'
      BY <3>1, RequeueType DEF StreamOK, AtTrigger
    <3>4. QED
      BY <1>1, <2>1, <3>2, <3>3
  <2>4. QED
    BY <2>2, <2>3
<1>6. ASSUME NEW w \in Workers, RunTask(i, w)
      PROVE  TypeOK'
  <2>1. WorkerOK'
    BY <1>6, Places, StartTaskType DEF RunTask, AtTrigger
  <2>2. TriggerOK'
    BY <1>6, Places, AtTriggerType DEF RunTask
  <2>3. TablesOK' /\ StreamOK'
    BY <1>6 DEF RunTask, TablesOK, StreamOK
  <2>4. QED
    BY <1>1, <2>1, <2>2, <2>3
<1>7. ASSUME NEW w \in Workers, RunTaskLostReply(i, w)
      PROVE  TypeOK'
  <2>1. WorkerOK'
    BY <1>7, Places, StartTaskType DEF RunTaskLostReply, AtTrigger
  <2>2. [trig[i] EXCEPT !.calls = @ + 1] \in TriggerType
    BY <1>7, BoundsAssumption DEF RunTaskLostReply, TriggerOK, TriggerType
  <2>3. TriggerOK'
    BY <1>7, <2>2, AtTriggerType DEF RunTaskLostReply, AtTrigger, TriggerOK
  <2>4. faults' \in 0..MaxFaults
    BY <1>7, FaultBound DEF RunTaskLostReply
  <2>5. TablesOK' /\ StreamOK'
    BY <1>7, <2>4 DEF RunTaskLostReply, TablesOK, StreamOK
  <2>6. QED
    BY <1>1, <2>1, <2>3, <2>5
<1>8. ASSUME InvocationCrash(i)
      PROVE  TypeOK'
  <2>1. TriggerOK'
    BY <1>8, Places DEF InvocationCrash, TriggerOK
  <2>2. StreamOK'
    BY <1>8, RequeueType DEF InvocationCrash, StreamOK
  <2>3. faults' \in 0..MaxFaults
    BY <1>8, FaultBound DEF InvocationCrash
  <2>4. TablesOK' /\ WorkerOK'
    BY <1>8, <2>3 DEF InvocationCrash, TablesOK, WorkerOK
  <2>5. QED
    BY <1>1, <2>1, <2>2, <2>4
<1>9. QED
  BY <1>2, <1>3, <1>4, <1>5, <1>6, <1>7, <1>8 DEF TriggerStep, TriggerProgress

\* Going on, a worker keeps its epoch.
LEMMA GoToType ==
  ASSUME TypeOK, NEW w \in Workers, worker[w].pc # "idle", NEW pc \in WorkerStates
  PROVE  /\ GoTo(w, pc) \in WorkerType /\ GoTo(w, pc).epoch # Free
         /\ \A u \in Models :
              /\ [GoTo(w, pc) EXCEPT !.updates = u] \in WorkerType
              /\ [GoTo(w, pc) EXCEPT !.updates = u].epoch # Free
BY DEF TypeOK, WorkerOK, WorkerType, GoTo

LEMMA WorkerTypes ==
  ASSUME TypeOK, NEW w \in Workers, WorkerStep(w)
  PROVE  TypeOK'
<1>1. StreamOK' /\ OpOK' /\ TriggerOK'
  BY DEF WorkerStep, WorkerProgress, TypeOK, StreamOK, OpOK, TriggerOK, Guard, Fetch, Load,
     PublishModel, Complete, OpenNext, FailMark, ReleaseLock, WorkerCrash, ManualRun,
     WorkerUnchanged, streamVars
<1>2. WorkerStates = {"idle", "guard", "fetch", "load", "publish", "complete",
                      "open", "fail", "failAgain", "releaseTwice", "release"}
  BY DEF WorkerStates
<1>3. worker[w].pc # "idle" => worker[w].epoch \in Epoch /\ worker[w].updates \in Models
  BY Places DEF TypeOK, WorkerOK, WorkerType
<1> USE DEF tableVars
<1>4. ASSUME Guard(w)
      PROVE  TablesOK' /\ WorkerOK'
  BY <1>4, <1>2, GoToType, Places, AtWorkerType DEF Guard, AtWorker, TypeOK, TablesOK
<1>5. ASSUME Fetch(w)
      PROVE  TablesOK' /\ WorkerOK'
  <2>1. PICK seen \in IndexReads(worker[w].epoch) :
          AtWorker(w, "fetch",
            CASE seen = {} -> GoTo(w, "fail")
              [] seen # {} /\ Cardinality(seen) < Required -> IdleWorker
              [] OTHER -> [GoTo(w, "load") EXCEPT !.updates = seen])
    BY <1>5 DEF Fetch
  <2>2. seen \in Models
    BY DEF IndexReads, Recorded, Models
  <2>3. worker[w].pc = "fetch"
    BY <2>1 DEF AtWorker
  <2>4. CASE seen = {}
    BY <2>1, <2>3, <2>4, <1>2, GoToType, AtWorkerType, <1>5 DEF Fetch, TypeOK, TablesOK
  <2>5. CASE seen # {} /\ Cardinality(seen) < Required
    BY <2>1, <2>5, Places, AtWorkerType, <1>5 DEF Fetch, TypeOK, TablesOK
  <2>6. CASE seen # {} /\ ~(Cardinality(seen) < Required)
    BY <2>1, <2>2, <2>3, <2>6, <1>2, GoToType, AtWorkerType, <1>5 DEF Fetch, TypeOK, TablesOK
  <2>7. QED
    BY <2>4, <2>5, <2>6
<1>6. ASSUME Load(w)
      PROVE  TablesOK' /\ WorkerOK'
  <2>1. PICK good \in SUBSET worker[w].updates :
          AtWorker(w, "load", IF good = {} THEN GoTo(w, "failAgain")
                              ELSE [GoTo(w, "publish") EXCEPT !.updates = good])
    BY <1>6 DEF Load
  <2>2. worker[w].pc = "load"
    BY <2>1 DEF AtWorker
  <2>3. good \in Models
    BY <1>3, <2>2 DEF Models
  <2>4. WorkerOK'
    BY <2>1, <2>2, <2>3, <1>2, GoToType, AtWorkerType DEF TypeOK
  <2>5. TablesOK'
    BY <1>6 DEF Load, TypeOK, TablesOK
  <2>6. QED
    BY <2>4, <2>5
<1>7. ASSUME PublishModel(w)
      PROVE  TablesOK' /\ WorkerOK'
  <2>1. WorkerOK'
    BY <1>7, <1>2, GoToType, AtWorkerType DEF PublishModel, AtWorker, TypeOK
  <2>2. TablesOK'
    BY <1>7, <1>3 DEF PublishModel, AtWorker, TypeOK, TablesOK
  <2>3. QED
    BY <2>1, <2>2
<1>8. ASSUME Complete(w)
      PROVE  TablesOK' /\ WorkerOK'
  <2>1. WorkerOK'
    BY <1>8, <1>2, GoToType, AtWorkerType DEF Complete, AtWorker, TypeOK
  <2>2. TablesOK'
    BY <1>8 DEF Complete, TypeOK, TablesOK, Statuses
  <2>3. QED
    BY <2>1, <2>2
<1>9. ASSUME OpenNext(w)
      PROVE  TablesOK' /\ WorkerOK'
  <2>1. WorkerOK'
    BY <1>9, <1>2, GoToType, AtWorkerType DEF OpenNext, AtWorker, TypeOK
  <2>2. TablesOK'
    BY <1>9, <1>3 DEF OpenNext, AtWorker, TypeOK, TablesOK, Statuses
  <2>3. QED
    BY <2>1, <2>2
<1>10. ASSUME FailMark(w)
       PROVE  TablesOK' /\ WorkerOK'
  <2>1. WorkerOK'
    BY <1>10, <1>2, GoToType, AtWorkerType DEF FailMark, AtWorker, TypeOK
  <2>2. faults' \in 0..MaxFaults
    BY <1>10, FaultBound DEF FailMark, TypeOK, TablesOK
  <2>3. TablesOK'
    BY <1>10, <2>2 DEF FailMark, TypeOK, TablesOK, Statuses
  <2>4. QED
    BY <2>1, <2>3
<1>11. ASSUME ReleaseLock(w)
       PROVE  TablesOK' /\ WorkerOK'
  <2>1. WorkerOK'
    BY <1>11, <1>2, GoToType, Places, AtWorkerType DEF ReleaseLock, AtWorker, TypeOK
  <2>2. faults' \in 0..MaxFaults
    BY <1>11, FaultBound DEF ReleaseLock, TypeOK, TablesOK
  <2>3. TablesOK'
    BY <1>11, <2>2 DEF ReleaseLock, TypeOK, TablesOK
  <2>4. QED
    BY <2>1, <2>3
<1>12. ASSUME WorkerCrash(w)
       PROVE  TablesOK' /\ WorkerOK'
  <2>1. WorkerOK'
    BY <1>12, Places DEF WorkerCrash, TypeOK, WorkerOK
  <2>2. faults' \in 0..MaxFaults
    BY <1>12, FaultBound DEF WorkerCrash, TypeOK
  <2>3. TablesOK'
    BY <1>12, <2>2 DEF WorkerCrash, TypeOK, TablesOK
  <2>4. QED
    BY <2>1, <2>3
<1>13. ASSUME NEW e \in Epoch, ManualRun(w, e)
       PROVE  TablesOK' /\ WorkerOK'
  <2>1. WorkerOK'
    BY <1>13, StartTaskType DEF ManualRun, TypeOK
  <2>2. faults' \in 0..MaxFaults
    BY <1>13, FaultBound DEF ManualRun, TypeOK
  <2>3. TablesOK'
    BY <1>13, <2>2 DEF ManualRun, TypeOK, TablesOK
  <2>4. QED
    BY <2>1, <2>3
<1>14. QED
  BY <1>1, <1>4, <1>5, <1>6, <1>7, <1>8, <1>9, <1>10, <1>11, <1>12, <1>13
     DEF WorkerStep, WorkerProgress, TypeOK

\* The types of the tables, the bucket, the stream and the processes; and: a
\* stream record belongs to a recorded submission and has deliveries left, a
\* process that is not idle works on an epoch that exists.
THEOREM TypeCorrect == Spec => []TypeOK
<1>1. Init => TypeOK
  BY InitTypes
<1>2. TypeOK /\ [Next]_vars => TypeOK'
  <2> SUFFICES ASSUME TypeOK, [Next]_vars PROVE TypeOK'
    OBVIOUS
  <2>1. CASE Next
    BY <2>1, RecordType, OperatorTypes, TriggerTypes, WorkerTypes DEF Next
  <2>2. CASE UNCHANGED vars
    BY <2>2 DEF vars, TypeOK, TablesOK, StreamOK, OpOK, TriggerOK, WorkerOK
  <2>3. QED
    BY <2>1, <2>2
<1>3. QED
  BY <1>1, <1>2, PTL DEF Spec

----------------------------------------------------------------------------
(* A quorum before every aggregation.                                      *)

LEMMA RecordedFinite ==
  ASSUME NEW e
  PROVE  IsFiniteSet(Recorded(e)) /\ Cardinality(Recorded(e)) \in Nat
<1>1. Recorded(e) \in SUBSET Submissions
  BY DEF Recorded
<1>2. QED
  BY <1>1, SetsAssumption, FS_Subset, FS_CardinalityType

\* However far the index lags, a read of it that reaches the minimum is right.
LEMMA ReadQuorum ==
  ASSUME NEW e, NEW seen \in IndexReads(e), ~(Cardinality(seen) < Required)
  PROVE  HasQuorum(e)
<1>1. seen \in SUBSET Recorded(e)
  BY DEF IndexReads
<1>2. Cardinality(seen) \in Nat /\ Cardinality(seen) <= Cardinality(Recorded(e))
  BY <1>1, RecordedFinite, FS_Subset, FS_CardinalityType
<1>3. QED
  BY <1>2, RecordedFinite, BoundsAssumption DEF HasQuorum, Quorum, Required

\* A quorum is never lost.
LEMMA QuorumKept ==
  ASSUME TypeOK, NEW s \in Submissions, NEW e \in Epoch, RecordSubmission(s, e),
         NEW f \in Epoch, HasQuorum(f)
  PROVE  HasQuorum(f)'
<1>1. subEpoch[s] = 0 /\ subEpoch' = [subEpoch EXCEPT ![s] = e] /\ f # 0
  BY BoundsAssumption DEF RecordSubmission, Epoch
<1>2. Recorded(f) \subseteq Recorded(f)'
  BY <1>1 DEF Recorded, TypeOK, StreamOK
<1>3. IsFiniteSet(Recorded(f)') /\ Cardinality(Recorded(f)') \in Nat
  <2>1. Recorded(f)' \in SUBSET Submissions
    BY DEF Recorded
  <2>2. QED
    BY <2>1, SetsAssumption, FS_Subset, FS_CardinalityType
<1>4. Cardinality(Recorded(f)) <= Cardinality(Recorded(f)')
  BY <1>2, <1>3, FS_Subset
<1>5. QED
  BY <1>3, <1>4, RecordedFinite, BoundsAssumption DEF HasQuorum, Quorum

LEMMA QuorumFrame ==
  ASSUME UNCHANGED subEpoch
  PROVE  \A e : HasQuorum(e)' <=> HasQuorum(e)
BY DEF HasQuorum, Quorum, Recorded

LEMMA QuorumRecord ==
  ASSUME TypeOK, QuorumInv, NEW s \in Submissions, NEW e \in Epoch, RecordSubmission(s, e)
  PROVE  QuorumInv'
<1>1. UNCHANGED <<status, trig, worker>>
  BY DEF RecordSubmission, tableVars
<1>2. QED
  BY <1>1, QuorumKept, Places DEF QuorumInv, QuorumBeforeAggregation

\* No operator script closes an epoch.
LEMMA QuorumOperator ==
  ASSUME TypeOK, QuorumInv, NEW o \in Operators, OperatorStep(o)
  PROVE  QuorumInv'
<1>1. UNCHANGED <<subEpoch, trig, worker>>
  BY DEF OperatorStep, SeedUpload, ReadPending, BootstrapUpload, SeedItem, AcquireLock,
     SetActive, OperatorCrash, OpUnchanged, streamVars
<1>2. \A e \in Epoch : status'[e] \in {"AGGREGATING", "COMPLETED"} => status'[e] = status[e]
  BY DEF OperatorStep, SeedUpload, ReadPending, BootstrapUpload, SeedItem, AcquireLock,
     SetActive, OperatorCrash, tableVars, TypeOK, TablesOK
<1>3. QED
  BY <1>1, <1>2, QuorumFrame DEF QuorumInv, QuorumBeforeAggregation

LEMMA QuorumTrigger ==
  ASSUME TypeOK, QuorumInv, NEW i \in Invocations, TriggerStep(i)
  PROVE  QuorumInv'
<1>1. UNCHANGED subEpoch
  BY DEF TriggerStep, TriggerProgress, Deliver, Count, Claim, RunTaskError, RunTask,
     RunTaskLostReply, InvocationCrash, streamVars
<1>2. \A j \in Invocations : trig'[j].pc = "claim" => HasQuorum(trig'[j].epoch)
  <2> USE DEF TypeOK, TriggerOK, QuorumInv, AtTrigger
  <2>1. CASE Count(i)
    <3>1. PICK seen \in IndexReads(trig[i].epoch) :
            AtTrigger(i, "count", IF Cardinality(seen) < Required
                                  THEN IdleTrigger
                                  ELSE [trig[i] EXCEPT !.pc = "claim"])
      BY <2>1 DEF Count
    <3>2. CASE Cardinality(seen) < Required
      BY <3>1, <3>2 DEF IdleTrigger
    <3>3. CASE ~(Cardinality(seen) < Required)
      <4>1. HasQuorum(trig[i].epoch)
        BY <3>3, ReadQuorum
      <4>2. QED
        BY <3>1, <3>3, <4>1 DEF TriggerType
    <3>4. QED
      BY <3>2, <3>3
  <2>2. CASE ~Count(i)
    <3>1. \A j \in Invocations : trig'[j].pc = "claim" => trig'[j] = trig[j]
      BY <2>2 DEF TriggerStep, TriggerProgress, Deliver, Claim, RunTaskError, RunTask,
         RunTaskLostReply, InvocationCrash, IdleTrigger, TriggerType
    <3>2. QED
      BY <3>1
  <2>3. QED
    BY <2>1, <2>2
<1>3. \A w \in Workers : worker'[w].pc \in {"load", "publish", "complete"} =>
        worker'[w] = worker[w]
  <2>1. UNCHANGED worker \/ \E w \in Workers : StartTask(w, trig[i].epoch)
    BY DEF TriggerStep, TriggerProgress, Deliver, Count, Claim, RunTaskError, RunTask,
       RunTaskLostReply, InvocationCrash
  <2>2. ASSUME NEW v \in Workers, StartTask(v, trig[i].epoch), NEW w \in Workers,
               worker'[w].pc \in {"load", "publish", "complete"}
        PROVE  worker'[w] = worker[w]
    BY <2>2 DEF StartTask, TypeOK, WorkerOK, WorkerType
  <2>3. QED
    BY <2>1, <2>2
<1>4. \A e \in Epoch : status'[e] \in {"AGGREGATING", "COMPLETED"} => HasQuorum(e)
  <2>1. CASE Claim(i)
    BY <2>1 DEF Claim, AtTrigger, QuorumInv, QuorumBeforeAggregation, TypeOK, TablesOK
  <2>2. CASE ~Claim(i)
    BY <2>2 DEF TriggerStep, TriggerProgress, Deliver, Count, RunTaskError, RunTask,
       RunTaskLostReply, InvocationCrash, tableVars, QuorumInv, QuorumBeforeAggregation
  <2>3. QED
    BY <2>1, <2>2
<1>5. QED
  BY <1>1, <1>2, <1>3, <1>4, QuorumFrame DEF QuorumInv, QuorumBeforeAggregation

LEMMA QuorumWorker ==
  ASSUME TypeOK, QuorumInv, NEW w \in Workers, WorkerStep(w)
  PROVE  QuorumInv'
<1>1. UNCHANGED <<subEpoch, trig>>
  BY DEF WorkerStep, WorkerProgress, Guard, Fetch, Load, PublishModel, Complete, OpenNext,
     FailMark, ReleaseLock, WorkerCrash, ManualRun, WorkerUnchanged, streamVars
<1>2. \A v \in Workers : worker'[v].pc \in {"load", "publish", "complete"} =>
        HasQuorum(worker'[v].epoch)
  <2> USE DEF TypeOK, WorkerOK, WorkerType, QuorumInv, AtWorker, GoTo
  <2>1. CASE Fetch(w)
    <3>1. PICK seen \in IndexReads(worker[w].epoch) :
            AtWorker(w, "fetch",
              CASE seen = {} -> GoTo(w, "fail")
                [] seen # {} /\ Cardinality(seen) < Required -> IdleWorker
                [] OTHER -> [GoTo(w, "load") EXCEPT !.updates = seen])
      BY <2>1 DEF Fetch
    <3>2. CASE seen = {}
      BY <3>1, <3>2
    <3>3. CASE seen # {} /\ Cardinality(seen) < Required
      BY <3>1, <3>3 DEF IdleWorker
    <3>4. CASE seen # {} /\ ~(Cardinality(seen) < Required)
      <4>1. HasQuorum(worker[w].epoch)
        BY <3>4, ReadQuorum
      <4>2. QED
        BY <3>1, <3>4, <4>1
    <3>5. QED
      BY <3>2, <3>3, <3>4
  <2>2. CASE ~Fetch(w)
    <3> DEFINE Kept(v) == worker'[v].pc \in {"load", "publish", "complete"} =>
                            /\ worker[v].pc \in {"load", "publish", "complete"}
                            /\ worker'[v].epoch = worker[v].epoch
    <3>1. \A v \in Workers : Kept(v)
      <4>1. CASE Guard(w) \/ PublishModel(w) \/ Complete(w) \/ OpenNext(w)
        BY <4>1 DEF Guard, PublishModel, Complete, OpenNext, IdleWorker
      <4>2. CASE Load(w)
        BY <4>2 DEF Load
      <4>3. CASE FailMark(w) \/ ReleaseLock(w) \/ WorkerCrash(w)
        BY <4>3 DEF FailMark, ReleaseLock, WorkerCrash, IdleWorker
      <4>4. CASE \E e \in Epoch : ManualRun(w, e)
        BY <4>4 DEF ManualRun, StartTask
      <4>5. QED
        BY <2>2, <4>1, <4>2, <4>3, <4>4 DEF WorkerStep, WorkerProgress
    <3>2. QED
      BY <3>1
  <2>3. QED
    BY <2>1, <2>2
<1>3. \A e \in Epoch : status'[e] \in {"AGGREGATING", "COMPLETED"} => HasQuorum(e)
  <2>1. CASE Complete(w)
    BY <2>1 DEF Complete, AtWorker, QuorumInv, QuorumBeforeAggregation, TypeOK, TablesOK
  <2>2. CASE ~Complete(w)
    <3>1. \A e \in Epoch : status'[e] \in {"AGGREGATING", "COMPLETED"} => status'[e] = status[e]
      BY <2>2 DEF WorkerStep, WorkerProgress, Guard, Fetch, Load, PublishModel, OpenNext,
         FailMark, ReleaseLock, WorkerCrash, ManualRun, tableVars, TypeOK, TablesOK
    <3>2. QED
      BY <3>1 DEF QuorumInv, QuorumBeforeAggregation
  <2>3. QED
    BY <2>1, <2>2
<1>4. QED
  BY <1>1, <1>2, <1>3, QuorumFrame DEF QuorumInv, QuorumBeforeAggregation

LEMMA QuorumInvariant == Spec => []QuorumInv
<1>1. Init => QuorumInv
  BY DEF Init, QuorumInv, QuorumBeforeAggregation, IdleTrigger, IdleWorker
<1>2. TypeOK /\ QuorumInv /\ [Next]_vars => QuorumInv'
  <2> SUFFICES ASSUME TypeOK, QuorumInv, [Next]_vars PROVE QuorumInv'
    OBVIOUS
  <2>1. CASE Next
    BY <2>1, QuorumRecord, QuorumOperator, QuorumTrigger, QuorumWorker DEF Next
  <2>2. CASE UNCHANGED vars
    BY <2>2, QuorumFrame DEF vars, QuorumInv, QuorumBeforeAggregation
  <2>3. QED
    BY <2>1, <2>2
<1>3. QED
  BY <1>1, <1>2, TypeCorrect, PTL DEF Spec

\* However reads of the index lag, records are delivered again and processes
\* die, an epoch is only closed for aggregation, and completed, when at least
\* max(2, secure_agg_threshold) submissions are recorded for it.
THEOREM QuorumSafety == Spec => []QuorumBeforeAggregation
<1>1. QuorumInv => QuorumBeforeAggregation
  BY DEF QuorumInv
<1>2. QED
  BY <1>1, QuorumInvariant, PTL

----------------------------------------------------------------------------
(* The lock, where the task of an epoch is started once.                   *)

LEMMA InitLock == Init => LockInv
BY DEF Init, LockInv, HolderNamesLock, OneHolder, ReleasedOnce, Activating, Launching, Busy,
   IdleOp, IdleTrigger, IdleWorker

\* Steps that leave the lock alone and add no holder of it.
LEMMA NoNewHolder ==
  ASSUME TypeOK, LockInv, UNCHANGED lock,
         Activating' \subseteq Activating,
         Launching' \subseteq Launching,
         Busy' \subseteq Busy,
         \A o \in Activating' : op'[o].epoch = op[o].epoch,
         \A i \in Launching' : trig'[i].epoch = trig[i].epoch,
         \A w \in Busy' : worker'[w].epoch = worker[w].epoch,
         \A e \in Epoch : status'[e] = "ACTIVE" => status[e] = "ACTIVE"
  PROVE  HolderNamesLock' /\ OneHolder'
<1> USE DEF LockInv, HolderNamesLock, OneHolder
<1>1. HolderNamesLock'
  OBVIOUS
<1>2. OneHolder'
  OBVIOUS
<1>3. QED
  BY <1>1, <1>2

LEMMA LockRecord ==
  ASSUME TypeOK, LockInv, NEW s \in Submissions, NEW e \in Epoch, RecordSubmission(s, e)
  PROVE  LockInv'
BY DEF RecordSubmission, tableVars, LockInv, HolderNamesLock, OneHolder, ReleasedOnce,
   Activating, Launching, Busy

LEMMA LockOperator ==
  ASSUME TypeOK, LockInv, NEW o \in Operators, OperatorStep(o)
  PROVE  LockInv'
<1>1. /\ UNCHANGED <<trig, worker>>
      /\ Launching' = Launching /\ Busy' = Busy /\ ReleasedOnce'
  BY DEF OperatorStep, SeedUpload, ReadPending, BootstrapUpload, SeedItem, AcquireLock,
     SetActive, OperatorCrash, OpUnchanged, Launching, Busy, LockInv, ReleasedOnce
<1> USE DEF TypeOK, OpOK, AtOp
<1>2. CASE AcquireLock(o) /\ lock = Free
  <2>1. /\ op[o].epoch \in Epoch /\ lock' = op[o].epoch /\ UNCHANGED status
        /\ op' = [op EXCEPT ![o] = [pc |-> "activate", epoch |-> op[o].epoch]]
    BY <1>2, Places DEF AcquireLock
  <2>2. Activating = {} /\ Launching = {} /\ Busy = {}
    BY <1>2, Places, BoundsAssumption DEF LockInv, HolderNamesLock, Activating, Launching,
       Busy, Epoch, Free
  <2>3. \A e \in Epoch : status[e] # "ACTIVE"
    BY <1>2, BoundsAssumption DEF LockInv, HolderNamesLock, Epoch, Free
  <2>4. Activating' = {o} /\ op'[o].epoch = op[o].epoch
    BY <2>1, <2>2 DEF Activating
  <2>5. HolderNamesLock' /\ OneHolder'
    BY <1>1, <2>1, <2>2, <2>3, <2>4 DEF HolderNamesLock, OneHolder
  <2>6. QED
    BY <1>1, <2>5 DEF LockInv
<1>3. CASE SetActive(o)
  <2>1. /\ op[o].epoch \in Epoch /\ UNCHANGED lock
        /\ status' = [status EXCEPT ![op[o].epoch] = "ACTIVE"]
        /\ op' = [op EXCEPT ![o] = IdleOp]
    BY <1>3, Places DEF SetActive
  <2>2. o \in Activating /\ lock = op[o].epoch
    BY <1>3 DEF SetActive, Activating, LockInv, HolderNamesLock
  <2>3. Activating = {o} /\ Launching = {} /\ Busy = {}
    BY <2>2 DEF LockInv, OneHolder
  <2>4. Activating' = {}
    BY <2>1, <2>3 DEF Activating, IdleOp
  <2>5. \A e \in Epoch : status'[e] = "ACTIVE" => e = op[o].epoch
    BY <2>1, <2>2 DEF TablesOK, LockInv, OneHolder
  <2>6. HolderNamesLock' /\ OneHolder'
    BY <1>1, <2>1, <2>2, <2>3, <2>4, <2>5 DEF HolderNamesLock, OneHolder
  <2>7. QED
    BY <1>1, <2>6 DEF LockInv
<1>4. CASE ~SetActive(o) /\ ~(AcquireLock(o) /\ lock = Free)
  <2>1. /\ UNCHANGED lock
        /\ \A p \in Operators : op'[p].pc = "activate" => op'[p] = op[p]
    BY <1>4 DEF OperatorStep, SeedUpload, ReadPending, BootstrapUpload, SeedItem, AcquireLock,
       OperatorCrash, tableVars, IdleOp
  <2>2. \A e \in Epoch : status'[e] = "ACTIVE" => status[e] = "ACTIVE"
    BY <1>4 DEF OperatorStep, SeedUpload, ReadPending, BootstrapUpload, SeedItem, AcquireLock,
       OperatorCrash, tableVars, TablesOK
  <2>3. HolderNamesLock' /\ OneHolder'
    BY <1>1, <2>1, <2>2, NoNewHolder DEF Activating
  <2>4. QED
    BY <1>1, <2>3 DEF LockInv
<1>5. QED
  BY <1>2, <1>3, <1>4

LEMMA LockTrigger ==
  ASSUME OneTaskPerEpoch, TypeOK, LockInv, NEW i \in Invocations, TriggerStep(i)
  PROVE  LockInv'
<1>1. UNCHANGED <<lock, op>> /\ Activating' = Activating
  BY DEF TriggerStep, TriggerProgress, Deliver, Count, Claim, RunTaskError, RunTask,
     RunTaskLostReply, InvocationCrash, tableVars, Activating
<1>2. ~ \E w \in Workers : RunTaskLostReply(i, w)
  BY DEF OneTaskPerEpoch, RunTaskLostReply, Fault
<1> USE DEF TypeOK, TriggerOK, AtTrigger
<1>3. CASE Claim(i) /\ status[trig[i].epoch] = "ACTIVE"
  <2> DEFINE e == trig[i].epoch
  <2>1. /\ e \in Epoch /\ UNCHANGED worker
        /\ status' = [status EXCEPT ![e] = "AGGREGATING"]
        /\ trig' = [trig EXCEPT ![i] = [trig[i] EXCEPT !.pc = "launch"]]
    BY <1>3, Places DEF Claim
  <2>2. lock = e /\ Activating = {} /\ Launching = {} /\ Busy = {}
    BY <1>3, <2>1 DEF LockInv, HolderNamesLock, OneHolder
  <2>3. Launching' = {i} /\ trig'[i].epoch = e
    BY <2>1, <2>2 DEF Launching, TriggerType
  <2>4. Busy' = {} /\ ReleasedOnce'
    BY <2>1, <2>2 DEF Busy, LockInv, ReleasedOnce
  <2>5. \A f \in Epoch : status'[f] # "ACTIVE"
    BY <2>1, <2>2, <1>3 DEF TablesOK, LockInv, HolderNamesLock
  <2>6. HolderNamesLock' /\ OneHolder'
    BY <1>1, <2>2, <2>3, <2>4, <2>5 DEF HolderNamesLock, OneHolder
  <2>7. QED
    BY <2>4, <2>6 DEF LockInv
<1>4. ASSUME NEW w \in Workers, RunTask(i, w)
      PROVE  LockInv'
  <2> DEFINE e == trig[i].epoch
  <2>1. /\ UNCHANGED status
        /\ trig[i].pc = "launch" /\ trig' = [trig EXCEPT ![i] = IdleTrigger]
        /\ worker' = [worker EXCEPT ![w] = [pc |-> "guard", epoch |-> e, updates |-> {}]]
    BY <1>4 DEF RunTask, StartTask, tableVars
  <2>2. i \in Launching
    BY <2>1 DEF Launching
  <2>3. lock = e /\ Launching = {i} /\ Activating = {} /\ Busy = {}
    BY <2>2 DEF LockInv, HolderNamesLock, OneHolder
  <2>4. Launching' = {}
    BY <2>1, <2>3 DEF Launching, IdleTrigger
  <2>5. Busy' = {w} /\ worker'[w].epoch = e /\ ReleasedOnce'
    BY <2>1, <2>3 DEF Busy, WorkerOK, LockInv, ReleasedOnce
  <2>6. \A f \in Epoch : status'[f] # "ACTIVE"
    BY <2>1, <2>2 DEF LockInv, OneHolder
  <2>7. HolderNamesLock' /\ OneHolder'
    BY <1>1, <2>3, <2>4, <2>5, <2>6 DEF HolderNamesLock, OneHolder
  <2>8. QED
    BY <2>5, <2>7 DEF LockInv
<1>5. CASE ~(Claim(i) /\ status[trig[i].epoch] = "ACTIVE") /\ ~ \E w \in Workers : RunTask(i, w)
  <2>1. UNCHANGED <<status, worker>>
    BY <1>2, <1>5 DEF TriggerStep, TriggerProgress, Deliver, Count, Claim, RunTaskError,
       InvocationCrash, tableVars
  <2>2. \A j \in Invocations : trig'[j].pc = "launch" =>
          trig[j].pc = "launch" /\ trig'[j].epoch = trig[j].epoch
    BY <1>2, <1>5 DEF TriggerStep, TriggerProgress, Deliver, Count, Claim, RunTaskError,
       InvocationCrash, IdleTrigger, TriggerType
  <2>3. Busy' = Busy /\ ReleasedOnce'
    BY <2>1 DEF Busy, LockInv, ReleasedOnce
  <2>4. HolderNamesLock' /\ OneHolder'
    BY <1>1, <2>1, <2>2, <2>3, NoNewHolder DEF Launching
  <2>5. QED
    BY <2>3, <2>4 DEF LockInv
<1>6. QED
  BY <1>3, <1>4, <1>5

LEMMA LockWorker ==
  ASSUME OneTaskPerEpoch, TypeOK, LockInv, NEW w \in Workers, WorkerStep(w)
  PROVE  LockInv'
<1>1. UNCHANGED <<trig, op>> /\ Activating' = Activating /\ Launching' = Launching
  BY DEF WorkerStep, WorkerProgress, Guard, Fetch, Load, PublishModel, Complete, OpenNext,
     FailMark, ReleaseLock, WorkerCrash, ManualRun, WorkerUnchanged, Activating, Launching
<1>2. ~ \E e \in Epoch : ManualRun(w, e)
  BY DEF OneTaskPerEpoch, ManualRun, Fault
<1>3. /\ \A v \in Workers \ {w} : worker'[v] = worker[v]
      /\ worker[w].pc # "idle"
      /\ worker'[w].pc # "idle" => worker'[w].epoch = worker[w].epoch
      /\ worker'[w].pc \notin {"failAgain", "releaseTwice"}
  <2> USE DEF TypeOK, WorkerOK, WorkerType, AtWorker, GoTo, IdleWorker, LockInv, ReleasedOnce
  <2>1. CASE Guard(w) \/ PublishModel(w) \/ Complete(w) \/ OpenNext(w)
    BY <2>1 DEF Guard, PublishModel, Complete, OpenNext
  <2>2. CASE Fetch(w)
    BY <2>2 DEF Fetch
  <2>3. CASE Load(w)
    BY <2>3 DEF Load, OneTaskPerEpoch
  <2>4. CASE FailMark(w) \/ ReleaseLock(w) \/ WorkerCrash(w)
    BY <2>4 DEF FailMark, ReleaseLock, WorkerCrash
  <2>5. QED
    BY <1>2, <2>1, <2>2, <2>3, <2>4 DEF WorkerStep, WorkerProgress
<1>4. ReleasedOnce' /\ Busy' \subseteq Busy /\ Busy = {w}
  BY <1>3 DEF LockInv, ReleasedOnce, Busy, OneHolder
<1>5. \A e \in Epoch : status[e] # "ACTIVE"
  BY <1>4 DEF LockInv, OneHolder
<1>6. \A e \in Epoch : status'[e] # "ACTIVE"
  BY <1>2, <1>5 DEF WorkerStep, WorkerProgress, Guard, Fetch, Load, PublishModel, Complete,
     OpenNext, FailMark, ReleaseLock, WorkerCrash, tableVars, TypeOK, TablesOK
<1>7. CASE UNCHANGED lock
  BY <1>1, <1>3, <1>4, <1>6, <1>7, NoNewHolder DEF LockInv, Busy
<1>8. CASE lock' # lock
  <2>1. ReleaseLock(w)
    BY <1>2, <1>8 DEF WorkerStep, WorkerProgress, Guard, Fetch, Load, PublishModel, Complete,
       OpenNext, FailMark, ReleaseLock, WorkerCrash, tableVars
  <2>2. worker[w].pc = "release" /\ worker' = [worker EXCEPT ![w] = IdleWorker]
    BY <2>1 DEF ReleaseLock, AtWorker, LockInv, ReleasedOnce
  <2>3. Busy' = {}
    BY <2>2, <1>4 DEF Busy, IdleWorker, TypeOK, WorkerOK
  <2>4. Activating' = {} /\ Launching' = {}
    BY <1>1, <1>4 DEF LockInv, OneHolder
  <2>5. HolderNamesLock' /\ OneHolder'
    BY <1>6, <2>3, <2>4 DEF HolderNamesLock, OneHolder
  <2>6. QED
    BY <1>4, <2>5 DEF LockInv
<1>9. QED
  BY <1>7, <1>8

LEMMA LockInvariant ==
  ASSUME OneTaskPerEpoch
  PROVE  Spec => []LockInv
<1>1. Init => LockInv
  BY InitLock
<1>2. TypeOK /\ LockInv /\ [Next]_vars => LockInv'
  <2> SUFFICES ASSUME TypeOK, LockInv, [Next]_vars PROVE LockInv'
    OBVIOUS
  <2>1. CASE Next
    BY <2>1, LockRecord, LockOperator, LockTrigger, LockWorker DEF Next
  <2>2. CASE UNCHANGED vars
    BY <2>2 DEF vars, LockInv, HolderNamesLock, OneHolder, ReleasedOnce, Activating,
       Launching, Busy
  <2>3. QED
    BY <2>1, <2>2
<1>3. QED
  BY <1>1, <1>2, TypeCorrect, PTL DEF Spec

\* The lock item keeps a second epoch from becoming ACTIVE, whatever crashes,
\* lags or is seeded early, as long as the task of an epoch is started once and
\* the double release of aggregator.py is not reached.
THEOREM LockSafety ==
  ASSUME OneTaskPerEpoch
  PROVE  Spec => []SingleActive
<1>1. LockInv => SingleActive
  BY DEF LockInv, HolderNamesLock, SingleActive
<1>2. QED
  BY <1>1, LockInvariant, PTL

\* Under the same condition one aggregation at a time runs for the model.
THEOREM AggregationExclusion ==
  ASSUME OneTaskPerEpoch
  PROVE  Spec => []OneAggregation
<1>1. LockInv => OneAggregation
  BY DEF LockInv, OneHolder, OneAggregation, InFlight
<1>2. QED
  BY <1>1, LockInvariant, PTL

----------------------------------------------------------------------------
(* Epochs one after the other, where one operator seeds every epoch once   *)
(* and the task of an epoch is started once. The lock is not needed here.  *)

LEMMA InitSequence == Init => SequenceInv
BY DEF Init, SequenceInv, Frontier, ScriptInv, WorkInv, ItemsNameObjects, Launching, Deciding,
   IdleOp, IdleTrigger, IdleWorker

\* Steps that change no item and no object, and in which no process comes to work
\* on an epoch.
LEMMA SequenceFrame ==
  ASSUME SequenceInv, UNCHANGED <<status, modelOf, object>>,
         \A o \in Operators : \/ op'[o].pc = "idle"
                              \/ op'[o] = op[o]
                              \/ /\ op[o].pc = "lock" /\ op'[o].pc = "activate"
                                 /\ op'[o].epoch = op[o].epoch,
         \A i \in Launching' : i \in Launching /\ trig'[i].epoch = trig[i].epoch,
         \A w \in Deciding' :
           /\ w \in Deciding /\ worker'[w].epoch = worker[w].epoch
           /\ worker[w].pc = "open" => worker'[w].pc = "open"
           /\ worker'[w].pc \in {"complete", "open"} => worker'[w] = worker[w]
  PROVE  SequenceInv'
<1>1. Frontier' /\ ItemsNameObjects'
  BY DEF SequenceInv, Frontier, ItemsNameObjects
<1>2. ScriptInv'
  BY DEF SequenceInv, ScriptInv
<1>3. WorkInv'
  <2>1. \A x, y \in Launching' \cup Deciding' : x = y
    BY DEF SequenceInv, WorkInv
  <2>2. \A i \in Launching' : status'[trig'[i].epoch] = "AGGREGATING"
    BY DEF SequenceInv, WorkInv
  <2>3. ASSUME NEW w \in Deciding'
        PROVE  LET e == worker'[w].epoch
               IN /\ IF worker'[w].pc = "open"
                     THEN status'[e] = "COMPLETED" /\ (e + 1 \in Epoch => status'[e + 1] = "ABSENT")
                     ELSE status'[e] = "AGGREGATING"
                  /\ worker'[w].pc \in {"complete", "open"} /\ e + 1 \in Epoch
                       => object'[e + 1] = worker'[w].updates
    <3>1. CASE worker'[w].pc \in {"complete", "open"}
      BY <3>1 DEF SequenceInv, WorkInv
    <3>2. CASE worker'[w].pc \notin {"complete", "open"}
      BY <3>2 DEF SequenceInv, WorkInv
    <3> QED
      BY <3>1, <3>2
  <2> QED
    BY <2>1, <2>2, <2>3 DEF WorkInv
<1> QED
  BY <1>1, <1>2, <1>3 DEF SequenceInv

LEMMA SequenceRecord ==
  ASSUME SequenceInv, NEW s \in Submissions, NEW e \in Epoch, RecordSubmission(s, e)
  PROVE  SequenceInv'
<1>1. UNCHANGED <<status, modelOf, object, op, trig, worker>>
  BY DEF RecordSubmission, tableVars
<1>2. Launching' = Launching /\ Deciding' = Deciding
  BY <1>1 DEF Launching, Deciding
<1> QED
  BY <1>1, <1>2, SequenceFrame

\* At most one epoch has an item and is not over.
LEMMA OneUnfinished ==
  ASSUME TypeOK, Frontier, NEW e \in Epoch, NEW f \in Epoch,
         status[e] \in {"PENDING", "ACTIVE", "AGGREGATING"},
         status[f] \in {"PENDING", "ACTIVE", "AGGREGATING"}
  PROVE  e = f
<1>1. e \in Int /\ f \in Int
  BY DEF Epoch
<1>2. ~(e < f) /\ ~(f < e)
  BY DEF Frontier
<1> QED
  BY <1>1, <1>2

\* A process that works on an epoch: no other epoch waits or is open.
LEMMA NoneWaits ==
  ASSUME TypeOK, SequenceInv, Launching \cup Deciding # {}
  PROVE  \A e \in Epoch : status[e] \notin {"PENDING", "ACTIVE"}
<1>1. ASSUME NEW i \in Launching
      PROVE  \A e \in Epoch : status[e] \notin {"PENDING", "ACTIVE"}
  <2>1. trig[i].epoch \in Epoch /\ status[trig[i].epoch] = "AGGREGATING"
    BY Places DEF Launching, SequenceInv, WorkInv
  <2> QED
    BY <2>1, OneUnfinished DEF SequenceInv
<1>2. ASSUME NEW w \in Deciding
      PROVE  \A e \in Epoch : status[e] \notin {"PENDING", "ACTIVE"}
  <2>1. worker[w].epoch \in Epoch
    BY Places DEF Deciding
  <2>2. CASE worker[w].pc # "open"
    <3>1. status[worker[w].epoch] = "AGGREGATING"
      BY <2>2 DEF SequenceInv, WorkInv
    <3> QED
      BY <2>1, <3>1, OneUnfinished DEF SequenceInv
  <2>3. CASE worker[w].pc = "open"
    <3> DEFINE e == worker[w].epoch
    <3>1. status[e] = "COMPLETED" /\ (e + 1 \in Epoch => status[e + 1] = "ABSENT")
      BY <2>3 DEF SequenceInv, WorkInv
    <3>2. ASSUME NEW f \in Epoch, status[f] \in {"PENDING", "ACTIVE"} PROVE FALSE
      <4>1. e \in Int /\ f \in Int /\ e \in 1..MaxEpoch /\ f \in 1..MaxEpoch /\ MaxEpoch \in Nat
        BY <2>1, BoundsAssumption DEF Epoch
      <4>2. ~(f < e)
        BY <2>1, <3>1, <3>2 DEF SequenceInv, Frontier
      <4>3. f # e
        BY <3>1, <3>2
      <4>4. e + 1 \in Epoch /\ f # e + 1
        BY <3>1, <3>2, <4>1, <4>2, <4>3 DEF Epoch
      <4>5. e + 1 < f
        BY <4>1, <4>2, <4>3, <4>4
      <4>6. status[e + 1] \in {"COMPLETED", "FAILED"}
        BY <3>2, <4>4, <4>5 DEF SequenceInv, Frontier
      <4> QED
        BY <3>1, <4>4, <4>6
    <3> QED
      BY <3>2
  <2> QED
    BY <2>2, <2>3
<1> QED
  BY <1>1, <1>2

\* The scripts of the only operator.
LEMMA SequenceOperator ==
  ASSUME InSequence, TypeOK, SequenceInv, NEW o \in Operators, OperatorStep(o)
  PROVE  SequenceInv'
<1>1. UNCHANGED <<trig, worker>> /\ Launching' = Launching /\ Deciding' = Deciding
  BY DEF OperatorStep, SeedUpload, ReadPending, BootstrapUpload, SeedItem, AcquireLock,
     SetActive, OperatorCrash, OpUnchanged, Launching, Deciding
<1>2. \A p \in Operators : p = o
  BY DEF InSequence
<1>3. MaxEpoch \in Nat /\ \A e \in Epoch : e \in Int /\ 1 <= e /\ (e > 1 => e - 1 \in Epoch)
  BY BoundsAssumption DEF Epoch
<1>4. \A w \in Deciding : worker[w].epoch \in Epoch
  BY Places DEF Deciding
<1>5. \A i \in Launching : trig[i].epoch \in Epoch
  BY Places DEF Launching
<1>6. ASSUME NEW e \in Epoch, SeedUpload(o, e)
      PROVE  SequenceInv'
  <2>1. /\ status[e] = "ABSENT" /\ (e > 1 => status[e - 1] = "FAILED")
        /\ op' = [op EXCEPT ![o] = [pc |-> "seed", epoch |-> e]]
        /\ object' = [object EXCEPT ![e] = {}]
        /\ UNCHANGED <<status, modelOf>>
    BY <1>6 DEF SeedUpload, AtOp, InSequence, tableVars
  <2>2. object'[e] = {} /\ \A f \in Epoch \ {e} : object'[f] = object[f]
    BY <2>1 DEF TypeOK, TablesOK
  <2>3. Frontier' /\ ItemsNameObjects'
    BY <2>1, <2>2 DEF SequenceInv, Frontier, ItemsNameObjects
  <2>4. op'[o] = [pc |-> "seed", epoch |-> e]
    BY <2>1 DEF TypeOK, OpOK
  <2>5. ScriptInv'
    BY <1>2, <2>1, <2>2, <2>4 DEF ScriptInv
  <2>6. ASSUME NEW w \in Deciding PROVE worker[w].epoch + 1 # e
    <3>1. CASE worker[w].epoch + 1 = e
      <4> DEFINE d == worker[w].epoch
      <4>1. d \in Int /\ 1 <= d /\ e \in Int /\ d + 1 = e
        BY <1>3, <1>4, <3>1
      <4> HIDE DEF d
      <4>2. e > 1 /\ e - 1 = d
        BY <4>1
      <4> QED
        BY <2>1, <4>2 DEF SequenceInv, WorkInv, d
    <3> QED
      BY <3>1
  <2>7. WorkInv'
    BY <1>1, <2>1, <2>2, <2>6 DEF SequenceInv, WorkInv
  <2> QED
    BY <2>3, <2>5, <2>7 DEF SequenceInv
<1>7. ASSUME NEW e \in Epoch, ReadPending(o, e)
      PROVE  SequenceInv'
  <2>1. /\ status[e] = "PENDING" /\ op' = [op EXCEPT ![o] = [pc |-> "lock", epoch |-> e]]
        /\ UNCHANGED <<status, modelOf, object>>
    BY <1>7 DEF ReadPending, AtOp, tableVars
  <2>2. op'[o] = [pc |-> "lock", epoch |-> e]
    BY <2>1 DEF TypeOK, OpOK
  <2>3. ScriptInv'
    BY <1>2, <2>1, <2>2 DEF ScriptInv
  <2>4. Frontier' /\ ItemsNameObjects' /\ WorkInv'
    BY <1>1, <2>1 DEF SequenceInv, Frontier, ItemsNameObjects, WorkInv
  <2> QED
    BY <2>3, <2>4 DEF SequenceInv
<1>8. ASSUME SeedItem(o)
      PROVE  SequenceInv'
  <2> DEFINE e == op[o].epoch
  <2>1. /\ op[o].pc = "seed" /\ op' = [op EXCEPT ![o] = IdleOp]
        /\ status' = [status EXCEPT ![e] = "PENDING"]
        /\ modelOf' = [modelOf EXCEPT ![e] = {}]
        /\ UNCHANGED object
    BY <1>8 DEF SeedItem, AtOp, SequenceInv, ScriptInv
  <2>2. /\ e \in Epoch /\ status[e] = "ABSENT" /\ object[e] = {}
        /\ e > 1 => status[e - 1] = "FAILED"
    BY <2>1, Places DEF SequenceInv, ScriptInv
  <2> HIDE DEF e
  <2>3. /\ status'[e] = "PENDING" /\ modelOf'[e] = {}
        /\ \A f \in Epoch \ {e} : status'[f] = status[f] /\ modelOf'[f] = modelOf[f]
    BY <2>1, <2>2 DEF TypeOK, TablesOK
  <2>4. Frontier'
    <3> SUFFICES ASSUME NEW d \in Epoch, NEW f \in Epoch, d < f, status'[f] # "ABSENT"
                 PROVE  status'[d] \in {"COMPLETED", "FAILED"}
      BY DEF Frontier
    <3>1. CASE f = e
      <4>1. e - 1 \in Epoch /\ status[e - 1] = "FAILED" /\ (d = e - 1 \/ d < e - 1)
        BY <3>1, <1>3, <2>2
      <4>2. status[d] \in {"COMPLETED", "FAILED"}
        BY <4>1 DEF SequenceInv, Frontier
      <4> QED
        BY <2>2, <2>3, <4>2
    <3>2. CASE f # e
      <4>1. status[d] \in {"COMPLETED", "FAILED"}
        BY <2>3, <3>2 DEF SequenceInv, Frontier
      <4> QED
        BY <2>2, <2>3, <4>1
    <3> QED
      BY <3>1, <3>2
  <2>5. ScriptInv'
    BY <1>2, <2>1 DEF ScriptInv, IdleOp, TypeOK, OpOK
  <2>6. ItemsNameObjects'
    BY <2>1, <2>2, <2>3 DEF SequenceInv, ItemsNameObjects, NoModel
  <2>7. ASSUME NEW w \in Deciding PROVE worker[w].epoch # e
    BY <2>2 DEF SequenceInv, WorkInv
  <2>8. ASSUME NEW w \in Deciding, worker[w].pc = "open" PROVE worker[w].epoch + 1 # e
    <3>1. CASE worker[w].epoch + 1 = e
      <4> DEFINE d == worker[w].epoch
      <4>1. d \in Int /\ 1 <= d /\ e \in Int /\ d + 1 = e
        BY <1>3, <1>4, <2>2, <3>1
      <4> HIDE DEF d
      <4>2. e > 1 /\ e - 1 = d
        BY <4>1
      <4> QED
        BY <2>2, <2>8, <4>2 DEF SequenceInv, WorkInv, d
    <3> QED
      BY <3>1
  <2>9. WorkInv'
    BY <1>1, <1>4, <1>5, <2>1, <2>2, <2>3, <2>7, <2>8 DEF SequenceInv, WorkInv
  <2> QED
    BY <2>4, <2>5, <2>6, <2>9 DEF SequenceInv
<1>9. ASSUME SetActive(o)
      PROVE  SequenceInv'
  <2> DEFINE e == op[o].epoch
  <2>1. /\ op' = [op EXCEPT ![o] = IdleOp]
        /\ status' = [status EXCEPT ![e] = "ACTIVE"]
        /\ UNCHANGED <<modelOf, object>>
    BY <1>9 DEF SetActive, AtOp
  <2>2. e \in Epoch /\ status[e] = "PENDING"
    BY <1>9, Places DEF SetActive, AtOp, SequenceInv, ScriptInv
  <2> HIDE DEF e
  <2>3. status'[e] = "ACTIVE" /\ \A f \in Epoch \ {e} : status'[f] = status[f]
    BY <2>1, <2>2 DEF TypeOK, TablesOK
  <2>4. Frontier' /\ ItemsNameObjects'
    BY <2>1, <2>2, <2>3 DEF SequenceInv, Frontier, ItemsNameObjects
  <2>5. ScriptInv'
    BY <1>2, <2>1 DEF ScriptInv, IdleOp, TypeOK, OpOK
  <2>6. WorkInv'
    BY <1>1, <1>4, <1>5, <2>1, <2>2, <2>3 DEF SequenceInv, WorkInv
  <2> QED
    BY <2>4, <2>5, <2>6 DEF SequenceInv
<1>10. CASE AcquireLock(o) \/ OperatorCrash(o)
  <2>1. UNCHANGED <<status, modelOf, object>>
    BY <1>10 DEF AcquireLock, OperatorCrash, tableVars
  <2>2. \A p \in Operators : \/ op'[p].pc = "idle"
                             \/ op'[p] = op[p]
                             \/ /\ op[p].pc = "lock" /\ op'[p].pc = "activate"
                                /\ op'[p].epoch = op[p].epoch
    BY <1>10 DEF AcquireLock, OperatorCrash, AtOp, IdleOp, TypeOK, OpOK
  <2> QED
    BY <1>1, <2>1, <2>2, SequenceFrame
<1>11. ~BootstrapUpload(o)
  BY DEF BootstrapUpload, Fault, InSequence
<1> QED
  BY <1>6, <1>7, <1>8, <1>9, <1>10, <1>11 DEF OperatorStep

\* The claim of an epoch and the start of its task; nothing else changes an item.
LEMMA SequenceTrigger ==
  ASSUME InSequence, TypeOK, SequenceInv, NEW i \in Invocations, TriggerStep(i)
  PROVE  SequenceInv'
<1>1. UNCHANGED <<modelOf, object, op>>
  BY DEF TriggerStep, TriggerProgress, Deliver, Count, Claim, RunTaskError, RunTask,
     RunTaskLostReply, InvocationCrash, tableVars
<1>2. ~ \E w \in Workers : RunTaskLostReply(i, w)
  BY DEF InSequence, RunTaskLostReply, Fault
<1> USE DEF AtTrigger
<1>3. CASE Claim(i) /\ status[trig[i].epoch] = "ACTIVE"
  <2> DEFINE e == trig[i].epoch
  <2>1. /\ e \in Epoch /\ status[e] = "ACTIVE" /\ UNCHANGED worker
        /\ status' = [status EXCEPT ![e] = "AGGREGATING"]
        /\ trig' = [trig EXCEPT ![i] = [trig[i] EXCEPT !.pc = "launch"]]
    BY <1>3, Places DEF Claim
  <2>2. Launching = {} /\ Deciding = {}
    BY <2>1, NoneWaits
  <2>3. Launching' = {i} /\ Deciding' = {} /\ trig'[i].epoch = e
    BY <2>1, <2>2 DEF Launching, Deciding, TypeOK, TriggerOK, TriggerType
  <2> HIDE DEF e
  <2>4. status'[e] = "AGGREGATING" /\ \A f \in Epoch \ {e} : status'[f] = status[f]
    BY <2>1 DEF TypeOK, TablesOK
  <2>5. Frontier'
    BY <2>1, <2>4 DEF SequenceInv, Frontier
  <2>6. ItemsNameObjects'
    BY <1>1, <2>1, <2>4 DEF SequenceInv, ItemsNameObjects
  <2>7. ScriptInv'
    <3>1. \A o \in Operators : op[o].pc # "idle" => op[o].epoch \in Epoch
      BY Places
    <3>2. \A d \in Epoch : d > 1 => d - 1 \in Epoch
      BY BoundsAssumption DEF Epoch
    <3> QED
      BY <1>1, <2>1, <2>4, <3>1, <3>2 DEF SequenceInv, ScriptInv
  <2>8. WorkInv'
    BY <2>3, <2>4 DEF WorkInv
  <2> QED
    BY <2>5, <2>6, <2>7, <2>8 DEF SequenceInv
<1>4. ASSUME NEW w \in Workers, RunTask(i, w)
      PROVE  SequenceInv'
  <2> DEFINE e == trig[i].epoch
  <2>1. /\ UNCHANGED status
        /\ trig[i].pc = "launch" /\ trig' = [trig EXCEPT ![i] = IdleTrigger]
        /\ worker[w].pc = "idle"
        /\ worker' = [worker EXCEPT ![w] = [pc |-> "guard", epoch |-> e, updates |-> {}]]
    BY <1>4 DEF RunTask, StartTask, tableVars
  <2>2. Launching = {i} /\ Deciding \subseteq {i} /\ status[e] = "AGGREGATING"
    BY <2>1 DEF Launching, SequenceInv, WorkInv
  <2>3. Deciding = {}
    BY <2>2, SetsAssumption DEF Deciding
  <2>4. Launching' = {}
    BY <2>1, <2>2 DEF Launching, IdleTrigger, TypeOK, TriggerOK
  <2>5. worker'[w] = [pc |-> "guard", epoch |-> e, updates |-> {}] /\ Deciding' = {w}
    BY <2>1, <2>3 DEF Deciding, TypeOK, WorkerOK
  <2>6. WorkInv'
    BY <2>1, <2>2, <2>4, <2>5 DEF WorkInv
  <2>7. Frontier' /\ ItemsNameObjects' /\ ScriptInv'
    BY <1>1, <2>1 DEF SequenceInv, Frontier, ItemsNameObjects, ScriptInv
  <2> QED
    BY <2>6, <2>7 DEF SequenceInv
<1>5. CASE ~(Claim(i) /\ status[trig[i].epoch] = "ACTIVE") /\ ~ \E w \in Workers : RunTask(i, w)
  <2>1. UNCHANGED <<status, worker>>
    BY <1>2, <1>5 DEF TriggerStep, TriggerProgress, Deliver, Count, Claim, RunTaskError,
       InvocationCrash, tableVars
  <2>2. \A j \in Invocations : trig'[j].pc = "launch" =>
          trig[j].pc = "launch" /\ trig'[j].epoch = trig[j].epoch
    BY <1>2, <1>5 DEF TriggerStep, TriggerProgress, Deliver, Count, Claim, RunTaskError,
       InvocationCrash, IdleTrigger, TypeOK, TriggerOK, TriggerType
  <2>3. \A j \in Launching' : j \in Launching /\ trig'[j].epoch = trig[j].epoch
    BY <2>2 DEF Launching
  <2>4. Deciding' = Deciding
    BY <2>1 DEF Deciding
  <2> QED
    BY <1>1, <2>1, <2>3, <2>4, SequenceFrame
<1> QED
  BY <1>3, <1>4, <1>5

\* What the worker that works on an epoch knows of it.
LEMMA WorkersEpoch ==
  ASSUME TypeOK, SequenceInv, NEW w \in Deciding
  PROVE  /\ Deciding = {w} /\ Launching \subseteq {w}
         /\ worker[w].epoch \in Epoch /\ worker[w].epoch \in Int
         /\ worker[w].updates \in Models
BY Places DEF Deciding, SequenceInv, WorkInv, Epoch, TypeOK, WorkerOK, WorkerType

LEMMA SequencePublish ==
  ASSUME TypeOK, SequenceInv, NEW w \in Workers, PublishModel(w)
  PROVE  SequenceInv'
<1> DEFINE e == worker[w].epoch
<1>1. /\ worker[w].pc = "publish"
      /\ worker' = [worker EXCEPT ![w] = [worker[w] EXCEPT !.pc = "complete"]]
      /\ object' = [object EXCEPT ![e + 1] = worker[w].updates]
      /\ UNCHANGED <<status, modelOf, op, trig>>
  BY DEF PublishModel, AtWorker, GoTo, tableVars, WorkerUnchanged
<1>2. w \in Deciding
  BY <1>1 DEF Deciding
<1>3. Deciding = {w} /\ Launching \subseteq {w} /\ e \in Epoch /\ e \in Int
  BY <1>2, WorkersEpoch
<1>4. status[e] = "AGGREGATING"
  BY <1>1, <1>2 DEF SequenceInv, WorkInv
<1>5. worker'[w] = [worker[w] EXCEPT !.pc = "complete"] /\ Deciding' = {w} /\ Launching' = Launching
  BY <1>1, <1>3 DEF Deciding, Launching, TypeOK, WorkerOK, WorkerType
<1>6. worker'[w].pc = "complete" /\ worker'[w].epoch = e /\ worker'[w].updates = worker[w].updates
  BY <1>1, <1>5 DEF TypeOK, WorkerOK, WorkerType
<1> HIDE DEF e
<1>7. /\ \A f \in Epoch : f # e + 1 => object'[f] = object[f]
      /\ e + 1 \in Epoch => object'[e + 1] = worker[w].updates
  BY <1>1 DEF TypeOK, TablesOK
<1>8. Frontier'
  BY <1>1 DEF SequenceInv, Frontier
<1>9. ItemsNameObjects'
  <2>1. \A f \in Epoch : status[f] \notin {"PENDING", "ACTIVE"}
    BY <1>2, NoneWaits
  <2> QED
    BY <1>1, <2>1 DEF ItemsNameObjects
<1>10. ScriptInv'
  <2>1. ASSUME NEW o \in Operators, op[o].pc = "seed"
        PROVE  op[o].epoch # e + 1 /\ op[o].epoch \in Epoch
    <3>1. op[o].epoch \in Epoch /\ (op[o].epoch > 1 => status[op[o].epoch - 1] = "FAILED")
      BY <2>1, Places DEF SequenceInv, ScriptInv
    <3>2. e >= 1 /\ (e + 1) - 1 = e
      BY <1>3 DEF Epoch
    <3> QED
      BY <1>3, <1>4, <3>1, <3>2
  <2> QED
    BY <1>1, <1>7, <2>1 DEF SequenceInv, ScriptInv
<1>11. WorkInv'
  BY <1>1, <1>3, <1>4, <1>5, <1>6, <1>7 DEF WorkInv, SequenceInv
<1> QED
  BY <1>8, <1>9, <1>10, <1>11 DEF SequenceInv

\* An epoch that is being aggregated is over: its item is marked.
LEMMA SequenceResolve ==
  ASSUME TypeOK, SequenceInv, NEW w \in Deciding, NEW result \in {"COMPLETED", "FAILED"},
         status[worker[w].epoch] = "AGGREGATING",
         status' = [status EXCEPT ![worker[w].epoch] = result],
         UNCHANGED <<modelOf, object, op>>
  PROVE  /\ status'[worker[w].epoch] = result
         /\ \A f \in Epoch : f > worker[w].epoch => status'[f] = "ABSENT"
         /\ Frontier' /\ ItemsNameObjects' /\ ScriptInv'
<1> DEFINE e == worker[w].epoch
<1>1. e \in Epoch /\ e \in Int
  BY WorkersEpoch
<1> HIDE DEF e
<1>2. status'[e] = result /\ \A f \in Epoch \ {e} : status'[f] = status[f]
  BY <1>1 DEF TypeOK, TablesOK, e
<1>3. status[e] = "AGGREGATING"
  BY DEF e
<1>4. ASSUME NEW f \in Epoch, f > e PROVE status'[f] = "ABSENT"
  <2>1. f # e /\ e < f
    BY <1>1, <1>4 DEF Epoch
  <2>2. status[f] = "ABSENT"
    BY <1>1, <1>3, <2>1 DEF SequenceInv, Frontier
  <2> QED
    BY <1>2, <2>1, <2>2
<1>5. Frontier'
  BY <1>1, <1>2, <1>3 DEF SequenceInv, Frontier
<1>6. ItemsNameObjects'
  BY <1>2 DEF SequenceInv, ItemsNameObjects
<1>7. ScriptInv'
  <2>1. \A o \in Operators : op[o].pc # "idle" => op[o].epoch \in Epoch
    BY Places
  <2>2. \A d \in Epoch : d > 1 => d - 1 \in Epoch
    BY BoundsAssumption DEF Epoch
  <2> QED
    BY <1>1, <1>2, <1>3, <2>1, <2>2 DEF SequenceInv, ScriptInv
<1> QED
  BY <1>2, <1>4, <1>5, <1>6, <1>7 DEF e

LEMMA SequenceComplete ==
  ASSUME TypeOK, SequenceInv, NEW w \in Workers, Complete(w)
  PROVE  SequenceInv'
<1> DEFINE e == worker[w].epoch
<1>1. /\ worker[w].pc = "complete"
      /\ worker' = [worker EXCEPT ![w] = [worker[w] EXCEPT !.pc = "open"]]
      /\ status' = [status EXCEPT ![e] = "COMPLETED"]
      /\ UNCHANGED <<modelOf, object, op, trig>>
  BY DEF Complete, AtWorker, GoTo, WorkerUnchanged
<1>2. w \in Deciding
  BY <1>1 DEF Deciding
<1>3. Deciding = {w} /\ Launching \subseteq {w} /\ e \in Epoch /\ e \in Int
  BY <1>2, WorkersEpoch
<1>4. status[e] = "AGGREGATING" /\ (e + 1 \in Epoch => object[e + 1] = worker[w].updates)
  BY <1>1, <1>2 DEF SequenceInv, WorkInv
<1>5. /\ status'[e] = "COMPLETED" /\ \A f \in Epoch : f > e => status'[f] = "ABSENT"
      /\ Frontier' /\ ItemsNameObjects' /\ ScriptInv'
  BY <1>1, <1>2, <1>4, SequenceResolve
<1>6. worker'[w] = [worker[w] EXCEPT !.pc = "open"] /\ Deciding' = {w} /\ Launching' = Launching
  BY <1>1, <1>3 DEF Deciding, Launching, TypeOK, WorkerOK, WorkerType
<1>7. worker'[w].pc = "open" /\ worker'[w].epoch = e /\ worker'[w].updates = worker[w].updates
  BY <1>1, <1>6 DEF TypeOK, WorkerOK, WorkerType
<1>8. Launching = {}
  BY <1>1, <1>3, SetsAssumption DEF Launching
<1>9. e + 1 > e
  BY <1>3
<1> HIDE DEF e
<1>10. WorkInv'
  BY <1>1, <1>4, <1>5, <1>6, <1>7, <1>8, <1>9 DEF WorkInv
<1> QED
  BY <1>5, <1>10 DEF SequenceInv

LEMMA SequenceFail ==
  ASSUME TypeOK, SequenceInv, NEW w \in Workers, FailMark(w), status' # status
  PROVE  SequenceInv'
<1>1. /\ worker[w].pc \in {"fail", "failAgain"}
      /\ worker' = [worker EXCEPT ![w] = [worker[w] EXCEPT
                      !.pc = IF worker[w].pc = "fail" THEN "release" ELSE "releaseTwice"]]
      /\ status' = [status EXCEPT ![worker[w].epoch] = "FAILED"]
      /\ UNCHANGED <<modelOf, object, op, trig>>
  BY DEF FailMark, AtWorker, GoTo, WorkerUnchanged
<1>2. w \in Deciding
  BY <1>1 DEF Deciding
<1>3. Deciding = {w} /\ Launching \subseteq {w}
  BY <1>2, WorkersEpoch
<1>4. status[worker[w].epoch] = "AGGREGATING"
  BY <1>1, <1>2 DEF SequenceInv, WorkInv
<1>5. Frontier' /\ ItemsNameObjects' /\ ScriptInv'
  BY <1>1, <1>2, <1>4, SequenceResolve
<1>6. Launching' = {} /\ Deciding' = {}
  BY <1>1, <1>3, SetsAssumption DEF Launching, Deciding, TypeOK, WorkerOK, WorkerType
<1>7. WorkInv'
  BY <1>6 DEF WorkInv
<1> QED
  BY <1>5, <1>7 DEF SequenceInv

LEMMA SequenceOpen ==
  ASSUME TypeOK, SequenceInv, NEW w \in Workers, OpenNext(w)
  PROVE  SequenceInv'
<1> DEFINE e == worker[w].epoch
           n == e + 1
<1>1. /\ worker[w].pc = "open"
      /\ worker' = [worker EXCEPT ![w] = [worker[w] EXCEPT !.pc = "release"]]
      /\ status' = [status EXCEPT ![n] = "PENDING"]
      /\ modelOf' = [modelOf EXCEPT ![n] = worker[w].updates]
      /\ UNCHANGED <<object, op, trig>>
  BY DEF OpenNext, AtWorker, GoTo, WorkerUnchanged
<1>2. w \in Deciding
  BY <1>1 DEF Deciding
<1>3. /\ Deciding = {w} /\ Launching \subseteq {w} /\ e \in Epoch /\ e \in Int
      /\ worker[w].updates \in Models
  BY <1>2, WorkersEpoch
<1>4. /\ status[e] = "COMPLETED"
      /\ n \in Epoch => status[n] = "ABSENT" /\ object[n] = worker[w].updates
  BY <1>1, <1>2 DEF SequenceInv, WorkInv
<1>5. Launching' = {} /\ Deciding' = {}
  BY <1>1, <1>3, SetsAssumption DEF Launching, Deciding, TypeOK, WorkerOK, WorkerType
<1>6. WorkInv'
  BY <1>5 DEF WorkInv
<1>7. n \in Int /\ e < n /\ n > 1 /\ n - 1 = e
  BY <1>3 DEF Epoch
<1> HIDE DEF e, n
<1>8. /\ \A f \in Epoch : f # n => status'[f] = status[f] /\ modelOf'[f] = modelOf[f]
      /\ n \in Epoch => status'[n] = "PENDING" /\ modelOf'[n] = worker[w].updates
  BY <1>1 DEF TypeOK, TablesOK
<1>9. Frontier'
  <2> SUFFICES ASSUME NEW d \in Epoch, NEW f \in Epoch, d < f, status'[f] # "ABSENT"
               PROVE  status'[d] \in {"COMPLETED", "FAILED"}
    BY DEF Frontier
  <2>1. CASE f = n
    <3>1. d = e \/ d < e
      BY <1>3, <1>7, <2>1 DEF Epoch
    <3>2. status[d] \in {"COMPLETED", "FAILED"}
      BY <1>3, <1>4, <3>1 DEF SequenceInv, Frontier
    <3>3. d # n
      BY <1>7, <2>1 DEF Epoch
    <3> QED
      BY <1>8, <3>2, <3>3
  <2>2. CASE f # n
    <3>1. status[d] \in {"COMPLETED", "FAILED"}
      BY <1>8, <2>2 DEF SequenceInv, Frontier
    <3> QED
      BY <1>4, <1>8, <3>1
  <2> QED
    BY <2>1, <2>2
<1>10. ScriptInv'
  <2>1. ASSUME NEW o \in Operators, op[o].pc # "idle"
        PROVE  /\ op[o].epoch \in Epoch /\ op[o].epoch # n
               /\ op[o].pc = "seed" /\ op[o].epoch > 1 => op[o].epoch - 1 # n
    <3>1. op[o].epoch \in Epoch
      BY <2>1, Places
    <3>2. op[o].pc \in {"seed", "lock", "activate"}
      BY <2>1 DEF TypeOK, OpOK, OpType, OpStates, SequenceInv, ScriptInv
    <3>3. CASE op[o].pc = "seed"
      <4>1. /\ status[op[o].epoch] = "ABSENT"
            /\ op[o].epoch > 1 => status[op[o].epoch - 1] = "FAILED"
        BY <3>3 DEF SequenceInv, ScriptInv
      <4>2. op[o].epoch # n
        BY <1>4, <1>7, <4>1
      <4>3. op[o].epoch > 1 => op[o].epoch - 1 \in Epoch
        BY <3>1, BoundsAssumption DEF Epoch
      <4> QED
        BY <1>4, <3>1, <4>1, <4>2, <4>3
    <3>4. CASE op[o].pc \in {"lock", "activate"}
      BY <1>4, <3>1, <3>4 DEF SequenceInv, ScriptInv
    <3> QED
      BY <3>2, <3>3, <3>4
  <2>2. \A d \in Epoch : d > 1 => d - 1 \in Epoch
    BY BoundsAssumption DEF Epoch
  <2> QED
    BY <1>1, <1>8, <2>1, <2>2 DEF SequenceInv, ScriptInv
<1>11. ItemsNameObjects'
  <2>1. worker[w].updates # NoModel
    BY <1>3, SetsAssumption DEF Models, NoModel
  <2> QED
    BY <1>1, <1>4, <1>8, <2>1 DEF SequenceInv, ItemsNameObjects
<1> QED
  BY <1>6, <1>9, <1>10, <1>11 DEF SequenceInv

LEMMA SequenceWorker ==
  ASSUME InSequence, TypeOK, SequenceInv, NEW w \in Workers, WorkerStep(w)
  PROVE  SequenceInv'
<1>1. ~ \E e \in Epoch : ManualRun(w, e)
  BY DEF InSequence, ManualRun, Fault
<1>2. CASE \/ Guard(w) \/ Fetch(w) \/ Load(w) \/ ReleaseLock(w) \/ WorkerCrash(w)
           \/ FailMark(w) /\ status' = status
  <2>1. UNCHANGED <<status, modelOf, object, op, trig>>
    BY <1>2 DEF Guard, Fetch, Load, ReleaseLock, WorkerCrash, FailMark, tableVars, WorkerUnchanged
  <2>2. /\ \A v \in Workers \ {w} : worker'[v] = worker[v]
        /\ worker'[w].pc \notin {"idle", "release", "releaseTwice"} =>
             /\ worker[w].pc \notin {"idle", "release", "releaseTwice", "open"}
             /\ worker'[w].epoch = worker[w].epoch
        /\ worker'[w].pc \notin {"complete", "open"}
    <3> USE DEF TypeOK, WorkerOK, WorkerType, AtWorker, GoTo, IdleWorker
    <3>1. CASE Guard(w) \/ ReleaseLock(w) \/ WorkerCrash(w) \/ FailMark(w)
      BY <3>1 DEF Guard, ReleaseLock, WorkerCrash, FailMark
    <3>2. CASE Fetch(w)
      BY <3>2 DEF Fetch
    <3>3. CASE Load(w)
      BY <3>3 DEF Load
    <3> QED
      BY <1>2, <3>1, <3>2, <3>3
  <2>3. Launching' = Launching
    BY <2>1 DEF Launching
  <2>4. \A v \in Deciding' :
          /\ v \in Deciding /\ worker'[v].epoch = worker[v].epoch
          /\ worker[v].pc = "open" => worker'[v].pc = "open"
          /\ worker'[v].pc \in {"complete", "open"} => worker'[v] = worker[v]
    BY <2>2 DEF Deciding
  <2> QED
    BY <2>1, <2>3, <2>4, SequenceFrame
<1> QED
  BY <1>1, <1>2, SequencePublish, SequenceComplete, SequenceOpen, SequenceFail
  DEF WorkerStep, WorkerProgress

LEMMA SequenceInvariant ==
  ASSUME InSequence
  PROVE  Spec => []SequenceInv
<1>1. TypeOK /\ SequenceInv /\ [Next]_vars => SequenceInv'
  <2> SUFFICES ASSUME TypeOK, SequenceInv, [Next]_vars PROVE SequenceInv'
    OBVIOUS
  <2>1. CASE Next
    BY <2>1, SequenceRecord, SequenceOperator, SequenceTrigger, SequenceWorker DEF Next
  <2>2. CASE UNCHANGED vars
    <3>1. UNCHANGED <<status, modelOf, object, op, trig, worker>>
      BY <2>2 DEF vars
    <3>2. Launching' = Launching /\ Deciding' = Deciding
      BY <3>1 DEF Launching, Deciding
    <3> QED
      BY <3>1, <3>2, SequenceFrame
  <2> QED
    BY <2>1, <2>2
<1> QED
  BY <1>1, InitSequence, TypeCorrect, PTL DEF Spec

\* Daemons never download a model that is not the one the ACTIVE epoch's item names,
\* although the object and the item are put in two steps: in sequence, the object of
\* an epoch is not written again once the epoch has an item.
THEOREM ServedModelHolds ==
  ASSUME InSequence
  PROVE  Spec => []ServedModel
<1>1. SequenceInv => ServedModel
  BY DEF SequenceInv, ItemsNameObjects, ServedModel
<1> QED
  BY <1>1, SequenceInvariant, PTL

----------------------------------------------------------------------------
(* The same environments: what the scripts, the trigger and the worker do  *)
(* together is what RoundProtocol promises, step by step.                  *)

LEMMA OperatorImplements ==
  ASSUME InSequence, TypeOK, SequenceInv, NEW o \in Operators, OperatorStep(o)
  PROVE  [Protocol!Next]_status
<1> DEFINE e == op[o].epoch
<1>1. op[o].pc # "idle" => e \in Epoch
  BY Places
<1>2. CASE SeedItem(o)
  <2>1. op[o].pc = "seed" /\ status' = [status EXCEPT ![e] = "PENDING"]
    BY <1>2 DEF SeedItem, AtOp, SequenceInv, ScriptInv
  <2>2. e \in Epoch /\ status[e] = "ABSENT" /\ (e > 1 => status[e - 1] = "FAILED")
    BY <1>1, <2>1 DEF SequenceInv, ScriptInv
  <2>3. e = 1 \/ e > 1
    BY <2>2 DEF Epoch
  <2>4. Protocol!Announce(e)
    BY <2>1, <2>2, <2>3 DEF Protocol!Announce, Protocol!Over, Protocol!Move
  <2> QED
    BY <2>2, <2>4 DEF Protocol!Next, Protocol!Epoch, Epoch
<1>3. CASE SetActive(o)
  <2>1. op[o].pc = "activate" /\ status' = [status EXCEPT ![e] = "ACTIVE"]
    BY <1>3 DEF SetActive, AtOp
  <2>2. e \in Epoch /\ status[e] = "PENDING"
    BY <1>1, <2>1 DEF SequenceInv, ScriptInv
  <2>3. \A f \in Epoch : status[f] \notin {"ACTIVE", "AGGREGATING"}
    BY <2>2, OneUnfinished DEF SequenceInv
  <2>4. Protocol!Activate(e)
    BY <2>1, <2>2, <2>3 DEF Protocol!Activate, Protocol!Move, Protocol!Open, Protocol!Epoch, Epoch
  <2> QED
    BY <2>2, <2>4 DEF Protocol!Next, Protocol!Epoch, Epoch
<1>4. CASE ~SeedItem(o) /\ ~SetActive(o)
  BY <1>4 DEF OperatorStep, SeedUpload, ReadPending, BootstrapUpload, AcquireLock,
     OperatorCrash, tableVars
<1> QED
  BY <1>2, <1>3, <1>4

LEMMA TriggerImplements ==
  ASSUME TypeOK, NEW i \in Invocations, TriggerStep(i)
  PROVE  [Protocol!Next]_status
<1> DEFINE e == trig[i].epoch
<1>1. CASE Claim(i) /\ status[e] = "ACTIVE"
  <2>1. e \in Epoch /\ status' = [status EXCEPT ![e] = "AGGREGATING"]
    BY <1>1, Places DEF Claim
  <2>2. Protocol!Close(e)
    BY <1>1, <2>1 DEF Protocol!Close, Protocol!Move
  <2> QED
    BY <2>1, <2>2 DEF Protocol!Next, Protocol!Epoch, Epoch
<1>2. CASE ~(Claim(i) /\ status[e] = "ACTIVE")
  BY <1>2 DEF TriggerStep, TriggerProgress, Deliver, Count, Claim, RunTaskError, RunTask,
     RunTaskLostReply, InvocationCrash, tableVars
<1> QED
  BY <1>1, <1>2

LEMMA WorkerImplements ==
  ASSUME InSequence, TypeOK, SequenceInv, NEW w \in Workers, WorkerStep(w)
  PROVE  [Protocol!Next]_status
<1> DEFINE e == worker[w].epoch
<1>1. worker[w].pc # "idle" => e \in Epoch
  BY Places
<1>2. CASE Complete(w)
  <2>1. worker[w].pc = "complete" /\ status' = [status EXCEPT ![e] = "COMPLETED"]
    BY <1>2 DEF Complete, AtWorker
  <2>2. e \in Epoch /\ status[e] = "AGGREGATING"
    BY <1>1, <2>1 DEF SequenceInv, WorkInv, Deciding
  <2>3. Protocol!Complete(e)
    BY <2>1, <2>2 DEF Protocol!Complete, Protocol!Move
  <2> QED
    BY <2>2, <2>3 DEF Protocol!Next, Protocol!Epoch, Epoch
<1>3. CASE FailMark(w) /\ status' # status
  <2>1. worker[w].pc \in {"fail", "failAgain"} /\ status' = [status EXCEPT ![e] = "FAILED"]
    BY <1>3 DEF FailMark, AtWorker
  <2>2. e \in Epoch /\ status[e] = "AGGREGATING"
    BY <1>1, <2>1 DEF SequenceInv, WorkInv, Deciding
  <2>3. Protocol!Fail(e)
    BY <2>1, <2>2 DEF Protocol!Fail, Protocol!Move
  <2> QED
    BY <2>2, <2>3 DEF Protocol!Next, Protocol!Epoch, Epoch
<1>4. CASE OpenNext(w)
  <2>1. worker[w].pc = "open" /\ status' = [status EXCEPT ![e + 1] = "PENDING"]
    BY <1>4 DEF OpenNext, AtWorker
  <2>2. /\ e \in Epoch /\ status[e] = "COMPLETED"
        /\ e + 1 \in Epoch => status[e + 1] = "ABSENT"
    BY <1>1, <2>1 DEF SequenceInv, WorkInv, Deciding
  <2>3. CASE e + 1 \in Epoch
    <3>1. e \in Int /\ (e + 1) - 1 = e
      BY <2>2 DEF Epoch
    <3>2. Protocol!Announce(e + 1)
      BY <2>1, <2>2, <2>3, <3>1 DEF Protocol!Announce, Protocol!Over, Protocol!Move
    <3> QED
      BY <2>3, <3>2 DEF Protocol!Next, Protocol!Epoch, Epoch
  <2>4. CASE e + 1 \notin Epoch
    BY <2>1, <2>4 DEF TypeOK, TablesOK
  <2> QED
    BY <2>3, <2>4
<1>5. CASE ~Complete(w) /\ ~(FailMark(w) /\ status' # status) /\ ~OpenNext(w)
  BY <1>5 DEF WorkerStep, WorkerProgress, Guard, Fetch, Load, PublishModel, FailMark,
     ReleaseLock, WorkerCrash, ManualRun, tableVars
<1> QED
  BY <1>2, <1>3, <1>4, <1>5

\* The epochs of a model come one after the other, one is open at a time and each
\* goes through its phases once: EpochRound implements RoundProtocol, for any number
\* of invocations and workers, with crashes, failed launches, repeated deliveries,
\* stale reads and the double release of the lock.
THEOREM ProtocolImplemented ==
  ASSUME InSequence
  PROVE  Spec => ImplementsProtocol
<1>1. Init => Protocol!Init
  BY DEF Init, Protocol!Init, Protocol!Epoch, Epoch
<1>2. TypeOK /\ SequenceInv /\ [Next]_vars => [Protocol!Next]_status
  <2> SUFFICES ASSUME TypeOK, SequenceInv, [Next]_vars PROVE [Protocol!Next]_status
    OBVIOUS
  <2>1. CASE \E s \in Submissions, e \in Epoch : RecordSubmission(s, e)
    BY <2>1 DEF RecordSubmission, tableVars
  <2>2. CASE UNCHANGED vars
    BY <2>2 DEF vars
  <2> QED
    BY <2>1, <2>2, OperatorImplements, TriggerImplements, WorkerImplements DEF Next
<1> QED
  BY <1>1, <1>2, TypeCorrect, SequenceInvariant, PTL DEF Spec, ImplementsProtocol, Protocol!Spec

----------------------------------------------------------------------------
(* What RoundProtocol promises, and EpochRound with it.                    *)

\* A step moves one epoch, and none that is over.
LEMMA ProtocolMoves ==
  ASSUME Protocol!TypeOK, Protocol!Next
  PROVE  /\ Protocol!TypeOK'
         /\ \A e \in Epoch : Protocol!Over(e) => status'[e] = status[e]
BY DEF Protocol!TypeOK, Protocol!Phases, Protocol!Next, Protocol!Over, Protocol!Announce,
   Protocol!Activate, Protocol!Close, Protocol!Complete, Protocol!Fail, Protocol!Move,
   Protocol!Epoch, Epoch

LEMMA ProtocolTypes == Protocol!Spec => []Protocol!TypeOK
<1>1. Protocol!Init => Protocol!TypeOK
  BY DEF Protocol!Init, Protocol!TypeOK, Protocol!Phases
<1>2. Protocol!TypeOK /\ [Protocol!Next]_status => Protocol!TypeOK'
  BY ProtocolMoves DEF Protocol!TypeOK
<1> QED
  BY <1>1, <1>2, PTL DEF Protocol!Spec

LEMMA ProtocolInOrder == Protocol!Spec => []Protocol!InOrder
<1> USE DEF Protocol!Epoch, Protocol!Over
<1>1. Protocol!Init => Protocol!InOrder
  BY DEF Protocol!Init, Protocol!InOrder
<1>2. Protocol!TypeOK /\ Protocol!InOrder /\ [Protocol!Next]_status => Protocol!InOrder'
  <2> SUFFICES ASSUME Protocol!TypeOK, Protocol!InOrder, Protocol!Next PROVE Protocol!InOrder'
    BY DEF Protocol!InOrder
  <2>1. PICK e \in Protocol!Epoch :
          \/ Protocol!Announce(e) \/ Protocol!Activate(e) \/ Protocol!Close(e)
          \/ Protocol!Complete(e) \/ Protocol!Fail(e)
    BY DEF Protocol!Next
  <2>2. SUFFICES ASSUME NEW d \in 1..MaxEpoch, NEW f \in 1..MaxEpoch, d < f,
                        status'[f] # "ABSENT"
                 PROVE  status'[d] \in {"COMPLETED", "FAILED"}
    BY DEF Protocol!InOrder
  <2>3. \A g \in 1..MaxEpoch : status[g] \in {"COMPLETED", "FAILED"} => status'[g] = status[g]
    BY ProtocolMoves DEF Epoch
  <2>4. CASE status[f] # "ABSENT"
    BY <2>2, <2>3, <2>4 DEF Protocol!InOrder
  <2>5. CASE status[f] = "ABSENT"
    <3>1. f = e /\ Protocol!Announce(e)
      BY <2>1, <2>2, <2>5 DEF Protocol!TypeOK, Protocol!Announce, Protocol!Activate,
         Protocol!Close, Protocol!Complete, Protocol!Fail, Protocol!Move
    <3>2. f - 1 \in 1..MaxEpoch /\ (d = f - 1 \/ d < f - 1) /\ f # 1
      BY <2>2, BoundsAssumption
    <3>3. status[f - 1] \in {"COMPLETED", "FAILED"}
      BY <3>1, <3>2 DEF Protocol!Announce
    <3>4. status[d] \in {"COMPLETED", "FAILED"}
      BY <3>2, <3>3 DEF Protocol!InOrder
    <3> QED
      BY <2>3, <3>4
  <2> QED
    BY <2>4, <2>5
<1> QED
  BY <1>1, <1>2, ProtocolTypes, PTL DEF Protocol!Spec

LEMMA ProtocolOneOpen ==
  ASSUME Protocol!InOrder
  PROVE  Protocol!OneOpen
<1> SUFFICES ASSUME NEW e \in 1..MaxEpoch, NEW f \in 1..MaxEpoch,
                    Protocol!Open(e), Protocol!Open(f)
             PROVE  e = f
  BY DEF Protocol!OneOpen, Protocol!Epoch
<1>1. ~(e < f) /\ ~(f < e)
  BY DEF Protocol!InOrder, Protocol!Open, Protocol!Over, Protocol!Epoch
<1> QED
  BY <1>1

\* The rounds of a model come in order and one is open at a time: what RoundProtocol
\* promises to participants, the coordinator keeps.
THEOREM RoundsInOrder ==
  ASSUME InSequence
  PROVE  Spec => [](Protocol!InOrder /\ Protocol!OneOpen)
<1>1. Protocol!InOrder => Protocol!OneOpen
  BY ProtocolOneOpen
<1> QED
  BY <1>1, ProtocolImplemented, ProtocolInOrder, PTL DEF ImplementsProtocol

\* The outcome of a round is final: no script, late invocation or second worker opens a
\* round that is over or changes how it ended.
THEOREM RoundOutcomesFinal ==
  ASSUME InSequence
  PROVE  Spec => Protocol!OutcomesFinal
<1>1. Protocol!TypeOK /\ [Protocol!Next]_status =>
        [\A e \in Protocol!Epoch : Protocol!Over(e) => status'[e] = status[e]]_status
  BY ProtocolMoves DEF Protocol!Epoch, Epoch
<1> QED
  BY <1>1, ProtocolImplemented, ProtocolTypes, PTL DEF ImplementsProtocol, Protocol!Spec, Protocol!OutcomesFinal

\* In sequence a second epoch does not become ACTIVE even when the lock fails to keep it
\* from it: after the double release of aggregator.py the next epoch is not there yet.
THEOREM SingleActiveInSequence ==
  ASSUME InSequence
  PROVE  Spec => []SingleActive
<1>1. Protocol!OneOpen => SingleActive
  BY DEF Protocol!OneOpen, Protocol!Open, Protocol!Epoch, SingleActive, Epoch
<1> QED
  BY <1>1, RoundsInOrder, PTL

----------------------------------------------------------------------------
(* What is lost only with a fault: a round and the lock.                   *)

\* Where reads do not lag, a worker that asks sees the quorum that is recorded.
LEMMA QuorumSeen ==
  ASSUME Undisturbed, NEW e, HasQuorum(e), NEW seen \in IndexReads(e)
  PROVE  seen # {} /\ ~(Cardinality(seen) < Required)
<1>1. seen = Recorded(e)
  BY DEF Undisturbed, IndexReads
<1>2. ~(Cardinality(seen) < Required) /\ Cardinality(seen) >= 2
  BY <1>1, RecordedFinite, BoundsAssumption DEF HasQuorum, Quorum, Required
<1> QED
  BY <1>2, FS_EmptySet

\* Faults are only counted up.
LEMMA NoFaultYet ==
  ASSUME TypeOK, [Next]_vars, faults' = 0
  PROVE  faults = 0 /\ \A kind : ~Fault(kind)
<1>1. faults \in Nat
  BY BoundsAssumption DEF TypeOK, TablesOK
<1>2. \A kind : ~Fault(kind)
  BY <1>1 DEF Fault
<1>3. UNCHANGED faults
  <2>1. CASE Next
    BY <1>2, <2>1 DEF Next, RecordSubmission, OperatorStep, SeedUpload, ReadPending,
       BootstrapUpload, SeedItem, AcquireLock, SetActive, OperatorCrash, TriggerStep,
       TriggerProgress, Deliver, Count, Claim, RunTaskError, RunTask, RunTaskLostReply,
       InvocationCrash, WorkerStep, WorkerProgress, Guard, Fetch, Load, PublishModel,
       Complete, OpenNext, FailMark, ReleaseLock, WorkerCrash, ManualRun
  <2> QED
    BY <2>1 DEF vars
<1> QED
  BY <1>2, <1>3

\* What the scripts put is neither AGGREGATING nor COMPLETED, and never taken away.
LEMMA HeldOperator ==
  ASSUME TypeOK, RoundHeld, faults = 0, NEW o \in Operators, OperatorStep(o)
  PROVE  RoundHeld'
<1>1. UNCHANGED <<trig, worker>>
  BY DEF OperatorStep, SeedUpload, ReadPending, BootstrapUpload, SeedItem, AcquireLock,
     SetActive, OperatorCrash, OpUnchanged
<1>2. \A e \in Epoch : /\ status'[e] \in {"AGGREGATING", "COMPLETED"} => status'[e] = status[e]
                       /\ status[e] # "ABSENT" => status'[e] # "ABSENT"
  BY DEF OperatorStep, SeedUpload, ReadPending, BootstrapUpload, SeedItem, AcquireLock,
     SetActive, OperatorCrash, tableVars, TypeOK, TablesOK
<1>3. \A e \in 1..MaxEpoch - 1 : e + 1 \in Epoch
  BY BoundsAssumption DEF Epoch
<1>4. \A e \in Epoch : e < MaxEpoch => e \in 1..MaxEpoch - 1
  BY BoundsAssumption DEF Epoch
<1> QED
  BY <1>1, <1>2, <1>3, <1>4 DEF RoundHeld, Aggregated, Launching, Deciding

\* The claim of an epoch, and the task that the invocation starts.
LEMMA HeldTrigger ==
  ASSUME Undisturbed, TypeOK, RoundHeld, faults = 0, \A kind : ~Fault(kind),
         NEW i \in Invocations, TriggerStep(i)
  PROVE  RoundHeld'
<1>1. \A e \in Epoch : e < MaxEpoch => e + 1 \in Epoch
  BY BoundsAssumption DEF Epoch
<1>2. CASE Claim(i) /\ status[trig[i].epoch] = "ACTIVE"
  <2>1. /\ trig[i].pc = "claim" /\ UNCHANGED worker
        /\ trig' = [trig EXCEPT ![i] = [trig[i] EXCEPT !.pc = "launch"]]
        /\ status' = [status EXCEPT ![trig[i].epoch] = "AGGREGATING"]
    BY <1>2 DEF Claim, AtTrigger
  <2>2. /\ trig'[i].pc = "launch" /\ trig'[i].epoch = trig[i].epoch
        /\ \A j \in Invocations \ {i} : trig'[j] = trig[j]
    BY <2>1 DEF TypeOK, TriggerOK, TriggerType
  <2>3. Launching \subseteq Launching' /\ i \in Launching' /\ Deciding' = Deciding
    BY <2>1, <2>2 DEF Launching, Deciding
  <2>4. /\ status'[trig[i].epoch] = "AGGREGATING" \/ trig[i].epoch \notin Epoch
        /\ \A e \in Epoch : e # trig[i].epoch => status'[e] = status[e]
    BY <2>1 DEF TypeOK, TablesOK
  <2>5. \A j \in Launching : trig'[j].epoch = trig[j].epoch
    BY <2>2 DEF Launching
  <2>6. ASSUME NEW e \in Epoch, status'[e] = "AGGREGATING" PROVE Aggregated(e)'
    <3>1. CASE e = trig[i].epoch
      BY <2>2, <2>3, <3>1 DEF Aggregated
    <3>2. CASE e # trig[i].epoch
      <4>1. Aggregated(e)
        BY <2>4, <2>6, <3>2 DEF RoundHeld
      <4> QED
        BY <2>1, <2>3, <2>5, <4>1 DEF Aggregated
    <3> QED
      BY <3>1, <3>2
  <2>7. ASSUME NEW e \in Epoch, status'[e] = "COMPLETED", e < MaxEpoch
        PROVE  \/ status'[e + 1] # "ABSENT"
               \/ \E w \in Workers : worker'[w].pc = "open" /\ worker'[w].epoch = e
    <3>1. status[e] = "COMPLETED"
      BY <2>4, <2>7
    <3> QED
      BY <1>1, <2>1, <2>4, <2>7, <3>1 DEF RoundHeld
  <2> QED
    BY <2>6, <2>7 DEF RoundHeld
<1>3. CASE \E w \in Workers : RunTask(i, w)
  <2>1. PICK w \in Workers : RunTask(i, w)
    BY <1>3
  <2>2. /\ trig[i].pc = "launch" /\ trig' = [trig EXCEPT ![i] = IdleTrigger]
        /\ worker[w].pc = "idle" /\ UNCHANGED status
        /\ worker' = [worker EXCEPT ![w] = [pc |-> "guard", epoch |-> trig[i].epoch, updates |-> {}]]
    BY <2>1 DEF RunTask, AtTrigger, StartTask, tableVars
  <2>3. /\ worker'[w].pc = "guard" /\ worker'[w].epoch = trig[i].epoch
        /\ \A v \in Workers \ {w} : worker'[v] = worker[v]
        /\ \A j \in Invocations \ {i} : trig'[j] = trig[j]
    BY <2>2 DEF TypeOK, TriggerOK, WorkerOK
  <2>4. Launching \subseteq Launching' \cup {i} /\ Deciding \subseteq Deciding' \ {w} /\ w \in Deciding'
    BY <2>2, <2>3 DEF Launching, Deciding
  <2>5. ASSUME NEW e \in Epoch, Aggregated(e) PROVE Aggregated(e)'
    <3>1. CASE e = trig[i].epoch
      BY <2>3, <2>4, <3>1 DEF Aggregated
    <3>2. CASE e # trig[i].epoch
      <4>1. \A j \in Launching : trig[j].epoch = e => j \in Launching' /\ trig'[j].epoch = e
        BY <2>3, <2>4, <3>2 DEF Launching
      <4>2. \A v \in Deciding : v \in Deciding' /\ worker'[v] = worker[v]
        BY <2>3, <2>4 DEF Deciding
      <4> QED
        BY <2>5, <4>1, <4>2 DEF Aggregated
    <3> QED
      BY <3>1, <3>2
  <2>6. \A v \in Workers : worker[v].pc = "open" => worker'[v] = worker[v]
    BY <2>2, <2>3
  <2> QED
    BY <2>2, <2>5, <2>6 DEF RoundHeld
<1>4. CASE ~(Claim(i) /\ status[trig[i].epoch] = "ACTIVE") /\ ~(\E w \in Workers : RunTask(i, w))
  <2>1. UNCHANGED <<status, worker>> /\ (\A j \in Invocations \ {i} : trig'[j] = trig[j]) /\ trig[i].pc # "launch"
    BY <1>4 DEF TriggerStep, TriggerProgress, Deliver, Count, Claim, RunTaskError,
       RunTaskLostReply, InvocationCrash, AtTrigger, tableVars, Undisturbed, TypeOK, TriggerOK
  <2>2. \A j \in Launching : j \in Launching' /\ trig'[j].epoch = trig[j].epoch
    BY <2>1 DEF Launching
  <2>3. \A e \in Epoch : Aggregated(e) => Aggregated(e)'
    BY <2>1, <2>2 DEF Aggregated, Deciding
  <2> QED
    BY <2>1, <2>3 DEF RoundHeld
<1> QED
  BY <1>2, <1>3, <1>4

\* Where nothing fails, a worker goes on to the step that decides its epoch.
LEMMA GoesOn ==
  ASSUME Undisturbed, TypeOK, QuorumInv, \A kind : ~Fault(kind),
         NEW w \in Workers, WorkerStep(w)
  PROVE  LET at == worker[w].pc
             e == worker[w].epoch
         IN /\ \A v \in Workers \ {w} : worker'[v] = worker[v]
            /\ at \in WorkerStates \ {"idle"} /\ e \in Epoch
            /\ \/ at \in {"open", "release", "releaseTwice"} \/ status[e] # "AGGREGATING"
               \/ status'[e] \in {"COMPLETED", "FAILED"}
               \/ /\ worker'[w].pc \notin {"idle", "release", "releaseTwice", "open"}
                  /\ worker'[w].epoch = e
            /\ at = "open" => status' = [status EXCEPT ![e + 1] = "PENDING"]
            /\ status' # status /\ at # "open" =>
                 \/ /\ status' = [status EXCEPT ![e] = "COMPLETED"]
                    /\ worker'[w].pc = "open" /\ worker'[w].epoch = e
                 \/ status' = [status EXCEPT ![e] = "FAILED"]
<1> USE DEF TypeOK, WorkerOK, WorkerType, TablesOK, AtWorker, GoTo, IdleWorker, WorkerUnchanged,
        tableVars, WorkerStates
<1>1. /\ worker[w].pc # "idle" => worker[w].epoch \in Epoch
      /\ \A e \in Epoch : ~ManualRun(w, e)
      /\ ~WorkerCrash(w)
  BY Places DEF ManualRun, WorkerCrash
<1>2. CASE Guard(w)
  BY <1>1, <1>2 DEF Guard
<1>3. CASE Fetch(w)
  <2>1. PICK seen \in IndexReads(worker[w].epoch) :
          AtWorker(w, "fetch",
            CASE seen = {} -> GoTo(w, "fail")
              [] seen # {} /\ Cardinality(seen) < Required -> IdleWorker
              [] OTHER -> [GoTo(w, "load") EXCEPT !.updates = seen])
    BY <1>3 DEF Fetch
  <2>2. worker[w].pc = "fetch" /\ worker[w].epoch \in Epoch /\ UNCHANGED status
    BY <1>1, <1>3, <2>1 DEF Fetch
  <2>3. CASE status[worker[w].epoch] = "AGGREGATING"
    <3>1. HasQuorum(worker[w].epoch)
      BY <2>2, <2>3 DEF QuorumInv, QuorumBeforeAggregation
    <3>2. seen # {} /\ ~(Cardinality(seen) < Required)
      BY <3>1, QuorumSeen
    <3>3. worker' = [worker EXCEPT ![w] = [GoTo(w, "load") EXCEPT !.updates = seen]]
      BY <2>1, <3>2
    <3> QED
      BY <2>2, <3>3
  <2>4. CASE status[worker[w].epoch] # "AGGREGATING"
    BY <2>1, <2>2, <2>4
  <2> QED
    BY <2>3, <2>4
<1>4. CASE Load(w)
  BY <1>1, <1>4 DEF Load
<1>5. CASE PublishModel(w)
  BY <1>1, <1>5 DEF PublishModel
<1>6. CASE Complete(w)
  BY <1>1, <1>6 DEF Complete
<1>7. CASE OpenNext(w)
  BY <1>1, <1>7 DEF OpenNext
<1>8. CASE FailMark(w)
  BY <1>1, <1>8 DEF FailMark
<1>9. CASE ReleaseLock(w)
  BY <1>1, <1>9 DEF ReleaseLock
<1> QED
  BY <1>1, <1>2, <1>3, <1>4, <1>5, <1>6, <1>7, <1>8, <1>9 DEF WorkerStep, WorkerProgress

LEMMA HeldWorker ==
  ASSUME Undisturbed, TypeOK, QuorumInv, RoundHeld, faults = 0, \A kind : ~Fault(kind),
         NEW w \in Workers, WorkerStep(w)
  PROVE  RoundHeld'
<1> DEFINE at == worker[w].pc
           e == worker[w].epoch
<1>1. /\ \A v \in Workers \ {w} : worker'[v] = worker[v]
      /\ at \in WorkerStates \ {"idle"} /\ e \in Epoch
      /\ \/ at \in {"open", "release", "releaseTwice"} \/ status[e] # "AGGREGATING"
         \/ status'[e] \in {"COMPLETED", "FAILED"}
         \/ /\ worker'[w].pc \notin {"idle", "release", "releaseTwice", "open"}
            /\ worker'[w].epoch = e
      /\ at = "open" => status' = [status EXCEPT ![e + 1] = "PENDING"]
      /\ status' # status /\ at # "open" =>
           \/ /\ status' = [status EXCEPT ![e] = "COMPLETED"]
              /\ worker'[w].pc = "open" /\ worker'[w].epoch = e
           \/ status' = [status EXCEPT ![e] = "FAILED"]
  BY GoesOn
<1>2. UNCHANGED trig
  BY DEF WorkerStep, WorkerProgress, Guard, Fetch, Load, PublishModel, Complete, OpenNext,
     FailMark, ReleaseLock, WorkerCrash, ManualRun, WorkerUnchanged
<1>3. \A f \in Epoch : f < MaxEpoch => f + 1 \in Epoch
  BY BoundsAssumption DEF Epoch
<1> HIDE DEF at, e
<1>4. ASSUME NEW f \in Epoch, status'[f] = "AGGREGATING" PROVE Aggregated(f)'
  <2>1. status[f] = "AGGREGATING"
    BY <1>1, <1>4 DEF TypeOK, TablesOK
  <2>2. CASE f = e
    BY <1>1, <1>2, <1>4, <2>1, <2>2 DEF RoundHeld, Aggregated, Launching, Deciding, at
  <2>3. CASE f # e
    <3>1. Aggregated(f)
      BY <2>1 DEF RoundHeld
    <3> QED
      BY <1>1, <1>2, <2>3, <3>1 DEF Aggregated, Launching, Deciding, e
  <2> QED
    BY <2>2, <2>3
<1>5. ASSUME NEW f \in Epoch, status'[f] = "COMPLETED", f < MaxEpoch
      PROVE  \/ status'[f + 1] # "ABSENT"
             \/ \E v \in Workers : worker'[v].pc = "open" /\ worker'[v].epoch = f
  <2>1. CASE status[f] # "COMPLETED"
    BY <1>1, <1>5, <2>1 DEF TypeOK, TablesOK
  <2>2. CASE status[f] = "COMPLETED"
    <3>1. \A g \in Epoch : status[g] # "ABSENT" => status'[g] # "ABSENT"
      BY <1>1 DEF TypeOK, TablesOK
    <3>2. CASE status[f + 1] # "ABSENT"
      BY <1>3, <1>5, <3>1, <3>2
    <3>3. CASE \E v \in Workers : worker[v].pc = "open" /\ worker[v].epoch = f
      <4>1. PICK v \in Workers : worker[v].pc = "open" /\ worker[v].epoch = f
        BY <3>3
      <4>2. CASE v = w
        BY <1>1, <1>3, <1>5, <4>1, <4>2 DEF TypeOK, TablesOK, at, e
      <4>3. CASE v # w
        BY <1>1, <4>1, <4>3
      <4> QED
        BY <4>2, <4>3
    <3> QED
      BY <1>5, <2>2, <3>2, <3>3 DEF RoundHeld
  <2> QED
    BY <2>1, <2>2
<1> QED
  BY <1>4, <1>5 DEF RoundHeld

\* A round that was begun is not dropped, whoever seeds and activates epochs and however
\* invocations, workers and scripts interleave, unless a process dies, a reply is lost,
\* a task cannot be started or reads lag.
THEOREM RoundHeldAlways ==
  ASSUME Undisturbed
  PROVE  Spec => []RoundHeld
<1>1. Init => RoundHeld
  BY DEF Init, RoundHeld
<1>2. TypeOK /\ QuorumInv /\ RoundHeld /\ [Next]_vars => RoundHeld'
  <2> SUFFICES ASSUME TypeOK, QuorumInv, RoundHeld, [Next]_vars, faults' = 0 PROVE RoundHeld'
    BY DEF RoundHeld
  <2>1. faults = 0 /\ \A kind : ~Fault(kind)
    BY NoFaultYet
  <2>2. CASE \E s \in Submissions, e \in Epoch : RecordSubmission(s, e)
    <3>1. UNCHANGED <<status, trig, worker, faults>>
      BY <2>2 DEF RecordSubmission, tableVars
    <3> QED
      BY <3>1 DEF RoundHeld, Aggregated, Launching, Deciding
  <2>3. CASE UNCHANGED vars
    BY <2>3 DEF vars, RoundHeld, Aggregated, Launching, Deciding
  <2> QED
    BY <2>1, <2>2, <2>3, HeldOperator, HeldTrigger, HeldWorker DEF Next
<1> QED
  BY <1>1, <1>2, TypeCorrect, QuorumInvariant, PTL DEF Spec

\* The script that acquires the lock, and the epoch that it makes ACTIVE.
LEMMA LeakOperator ==
  ASSUME InSequence, TypeOK, SequenceInv, LockNotLeaked, faults = 0, \A kind : ~Fault(kind),
         NEW o \in Operators, OperatorStep(o), lock' # Free
  PROVE  LockNotLeaked'
<1>1. UNCHANGED <<trig, worker>> /\ InFlight' = InFlight
  BY DEF OperatorStep, SeedUpload, ReadPending, BootstrapUpload, SeedItem, AcquireLock,
     SetActive, OperatorCrash, OpUnchanged, InFlight, Launching, Busy
<1>2. op[o].pc # "idle" => op[o].epoch \in Epoch
  BY Places
<1>3. ~BootstrapUpload(o) /\ ~OperatorCrash(o)
  BY DEF BootstrapUpload, OperatorCrash
<1>4. CASE SetActive(o)
  <2>1. op[o].epoch \in Epoch /\ status' = [status EXCEPT ![op[o].epoch] = "ACTIVE"]
    BY <1>2, <1>4 DEF SetActive, AtOp
  <2> QED
    BY <2>1 DEF LockNotLeaked, TypeOK, TablesOK
<1>5. CASE AcquireLock(o) /\ lock = Free
  <2>1. op' = [op EXCEPT ![o] = [pc |-> "activate", epoch |-> op[o].epoch]]
    BY <1>5 DEF AcquireLock, AtOp
  <2>2. o \in Activating'
    BY <2>1 DEF Activating, TypeOK, OpOK
  <2> QED
    BY <2>2 DEF LockNotLeaked
<1>6. CASE ~SetActive(o) /\ ~(AcquireLock(o) /\ lock = Free)
  <2>1. UNCHANGED lock /\ op[o].pc # "activate" /\ \A p \in Operators \ {o} : op'[p] = op[p]
    BY <1>3, <1>6 DEF OperatorStep, SeedUpload, ReadPending, SeedItem, AcquireLock, AtOp,
       tableVars, TypeOK, OpOK
  <2>2. \A p \in Activating : p \in Activating'
    BY <2>1 DEF Activating
  <2>3. \A e \in Epoch : status[e] = "ACTIVE" => status'[e] = "ACTIVE"
    <3>1. CASE SeedItem(o)
      <4>1. op[o].pc = "seed" /\ status' = [status EXCEPT ![op[o].epoch] = "PENDING"]
        BY <3>1 DEF SeedItem, AtOp, SequenceInv, ScriptInv
      <4>2. status[op[o].epoch] = "ABSENT"
        BY <4>1 DEF SequenceInv, ScriptInv
      <4> QED
        BY <4>1, <4>2 DEF TypeOK, TablesOK
    <3>2. CASE ~SeedItem(o)
      BY <1>3, <1>6, <3>2 DEF OperatorStep, SeedUpload, ReadPending, AcquireLock, tableVars
    <3> QED
      BY <3>1, <3>2
  <2> QED
    BY <1>1, <2>1, <2>2, <2>3 DEF LockNotLeaked
<1> QED
  BY <1>4, <1>5, <1>6

\* The invocation that claims the epoch, and the worker that it starts.
LEMMA LeakTrigger ==
  ASSUME Undisturbed, TypeOK, LockNotLeaked, faults = 0, \A kind : ~Fault(kind),
         NEW i \in Invocations, TriggerStep(i)
  PROVE  LockNotLeaked'
<1>1. UNCHANGED <<lock, op>> /\ Activating' = Activating
  BY DEF TriggerStep, TriggerProgress, Deliver, Count, Claim, RunTaskError, RunTask,
     RunTaskLostReply, InvocationCrash, tableVars, Activating
<1>2. CASE Claim(i) /\ status[trig[i].epoch] = "ACTIVE"
  <2>1. i \in Launching'
    BY <1>2 DEF Claim, AtTrigger, Launching, TypeOK, TriggerOK, TriggerType
  <2> QED
    BY <2>1 DEF LockNotLeaked, InFlight
<1>3. CASE \E w \in Workers : RunTask(i, w)
  <2>1. PICK w \in Workers : StartTask(w, trig[i].epoch)
    BY <1>3 DEF RunTask
  <2>2. w \in Busy'
    BY <2>1 DEF StartTask, Busy, TypeOK, WorkerOK
  <2> QED
    BY <2>2 DEF LockNotLeaked, InFlight
<1>4. CASE ~(Claim(i) /\ status[trig[i].epoch] = "ACTIVE") /\ ~(\E w \in Workers : RunTask(i, w))
  <2>1. /\ UNCHANGED <<status, worker>> /\ trig[i].pc # "launch"
        /\ \A j \in Invocations \ {i} : trig'[j] = trig[j]
    BY <1>4 DEF TriggerStep, TriggerProgress, Deliver, Count, Claim, RunTaskError,
       RunTaskLostReply, InvocationCrash, AtTrigger, tableVars, Undisturbed, TypeOK, TriggerOK
  <2>2. InFlight \subseteq InFlight'
    BY <2>1 DEF InFlight, Launching, Busy
  <2> QED
    BY <1>1, <2>1, <2>2 DEF LockNotLeaked
<1> QED
  BY <1>2, <1>3, <1>4

\* A worker ends only by deleting the lock.
LEMMA LeakWorker ==
  ASSUME Undisturbed, TypeOK, SequenceInv, QuorumInv, LockNotLeaked, faults = 0,
         \A kind : ~Fault(kind), NEW w \in Workers, WorkerStep(w), lock' # Free
  PROVE  LockNotLeaked'
<1>1. worker[w].pc \in WorkerStates \ {"idle"} /\ worker[w].epoch \in Epoch
  BY GoesOn
<1>2. worker[w].pc \notin {"release", "releaseTwice"}
  BY <1>1 DEF WorkerStep, WorkerProgress, Guard, Fetch, Load, PublishModel, Complete, OpenNext,
     FailMark, ReleaseLock, WorkerCrash, ManualRun, StartTask, AtWorker, Fault
<1>3. w \in Deciding
  BY <1>1, <1>2 DEF Deciding
<1>4. CASE worker[w].pc = "open"
  <2>1. OpenNext(w)
    BY <1>4 DEF WorkerStep, WorkerProgress, Guard, Fetch, Load, PublishModel, Complete,
       FailMark, ReleaseLock, WorkerCrash, ManualRun, StartTask, AtWorker
  <2>2. worker'[w].pc = "release"
    BY <2>1 DEF OpenNext, AtWorker, GoTo, TypeOK, WorkerOK, WorkerType
  <2>3. w \in Busy'
    BY <2>2 DEF Busy
  <2> QED
    BY <2>3 DEF LockNotLeaked, InFlight
<1>5. CASE worker[w].pc # "open"
  <2>1. status[worker[w].epoch] = "AGGREGATING"
    BY <1>3, <1>5 DEF SequenceInv, WorkInv
  <2>2. CASE FailMark(w)
    BY <2>2 DEF FailMark, AtWorker, GoTo, TypeOK, WorkerOK, WorkerType, LockNotLeaked, InFlight, Busy
  <2>3. CASE ~FailMark(w)
    <3>1. status'[worker[w].epoch] # "FAILED"
      BY <1>1, <2>1, <2>3 DEF WorkerStep, WorkerProgress, Guard, Fetch, Load, PublishModel,
         Complete, OpenNext, ReleaseLock, WorkerCrash, ManualRun, tableVars, TypeOK, TablesOK
    <3>2. worker'[w].pc # "idle"
      BY <1>2, <1>5, <2>1, <3>1, GoesOn DEF TypeOK, TablesOK
    <3>3. w \in Busy'
      BY <3>2 DEF Busy
    <3> QED
      BY <3>3 DEF LockNotLeaked, InFlight
  <2> QED
    BY <2>2, <2>3
<1> QED
  BY <1>4, <1>5

\* The lock of an epoch does not stay behind the epoch: nothing but the worker deletes
\* it, and where one operator seeds every epoch once, and nothing fails, whatever holds
\* it hands it on to the worker that does.
THEOREM LockNotLeakedHolds ==
  ASSUME InSequence, Undisturbed
  PROVE  Spec => []LockNotLeaked
<1>1. Init => LockNotLeaked
  BY DEF Init, LockNotLeaked
<1>2. TypeOK /\ SequenceInv /\ QuorumInv /\ LockNotLeaked /\ [Next]_vars => LockNotLeaked'
  <2> SUFFICES ASSUME TypeOK, SequenceInv, QuorumInv, LockNotLeaked, [Next]_vars,
                      faults' = 0, lock' # Free
               PROVE  LockNotLeaked'
    BY DEF LockNotLeaked
  <2>1. faults = 0 /\ \A kind : ~Fault(kind)
    BY NoFaultYet
  <2>2. CASE UNCHANGED <<status, lock, op, trig, worker, faults>>
    BY <2>2 DEF LockNotLeaked, Activating, InFlight, Launching, Busy
  <2>3. CASE \E s \in Submissions, e \in Epoch : RecordSubmission(s, e)
    BY <2>2, <2>3 DEF RecordSubmission, tableVars
  <2>4. CASE UNCHANGED vars
    BY <2>2, <2>4 DEF vars
  <2> QED
    BY <2>1, <2>3, <2>4, LeakOperator, LeakTrigger, LeakWorker DEF Next
<1> QED
  BY <1>1, <1>2, TypeCorrect, SequenceInvariant, QuorumInvariant, PTL DEF Spec

----------------------------------------------------------------------------
(* No trigger is lost, where what is recorded for an epoch is seen.        *)

\* An epoch without submissions has no quorum.
LEMMA NoQuorumOfNone ==
  ASSUME NEW e, Recorded(e) = {}
  PROVE  ~HasQuorum(e)
BY FS_EmptySet DEF HasQuorum, Quorum

\* Steps that leave the stream and the invocations alone, and in which an epoch that is
\* not closed changes its status only while nothing is recorded for it.
LEMMA DeliveryFrame ==
  ASSUME TypeOK, DeliveryInv, UNCHANGED <<subEpoch, stream, tries, trig>>,
         faults' \in Nat, faults <= faults',
         \A e \in Epoch : \/ status'[e] = status[e]
                         \/ Recorded(e) = {}
                         \/ status'[e] \notin {"ABSENT", "PENDING", "ACTIVE"}
  PROVE  DeliveryInv'
<1>1. MaxRetryAttempts \in Nat /\ faults \in Nat /\ \A s \in Submissions : tries[s] \in Nat
  BY BoundsAssumption DEF TypeOK, TablesOK, StreamOK
<1>2. \A e : Recorded(e)' = Recorded(e)
  BY DEF Recorded
<1>3. \A e : (HasQuorum(e)' <=> HasQuorum(e)) /\ (Pending(e) => Pending(e)')
  BY <1>2, QuorumFrame DEF Pending
<1>4. QuorumNotForgotten'
  <2> SUFFICES ASSUME NEW e \in Epoch, status'[e] = "ACTIVE", HasQuorum(e)',
                      faults' <= MaxRetryAttempts
               PROVE  Pending(e)'
    BY DEF QuorumNotForgotten
  <2>1. HasQuorum(e) /\ faults <= MaxRetryAttempts
    BY <1>1, <1>3
  <2>2. status[e] = "ACTIVE"
    BY <2>1, NoQuorumOfNone
  <2> QED
    BY <1>3, <2>1, <2>2 DEF DeliveryInv, QuorumNotForgotten
<1>5. ASSUME NEW e \in Epoch, status'[e] \in {"ABSENT", "PENDING"}
      PROVE  Recorded(e)' = {}
  BY <1>2, <1>5 DEF DeliveryInv
<1>6. ASSUME NEW s \in Submissions, subEpoch[s] # 0, status'[subEpoch[s]] = "ACTIVE"
      PROVE  tries[s] <= (IF s \in stream THEN faults' ELSE faults' + 1)
  <2>1. subEpoch[s] \in Epoch /\ s \in Recorded(subEpoch[s])
    BY <1>6 DEF TypeOK, StreamOK, Recorded
  <2>2. status[subEpoch[s]] = "ACTIVE"
    BY <1>6, <2>1
  <2>3. tries[s] <= (IF s \in stream THEN faults ELSE faults + 1)
    BY <1>6, <2>2 DEF DeliveryInv
  <2> QED
    BY <1>1, <2>3
<1> QED
  BY <1>4, <1>5, <1>6 DEF DeliveryInv

\* A submission is recorded once its epoch was ACTIVE, and its record goes to the stream.
LEMMA DeliveryRecord ==
  ASSUME SeenInTime, TypeOK, DeliveryInv, NEW s \in Submissions, NEW e \in Epoch,
         RecordSubmission(s, e)
  PROVE  DeliveryInv'
<1>1. /\ subEpoch[s] = 0 /\ status[e] \notin {"ABSENT", "PENDING"}
      /\ subEpoch' = [subEpoch EXCEPT ![s] = e] /\ stream' = stream \cup {s}
      /\ UNCHANGED <<status, tries, trig, faults>>
  BY DEF RecordSubmission, SeenInTime, tableVars
<1>2. /\ tries[s] = 0 /\ faults \in Nat /\ subEpoch'[s] = e
      /\ \A t \in Submissions \ {s} : subEpoch'[t] = subEpoch[t]
      /\ 0 \notin Epoch
  BY <1>1, BoundsAssumption DEF TypeOK, TablesOK, StreamOK, Epoch
<1>3. \A f \in Epoch \ {e} : Recorded(f)' = Recorded(f)
  BY <1>1, <1>2 DEF Recorded
<1>4. ASSUME NEW f \in Epoch, status[f] = "ACTIVE", HasQuorum(f)', faults <= MaxRetryAttempts
      PROVE  Pending(f)'
  <2>1. CASE f = e
    BY <1>1, <1>2, <2>1 DEF Pending
  <2>2. CASE f # e
    <3>1. Pending(f)
      BY <1>3, <1>4, <2>2 DEF HasQuorum, DeliveryInv, QuorumNotForgotten
    <3>2. \A t \in stream : subEpoch[t] = f => subEpoch'[t] = f
      BY <1>1, <1>2 DEF TypeOK, StreamOK
    <3> QED
      BY <1>1, <3>1, <3>2 DEF Pending
  <2> QED
    BY <2>1, <2>2
<1>5. ASSUME NEW f \in Epoch, status[f] \in {"ABSENT", "PENDING"} PROVE Recorded(f)' = {}
  BY <1>1, <1>3, <1>5 DEF DeliveryInv
<1>6. ASSUME NEW t \in Submissions, subEpoch'[t] # 0, status[subEpoch'[t]] = "ACTIVE"
      PROVE  tries[t] <= (IF t \in stream' THEN faults ELSE faults + 1)
  BY <1>1, <1>2, <1>6 DEF DeliveryInv
<1> QED
  BY <1>1, <1>4, <1>5, <1>6 DEF DeliveryInv, QuorumNotForgotten

\* An epoch is seeded, and made ACTIVE, before anything is recorded for it.
LEMMA DeliveryOperator ==
  ASSUME InSequence, TypeOK, SequenceInv, DeliveryInv, NEW o \in Operators, OperatorStep(o)
  PROVE  DeliveryInv'
<1>1. UNCHANGED <<subEpoch, stream, tries, trig>>
  BY DEF OperatorStep, SeedUpload, ReadPending, BootstrapUpload, SeedItem, AcquireLock,
     SetActive, OperatorCrash, OpUnchanged, streamVars
<1>2. faults' \in Nat /\ faults <= faults'
  <2>1. faults \in Nat
    BY BoundsAssumption DEF TypeOK, TablesOK
  <2>2. faults' = faults \/ faults' = faults + 1
    BY DEF OperatorStep, SeedUpload, ReadPending, BootstrapUpload, SeedItem, AcquireLock,
       SetActive, OperatorCrash, Fault
  <2> QED
    BY <2>1, <2>2
<1>3. \A e \in Epoch : status'[e] = status[e] \/ status[e] \in {"ABSENT", "PENDING"}
  <2> DEFINE d == op[o].epoch
  <2>1. CASE SeedItem(o)
    <3>1. status' = [status EXCEPT ![d] = "PENDING"] /\ status[d] = "ABSENT"
      BY <2>1 DEF SeedItem, AtOp, SequenceInv, ScriptInv
    <3> QED
      BY <3>1 DEF TypeOK, TablesOK
  <2>2. CASE SetActive(o)
    <3>1. status' = [status EXCEPT ![d] = "ACTIVE"] /\ status[d] = "PENDING"
      BY <2>2 DEF SetActive, AtOp, SequenceInv, ScriptInv
    <3> QED
      BY <3>1 DEF TypeOK, TablesOK
  <2>3. CASE ~SeedItem(o) /\ ~SetActive(o)
    BY <2>3 DEF OperatorStep, SeedUpload, ReadPending, BootstrapUpload, AcquireLock,
       OperatorCrash, tableVars
  <2> QED
    BY <2>1, <2>2, <2>3
<1>4. \A e \in Epoch : status'[e] = status[e] \/ Recorded(e) = {}
  BY <1>3 DEF DeliveryInv
<1> QED
  BY <1>1, <1>2, <1>4, DeliveryFrame

\* A worker ends an epoch, and puts the item of one that nobody could submit to.
LEMMA DeliveryWorker ==
  ASSUME TypeOK, SequenceInv, DeliveryInv, NEW w \in Workers, WorkerStep(w)
  PROVE  DeliveryInv'
<1>1. UNCHANGED <<subEpoch, stream, tries, trig>>
  BY DEF WorkerStep, WorkerProgress, Guard, Fetch, Load, PublishModel, Complete, OpenNext,
     FailMark, ReleaseLock, WorkerCrash, ManualRun, WorkerUnchanged, streamVars
<1>2. faults' \in Nat /\ faults <= faults'
  <2>1. faults \in Nat
    BY BoundsAssumption DEF TypeOK, TablesOK
  <2>2. faults' = faults \/ faults' = faults + 1
    BY DEF WorkerStep, WorkerProgress, Guard, Fetch, Load, PublishModel, Complete, OpenNext,
       FailMark, ReleaseLock, WorkerCrash, ManualRun, Fault
  <2> QED
    BY <2>1, <2>2
<1>3. \A e \in Epoch : \/ status'[e] = status[e]
                       \/ Recorded(e) = {}
                       \/ status'[e] \in {"COMPLETED", "FAILED"}
  <2> DEFINE n == worker[w].epoch + 1
  <2>1. CASE OpenNext(w)
    <3>1. w \in Deciding /\ worker[w].pc = "open" /\ status' = [status EXCEPT ![n] = "PENDING"]
      BY <2>1 DEF OpenNext, AtWorker, Deciding
    <3>2. n \in Epoch => status[n] = "ABSENT"
      BY <3>1 DEF SequenceInv, WorkInv
    <3> QED
      BY <3>1, <3>2 DEF DeliveryInv, TypeOK, TablesOK
  <2>2. CASE ~OpenNext(w)
    BY <2>2 DEF WorkerStep, WorkerProgress, Guard, Fetch, Load, PublishModel, Complete,
       FailMark, ReleaseLock, WorkerCrash, ManualRun, tableVars, TypeOK, TablesOK
  <2> QED
    BY <2>1, <2>2
<1> QED
  BY <1>1, <1>2, <1>3, DeliveryFrame

\* What the other invocations wait for stays, whatever one of them does.
LEMMA PendingKept ==
  ASSUME TypeOK, NEW i \in Invocations, TriggerStep(i), NEW e, Pending(e),
         \A s \in stream : subEpoch[s] = e => s \in stream',
         trig[i].pc \notin {"count", "claim"} \/ trig[i].epoch # e
  PROVE  Pending(e)'
<1>1. UNCHANGED subEpoch /\ \A j \in Invocations \ {i} : trig'[j] = trig[j]
  BY DEF TriggerStep, TriggerProgress, Deliver, Count, Claim, RunTaskError, RunTask,
     RunTaskLostReply, InvocationCrash, AtTrigger, streamVars, TypeOK, TriggerOK
<1>2. CASE \E s \in stream : subEpoch[s] = e
  BY <1>1, <1>2 DEF Pending
<1>3. CASE \E j \in Invocations : trig[j].pc \in {"count", "claim"} /\ trig[j].epoch = e
  BY <1>1, <1>3 DEF Pending
<1> QED
  BY <1>2, <1>3 DEF Pending

\* The delivery of a record: the invocation takes its place, if the epoch is ACTIVE.
LEMMA DeliveryDeliver ==
  ASSUME TypeOK, DeliveryInv, NEW i \in Invocations, NEW s \in Submissions, Deliver(i, s)
  PROVE  DeliveryInv'
<1>1. /\ s \in stream /\ stream' = stream \ {s} /\ tries' = [tries EXCEPT ![s] = @ + 1]
      /\ trig[i].pc = "idle" /\ UNCHANGED <<status, subEpoch, faults>>
      /\ trig' = [trig EXCEPT ![i] =
                    IF status[subEpoch[s]] = "ACTIVE"
                    THEN [pc |-> "count", sub |-> s, epoch |-> subEpoch[s], calls |-> 0]
                    ELSE IdleTrigger]
  BY DEF Deliver, AtTrigger, tableVars
<1>2. /\ faults \in Nat /\ tries[s] \in Nat /\ tries'[s] = tries[s] + 1
      /\ \A t \in Submissions \ {s} : tries'[t] = tries[t]
  BY <1>1, BoundsAssumption DEF TypeOK, TablesOK, StreamOK
<1>3. /\ \A j \in Invocations \ {i} : trig'[j] = trig[j]
      /\ status[subEpoch[s]] = "ACTIVE" => trig'[i].pc = "count" /\ trig'[i].epoch = subEpoch[s]
  BY <1>1 DEF TypeOK, TriggerOK
<1>4. \A e : Recorded(e)' = Recorded(e) /\ (HasQuorum(e)' <=> HasQuorum(e))
  BY <1>1, QuorumFrame DEF Recorded
<1>5. ASSUME NEW e \in Epoch, status[e] = "ACTIVE", Pending(e) PROVE Pending(e)'
  <2>1. CASE subEpoch[s] = e
    BY <1>3, <1>5, <2>1 DEF Pending
  <2>2. CASE subEpoch[s] # e
    <3>1. TriggerStep(i)
      BY DEF TriggerStep, TriggerProgress
    <3> QED
      BY <1>1, <1>5, <2>2, <3>1, PendingKept
  <2> QED
    BY <2>1, <2>2
<1>6. ASSUME NEW t \in Submissions, subEpoch[t] # 0, status[subEpoch[t]] = "ACTIVE"
      PROVE  tries'[t] <= (IF t \in stream' THEN faults ELSE faults + 1)
  <2>1. tries[t] <= (IF t \in stream THEN faults ELSE faults + 1)
    BY <1>6 DEF DeliveryInv
  <2> QED
    BY <1>1, <1>2, <2>1
<1>7. QuorumNotForgotten'
  BY <1>1, <1>4, <1>5 DEF DeliveryInv, QuorumNotForgotten
<1> QED
  BY <1>1, <1>4, <1>6, <1>7 DEF DeliveryInv

\* An invocation that gives up counted too few, or found the epoch closed.
LEMMA DeliveryDecide ==
  ASSUME SeenInTime, TypeOK, DeliveryInv, NEW i \in Invocations, Count(i) \/ Claim(i)
  PROVE  DeliveryInv'
<1>1. UNCHANGED <<subEpoch, stream, tries, faults>> /\ trig[i].pc \in {"count", "claim"}
  BY DEF Count, Claim, AtTrigger, streamVars
<1>2. TriggerStep(i)
  BY DEF TriggerStep, TriggerProgress
<1>3. \A e : Recorded(e)' = Recorded(e) /\ (HasQuorum(e)' <=> HasQuorum(e))
  BY <1>1, QuorumFrame DEF Recorded
<1>4. \A e \in Epoch : status'[e] = status[e] \/ status'[e] = "AGGREGATING"
  BY DEF Count, Claim, tableVars, TypeOK, TablesOK
<1>5. ASSUME NEW d \in Epoch, d = trig[i].epoch
      PROVE  status'[d] # "ACTIVE" \/ ~HasQuorum(d) \/ Pending(d)'
  <2>1. CASE Claim(i)
    BY <1>5, <2>1 DEF Claim, TypeOK, TablesOK
  <2>2. CASE Count(i)
    <3>1. AtTrigger(i, "count", IF Cardinality(Recorded(d)) < Required
                                THEN IdleTrigger
                                ELSE [trig[i] EXCEPT !.pc = "claim"])
      BY <1>5, <2>2 DEF Count, IndexReads, SeenInTime
    <3>2. CASE Cardinality(Recorded(d)) < Required
      BY <3>2, RecordedFinite, BoundsAssumption DEF HasQuorum, Quorum, Required
    <3>3. CASE ~(Cardinality(Recorded(d)) < Required)
      <4>1. trig'[i].pc = "claim" /\ trig'[i].epoch = d
        BY <1>5, <3>1, <3>3 DEF AtTrigger, TypeOK, TriggerOK, TriggerType
      <4> QED
        BY <4>1 DEF Pending
    <3> QED
      BY <3>2, <3>3
  <2> QED
    BY <2>1, <2>2
<1>6. ASSUME NEW e \in Epoch, status'[e] = "ACTIVE", HasQuorum(e)', faults <= MaxRetryAttempts
      PROVE  Pending(e)'
  <2>1. CASE e = trig[i].epoch
    BY <1>3, <1>5, <1>6, <2>1
  <2>2. CASE e # trig[i].epoch
    <3>1. Pending(e)
      BY <1>3, <1>4, <1>6 DEF DeliveryInv, QuorumNotForgotten
    <3> QED
      BY <1>1, <1>2, <2>2, <3>1, PendingKept
  <2> QED
    BY <2>1, <2>2
<1>7. ASSUME NEW e \in Epoch, status'[e] \in {"ABSENT", "PENDING"} PROVE Recorded(e)' = {}
  BY <1>3, <1>4, <1>7 DEF DeliveryInv
<1>8. ASSUME NEW s \in Submissions, subEpoch[s] # 0, status'[subEpoch[s]] = "ACTIVE"
      PROVE  tries[s] <= (IF s \in stream THEN faults ELSE faults + 1)
  <2>1. subEpoch[s] \in Epoch
    BY <1>8 DEF TypeOK, StreamOK
  <2> QED
    BY <1>4, <1>8, <2>1 DEF DeliveryInv
<1> QED
  BY <1>1, <1>6, <1>7, <1>8 DEF DeliveryInv, QuorumNotForgotten

\* While an invocation launches, no epoch is ACTIVE.
LEMMA DeliveryLaunch ==
  ASSUME InSequence, TypeOK, SequenceInv, DeliveryInv, NEW i \in Invocations,
         RunTaskError(i) \/ \E w \in Workers : RunTask(i, w)
  PROVE  DeliveryInv'
<1>1. trig[i].pc = "launch" /\ UNCHANGED <<status, subEpoch, tries, faults>>
  BY DEF RunTaskError, RunTask, AtTrigger, tableVars, streamVars
<1>2. \A e \in Epoch : status[e] \notin {"PENDING", "ACTIVE"}
  BY <1>1, NoneWaits DEF Launching
<1>3. \A e : Recorded(e)' = Recorded(e)
  BY <1>1 DEF Recorded
<1>4. \A s \in Submissions : subEpoch[s] # 0 => subEpoch[s] \in Epoch
  BY DEF TypeOK, StreamOK
<1> QED
  BY <1>1, <1>2, <1>3, <1>4 DEF DeliveryInv, QuorumNotForgotten

\* The record of an invocation that fails comes back, while it has retries left.
LEMMA DeliveryCrash ==
  ASSUME TypeOK, DeliveryInv, NEW i \in Invocations, InvocationCrash(i)
  PROVE  DeliveryInv'
<1> DEFINE d == trig[i].epoch
           own == trig[i].sub
<1>1. /\ trig[i].pc # "idle" /\ faults' = faults + 1 /\ Requeue(i)
      /\ UNCHANGED <<status, subEpoch, tries>>
  BY DEF InvocationCrash, Fault, tableVars
<1>2. /\ faults \in Nat /\ MaxRetryAttempts \in Nat /\ \A s \in Submissions : tries[s] \in Nat
      /\ d \in Epoch /\ own \in Submissions /\ subEpoch[own] = d
  BY <1>1, Places, BoundsAssumption DEF TypeOK, TablesOK, StreamOK
<1>3. /\ stream \subseteq stream'
      /\ tries[own] <= MaxRetryAttempts => own \in stream'
  BY <1>1 DEF Requeue
<1>4. \A e : Recorded(e)' = Recorded(e) /\ (HasQuorum(e)' <=> HasQuorum(e))
  BY <1>1, QuorumFrame DEF Recorded
<1>5. ASSUME NEW s \in Submissions, subEpoch[s] # 0, status[subEpoch[s]] = "ACTIVE"
      PROVE  /\ tries[s] <= faults'
             /\ s \notin stream' => tries[s] <= faults' + 1
  <2>1. tries[s] <= (IF s \in stream THEN faults ELSE faults + 1)
    BY <1>5 DEF DeliveryInv
  <2> QED
    BY <1>1, <1>2, <2>1
<1>6. ASSUME NEW e \in Epoch, status[e] = "ACTIVE", HasQuorum(e)', faults' <= MaxRetryAttempts
      PROVE  Pending(e)'
  <2>1. Pending(e)
    BY <1>1, <1>2, <1>4, <1>6 DEF DeliveryInv, QuorumNotForgotten
  <2>2. CASE e = d
    <3>1. subEpoch[own] # 0 /\ tries[own] <= MaxRetryAttempts
      BY <1>1, <1>2, <1>5, <1>6, <2>2 DEF Epoch
    <3> QED
      BY <1>1, <1>2, <1>3, <2>2, <3>1 DEF Pending
  <2>3. CASE e # d
    BY <1>3, <2>1, <2>3, PendingKept DEF TriggerStep
  <2> QED
    BY <2>2, <2>3
<1> QED
  BY <1>1, <1>4, <1>5, <1>6 DEF DeliveryInv, QuorumNotForgotten

\* An epoch that is ACTIVE and has its quorum will be claimed: a record waits for
\* delivery that will see the quorum, or an invocation that has seen it is on its way,
\* as long as no more invocations have failed than a record has retries. It holds
\* however often launching a task fails.
THEOREM QuorumNotForgottenHolds ==
  ASSUME InSequence, SeenInTime
  PROVE  Spec => []QuorumNotForgotten
<1>1. Init => DeliveryInv
  BY BoundsAssumption DEF Init, DeliveryInv, QuorumNotForgotten, Recorded, Epoch
<1>2. TypeOK /\ SequenceInv /\ DeliveryInv /\ [Next]_vars => DeliveryInv'
  <2> SUFFICES ASSUME TypeOK, SequenceInv, DeliveryInv, [Next]_vars PROVE DeliveryInv'
    OBVIOUS
  <2>1. ASSUME NEW i \in Invocations, TriggerStep(i) PROVE DeliveryInv'
    <3>1. ~ \E w \in Workers : RunTaskLostReply(i, w)
      BY DEF InSequence, RunTaskLostReply, Fault
    <3> QED
      BY <2>1, <3>1, DeliveryDeliver, DeliveryDecide, DeliveryLaunch, DeliveryCrash
      DEF TriggerStep, TriggerProgress
  <2>2. CASE UNCHANGED vars
    <3>1. UNCHANGED <<status, subEpoch, stream, tries, trig, faults>>
      BY <2>2 DEF vars
    <3>2. faults' \in Nat /\ faults <= faults'
      BY <3>1, BoundsAssumption DEF TypeOK, TablesOK
    <3> QED
      BY <3>1, <3>2, DeliveryFrame
  <2> QED
    BY <2>1, <2>2, DeliveryRecord, DeliveryOperator, DeliveryWorker DEF Next
<1>3. DeliveryInv => QuorumNotForgotten
  BY DEF DeliveryInv
<1> QED
  BY <1>1, <1>2, <1>3, TypeCorrect, SequenceInvariant, PTL DEF Spec

\* The three together, in the environments of all three: no hand between recorded
\* submissions, the trigger, the worker and the next epoch drops what it was given.
THEOREM NothingForgottenHolds ==
  ASSUME InSequence, Undisturbed, SeenInTime
  PROVE  Spec => []NothingForgotten
<1>1. Spec => []RoundHeld
  BY RoundHeldAlways
<1>2. Spec => []LockNotLeaked
  BY LockNotLeakedHolds
<1>3. Spec => []QuorumNotForgotten
  BY QuorumNotForgottenHolds
<1> QED
  BY <1>1, <1>2, <1>3, PTL DEF NothingForgotten

=============================================================================
