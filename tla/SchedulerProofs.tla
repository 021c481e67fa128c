--------------------------- MODULE SchedulerProofs ---------------------------
(***************************************************************************)
(* Proofs about Scheduler for every set of ids and demands and all limits. *)
(***************************************************************************)
EXTENDS Scheduler, FiniteSums

\* The parts of SchedTypeOK, with a finite number of running jobs.
ValuesOK ==
  /\ activeJobs \in [Ids -> Demands \cup {NoJob}]
  /\ allocated \in [cpu : 0..MaxCpu, ram : 0..MaxRam]
  /\ clock \in Nat /\ callsMade \in 0..MaxCalls /\ clash \in BOOLEAN

SlotsOK == IsFiniteSet(Running) /\ Cardinality(Running) <= MaxConcurrent

LimitInv == ValuesOK /\ EntriesOK /\ SlotsOK

LEMMA InitLimits == SchedInit => LimitInv
<1> SUFFICES ASSUME SchedInit PROVE LimitInv
  OBVIOUS
<1>1. Running = {}
  BY DEF SchedInit, Running
<1>2. SlotsOK
  BY <1>1, FS_EmptySet, SchedulerAssumption DEF SlotsOK
<1>3. ValuesOK
  <2>1. clash \in BOOLEAN
    BY DEF SchedInit
  <2>2. activeJobs \in [Ids -> Demands \cup {NoJob}]
    BY DEF SchedInit
  <2>3. allocated \in [cpu : 0..MaxCpu, ram : 0..MaxRam]
    BY SchedulerAssumption DEF SchedInit
  <2>4. clock \in Nat /\ callsMade \in 0..MaxCalls
    BY SchedulerAssumption DEF SchedInit
  <2>5. QED
    BY <2>1, <2>2, <2>3, <2>4 DEF ValuesOK
<1>4. EntriesOK
  BY DEF SchedInit, EntriesOK
<1>5. QED
  BY <1>2, <1>3, <1>4 DEF LimitInv

----------------------------------------------------------------------------
(* The allocator.                                                          *)

LEMMA ReserveType ==
  ASSUME NEW used \in [cpu : 0..MaxCpu, ram : 0..MaxRam], NEW job \in Demands,
         HasRoom(used, job)
  PROVE  Reserve(used, job) \in [cpu : 0..MaxCpu, ram : 0..MaxRam]
<1>1. job.cpu \in Nat /\ job.ram \in Nat
  BY SchedulerAssumption
<1>2. QED
  BY <1>1, SchedulerAssumption DEF HasRoom, Reserve

LEMMA ReleaseType ==
  ASSUME NEW used \in [cpu : 0..MaxCpu, ram : 0..MaxRam], NEW job \in Demands
  PROVE  Release(used, job) \in [cpu : 0..MaxCpu, ram : 0..MaxRam]
<1>1. job.cpu \in Nat /\ job.ram \in Nat
  BY SchedulerAssumption
<1>2. QED
  BY <1>1, SchedulerAssumption DEF Release, Less

----------------------------------------------------------------------------
(* The running jobs and the queue.                                         *)

\* One more job runs at most, and there is a slot for it.
LEMMA OneMore ==
  ASSUME SlotsOK, HasSlot, NEW i, Running' \subseteq Running \cup {i}
  PROVE  SlotsOK'
<1>1. /\ IsFiniteSet(Running \cup {i})
      /\ Cardinality(Running \cup {i}) <= Cardinality(Running) + 1
  <2>1. IsFiniteSet(Running)
    BY DEF SlotsOK
  <2>2. Cardinality(Running) \in Nat
    BY <2>1, FS_CardinalityType
  <2>3. /\ IsFiniteSet(Running \cup {i})
        /\ \/ Cardinality(Running \cup {i}) = Cardinality(Running)
           \/ Cardinality(Running \cup {i}) = Cardinality(Running) + 1
    BY <2>1, FS_AddElement, Zenon
  <2>4. QED
    BY <2>2, <2>3
<1>2. IsFiniteSet(Running') /\ Cardinality(Running') <= Cardinality(Running \cup {i})
  BY <1>1, FS_Subset
<1>3. /\ Cardinality(Running) \in Nat /\ Cardinality(Running') \in Nat
      /\ Cardinality(Running \cup {i}) \in Nat
  BY <1>1, <1>2, FS_CardinalityType DEF SlotsOK
<1>4. QED
  BY <1>1, <1>2, <1>3, SchedulerAssumption DEF SlotsOK, HasSlot

LEMMA NoMore ==
  ASSUME SlotsOK, Running' \subseteq Running
  PROVE  SlotsOK'
<1>1. IsFiniteSet(Running') /\ Cardinality(Running') <= Cardinality(Running)
  BY FS_Subset DEF SlotsOK
<1>2. Cardinality(Running) \in Nat /\ Cardinality(Running') \in Nat
  BY <1>1, FS_CardinalityType DEF SlotsOK
<1>3. QED
  BY <1>1, <1>2, SchedulerAssumption DEF SlotsOK

\* A push, stamped with the clock that goes on, and anything taken out.
LEMMA PushEntries ==
  ASSUME ValuesOK, EntriesOK, NEW i \in Ids, NEW job \in Demands, clock' = clock + 1,
         jobQueue' \subseteq jobQueue \cup {Entry(i, job)}
  PROVE  EntriesOK'
<1>1. /\ Entry(i, job) \in [id : Ids, at : Nat, job : Demands]
      /\ Entry(i, job).at = clock
  BY DEF Entry, ValuesOK
<1>2. \A e \in jobQueue : e.at \in Nat /\ e.at < clock
  BY DEF EntriesOK
<1>3. QED
  BY <1>1, <1>2 DEF EntriesOK, ValuesOK

LEMMA PopEntries ==
  ASSUME EntriesOK, UNCHANGED clock, jobQueue' \subseteq jobQueue
  PROVE  EntriesOK'
BY DEF EntriesOK

\* The demand of a running job, and of a waiting one.
LEMMA DemandOf ==
  ASSUME LimitInv
  PROVE  /\ \A i \in Running : i \in Ids /\ activeJobs[i] \in Demands
         /\ \A e \in jobQueue : e.id \in Ids /\ e.job \in Demands /\ e.job # NoJob
BY SchedulerAssumption DEF LimitInv, ValuesOK, EntriesOK, Running

\* What try_schedule does, whichever way it starts or preempts.
LEMMA StartRunning ==
  ASSUME LimitInv, NEW e \in jobQueue, StartJob(e)
  PROVE  Running' = Running \cup {e.id}
BY DemandOf DEF LimitInv, ValuesOK, Running, StartJob

LEMMA PausedRunning ==
  ASSUME LimitInv, NEW v \in Running, activeJobs' = Paused(v)
  PROVE  Running' = Running \ {v}
BY DEF LimitInv, ValuesOK, Running, Paused

LEMMA ReplacedRunning ==
  ASSUME LimitInv, NEW v \in Running, NEW e \in jobQueue,
         activeJobs' = [Paused(v) EXCEPT ![e.id] = e.job]
  PROVE  /\ Running' = (Running \ {v}) \cup {e.id}
         /\ activeJobs' \in [Ids -> Demands \cup {NoJob}]
         /\ activeJobs'[e.id] = e.job
<1> DEFINE rest == Paused(v)
<1>1. /\ rest \in [Ids -> Demands \cup {NoJob}] /\ rest[v] = NoJob
      /\ \A i \in Ids \ {v} : rest[i] = activeJobs[i]
  BY DEF LimitInv, ValuesOK, Running, Paused
<1>2. activeJobs' = [rest EXCEPT ![e.id] = e.job]
  OBVIOUS
<1> HIDE DEF rest
<1>3. e.id \in Ids /\ e.job \in Demands /\ e.job # NoJob
  BY DemandOf
<1>4. activeJobs' \in [Ids -> Demands \cup {NoJob}] /\ activeJobs'[e.id] = e.job
  BY <1>1, <1>2, <1>3
<1>5. \A i \in Ids \ {e.id} : activeJobs'[i] = rest[i]
  BY <1>1, <1>2
<1>6. QED
  BY <1>1, <1>3, <1>4, <1>5 DEF Running

LEMMA ScheduleLimits == LimitInv /\ TrySchedule => LimitInv'
<1> SUFFICES ASSUME LimitInv, TrySchedule PROVE LimitInv'
  OBVIOUS
<1> USE DEF LimitInv
<1>1. HasSlot /\ UNCHANGED <<callsMade, clash>>
  BY DEF TrySchedule
<1>2. ASSUME NEW e \in jobQueue, StartJob(e) PROVE LimitInv'
  <2>1. e.id \in Ids /\ e.job \in Demands
    BY DemandOf
  <2>2. SlotsOK'
    BY <1>1, <1>2, StartRunning, OneMore
  <2>3. EntriesOK'
    BY <1>2, PopEntries DEF StartJob
  <2>4. allocated' \in [cpu : 0..MaxCpu, ram : 0..MaxRam]
    BY <1>2, <2>1, ReserveType DEF StartJob, ValuesOK
  <2>5. ValuesOK'
    BY <1>1, <1>2, <2>1, <2>4 DEF StartJob, ValuesOK
  <2>6. QED
    BY <2>2, <2>3, <2>5
<1>3. ASSUME NEW e \in jobQueue, NEW v \in Running, PreemptFor(e, v) PROVE LimitInv'
  <2> DEFINE freed == Release(allocated, activeJobs[v])
  <2>1. v \in Ids /\ activeJobs[v] \in Demands /\ e.job \in Demands
    BY DemandOf
  <2>2. freed \in [cpu : 0..MaxCpu, ram : 0..MaxRam]
    BY <2>1, ReleaseType DEF ValuesOK
  <2>3. clock' = clock + 1 /\ jobQueue' \subseteq jobQueue \cup {Entry(v, activeJobs[v])}
    BY <1>3 DEF PreemptFor, Requeued
  <2>4. EntriesOK'
    BY <2>1, <2>3, PushEntries
  <2>5. CASE HasRoom(freed, e.job)
    <3>1. activeJobs' = [Paused(v) EXCEPT ![e.id] = e.job] /\ allocated' = Reserve(freed, e.job)
      BY <1>3, <2>5 DEF PreemptFor
    <3>2. SlotsOK'
      BY <1>1, <3>1, ReplacedRunning, OneMore
    <3>3. allocated' \in [cpu : 0..MaxCpu, ram : 0..MaxRam]
      BY <2>1, <2>2, <2>5, <3>1, ReserveType
    <3>4. activeJobs' \in [Ids -> Demands \cup {NoJob}]
      BY <3>1, ReplacedRunning
    <3>5. clock' \in Nat /\ callsMade' \in 0..MaxCalls
      BY <1>1, <2>3 DEF ValuesOK
    <3>6. ValuesOK'
      BY <1>1, <3>3, <3>4, <3>5 DEF ValuesOK
    <3>7. QED
      BY <2>4, <3>2, <3>6
  <2>6. CASE ~HasRoom(freed, e.job)
    <3>1. activeJobs' = Paused(v) /\ allocated' = freed
      BY <1>3, <2>6 DEF PreemptFor
    <3>2. SlotsOK'
      BY <3>1, PausedRunning, NoMore
    <3>3. activeJobs' \in [Ids -> Demands \cup {NoJob}]
      BY <3>1 DEF ValuesOK, Paused
    <3>4. clock' \in Nat /\ callsMade' \in 0..MaxCalls
      BY <1>1, <2>3 DEF ValuesOK
    <3>5. ValuesOK'
      BY <1>1, <2>2, <3>1, <3>3, <3>4 DEF ValuesOK
    <3>6. QED
      BY <2>4, <3>2, <3>5
  <2>7. QED
    BY <2>5, <2>6
<1>4. QED
  BY <1>2, <1>3 DEF TrySchedule

LEMMA EnqueueLimits ==
  ASSUME LimitInv, NEW i \in Ids, NEW job \in Demands, Enqueue(i, job)
  PROVE  LimitInv'
<1> USE DEF LimitInv
<1>1. EntriesOK'
  BY PushEntries DEF Enqueue
<1>2. ValuesOK'
  BY SchedulerAssumption DEF Enqueue, CountCall, ValuesOK
<1>3. SlotsOK'
  BY NoMore DEF Enqueue, Running
<1>4. QED
  BY <1>1, <1>2, <1>3

LEMMA PreemptLimits ==
  ASSUME LimitInv, NEW v \in Ids, PreemptLowest(v)
  PROVE  LimitInv'
<1> USE DEF LimitInv
<1>1. v \in Running /\ activeJobs[v] \in Demands /\ activeJobs' = Paused(v)
  BY DemandOf DEF PreemptLowest
<1>2. EntriesOK'
  BY <1>1, PushEntries DEF PreemptLowest, Requeued
<1>3. SlotsOK'
  BY <1>1, PausedRunning, NoMore
<1>4. allocated' \in [cpu : 0..MaxCpu, ram : 0..MaxRam]
  BY <1>1, ReleaseType DEF PreemptLowest, ValuesOK
<1>5. ValuesOK'
  BY <1>1, <1>4, SchedulerAssumption DEF PreemptLowest, CountCall, ValuesOK, Paused
<1>6. QED
  BY <1>2, <1>3, <1>5

LEMMA CompleteLimits ==
  ASSUME LimitInv, NEW i \in Ids, CompleteJob(i)
  PROVE  LimitInv'
<1> USE DEF LimitInv
<1>1. i \in Running /\ activeJobs[i] \in Demands /\ activeJobs' = Paused(i)
  BY DemandOf DEF CompleteJob, Paused
<1>2. EntriesOK'
  BY PopEntries DEF CompleteJob
<1>3. SlotsOK'
  BY <1>1, PausedRunning, NoMore
<1>4. allocated' \in [cpu : 0..MaxCpu, ram : 0..MaxRam]
  BY <1>1, ReleaseType DEF CompleteJob, ValuesOK
<1>5. ValuesOK'
  BY <1>1, <1>4 DEF CompleteJob, ValuesOK, Paused
<1>6. QED
  BY <1>2, <1>3, <1>5

LEMMA NextLimits == LimitInv /\ [SchedNext]_schedVars => LimitInv'
<1> SUFFICES ASSUME LimitInv, [SchedNext]_schedVars PROVE LimitInv'
  OBVIOUS
<1>1. CASE UNCHANGED schedVars
  BY <1>1 DEF schedVars, LimitInv, ValuesOK, EntriesOK, SlotsOK, Running
<1>2. CASE SchedNext
  BY <1>2, ScheduleLimits, EnqueueLimits, PreemptLimits, CompleteLimits DEF SchedNext, FailJob
<1>3. QED
  BY <1>1, <1>2

----------------------------------------------------------------------------
(* A job is in one place.                                                  *)

LEMMA InitOnce == SchedInit => EachJobOnce
BY DEF SchedInit, EachJobOnce

\* A job that is neither waiting nor running from now on is pushed.
LEMMA PushOnce ==
  ASSUME EachJobOnce, ~clash, NEW i, NEW job, i \notin Waiting, i \notin Running',
         Running' \subseteq Running, jobQueue' = jobQueue \cup {Entry(i, job)}
  PROVE  EachJobOnce'
BY DEF EachJobOnce, Waiting, Entry

LEMMA ScheduleOnce == LimitInv /\ EachJobOnce /\ ~clash /\ TrySchedule => EachJobOnce'
<1> SUFFICES ASSUME LimitInv, EachJobOnce, ~clash, TrySchedule PROVE EachJobOnce'
  OBVIOUS
<1>1. ASSUME NEW e \in jobQueue, StartJob(e) PROVE EachJobOnce'
  <2>1. Running' = Running \cup {e.id} /\ jobQueue' = jobQueue \ {e}
    BY <1>1, StartRunning DEF StartJob
  <2>2. QED
    BY <2>1 DEF EachJobOnce
<1>2. ASSUME NEW e \in jobQueue, NEW v \in Running, PreemptFor(e, v) PROVE EachJobOnce'
  <2> DEFINE freed == Release(allocated, activeJobs[v])
             back == Entry(v, activeJobs[v])
  <2>1. v \notin Waiting /\ v # e.id
    BY DEF EachJobOnce, Waiting
  <2>2. back.id = v
    BY DEF Entry
  <2>3. CASE HasRoom(freed, e.job)
    <3>1. /\ activeJobs' = [Paused(v) EXCEPT ![e.id] = e.job]
          /\ jobQueue' = (jobQueue \cup {back}) \ {e}
      BY <1>2, <2>3 DEF PreemptFor, Requeued
    <3>2. Running' = (Running \ {v}) \cup {e.id}
      BY <3>1, ReplacedRunning
    <3> HIDE DEF back, freed
    <3>3. QED
      BY <2>1, <2>2, <3>1, <3>2 DEF EachJobOnce, Waiting
  <2>4. CASE ~HasRoom(freed, e.job)
    <3>1. activeJobs' = Paused(v) /\ jobQueue' = jobQueue \cup {back}
      BY <1>2, <2>4 DEF PreemptFor, Requeued
    <3>2. Running' = Running \ {v}
      BY <3>1, PausedRunning
    <3>3. QED
      BY <2>1, <3>1, <3>2, PushOnce
  <2>5. QED
    BY <2>3, <2>4
<1>3. QED
  BY <1>1, <1>2 DEF TrySchedule

LEMMA EnqueueOnce ==
  ASSUME EachJobOnce, ~clash', NEW i \in Ids, NEW job \in Demands, Enqueue(i, job)
  PROVE  EachJobOnce'
<1>1. ~clash /\ i \notin Running /\ i \notin Waiting
  BY DEF Enqueue
<1>2. Running' = Running
  BY DEF Enqueue, Running
<1>3. QED
  BY <1>1, <1>2, PushOnce DEF Enqueue

LEMMA PreemptOnce ==
  ASSUME LimitInv, EachJobOnce, ~clash, NEW v \in Ids, PreemptLowest(v)
  PROVE  EachJobOnce'
<1>1. v \in Running /\ v \notin Waiting
  BY DEF PreemptLowest, EachJobOnce, Waiting
<1>2. Running' = Running \ {v}
  BY <1>1, PausedRunning DEF PreemptLowest
<1>3. QED
  BY <1>1, <1>2, PushOnce DEF PreemptLowest, Requeued

LEMMA CompleteOnce ==
  ASSUME LimitInv, EachJobOnce, ~clash, NEW i \in Ids, CompleteJob(i)
  PROVE  EachJobOnce'
<1>1. Running' = Running \ {i}
  BY PausedRunning DEF CompleteJob, Paused
<1>2. QED
  BY <1>1 DEF CompleteJob, EachJobOnce

LEMMA NextOnce == LimitInv /\ EachJobOnce /\ [SchedNext]_schedVars => EachJobOnce'
<1> SUFFICES ASSUME LimitInv, EachJobOnce, [SchedNext]_schedVars, ~clash' PROVE EachJobOnce'
  BY DEF EachJobOnce
<1>1. ~clash
  BY DEF SchedNext, schedVars, Enqueue, TrySchedule, PreemptLowest, CompleteJob, FailJob
<1>2. CASE UNCHANGED schedVars
  BY <1>2 DEF schedVars, EachJobOnce, Running
<1>3. CASE SchedNext
  BY <1>1, <1>3, ScheduleOnce, EnqueueOnce, PreemptOnce, CompleteOnce DEF SchedNext, FailJob
<1>4. QED
  BY <1>2, <1>3

\* With unique ids, a job is queued once or runs, never both: a start takes it
\* out of the queue, and only a job that was stopped is queued again.
THEOREM JobOnce == SchedSpec => []EachJobOnce
BY InitLimits, NextLimits, InitOnce, NextOnce, PTL DEF SchedSpec

----------------------------------------------------------------------------
(* What a step never does.                                                 *)

\* Who is taken out of the map is in the queue, whoever takes it.
LEMMA RequeuedWaits ==
  ASSUME NEW v, Entry(v, activeJobs[v]) \in jobQueue'
  PROVE  v \in Waiting'
<1>1. Entry(v, activeJobs[v]).id = v
  BY DEF Entry
<1>2. QED
  BY <1>1 DEF Waiting

LEMMA StepLeaves ==
  ASSUME LimitInv, [SchedNext]_schedVars, NEW i \in Ids, i \in Running \cup Waiting
  PROVE  i \in Running' \cup Waiting' \/ CompleteJob(i) \/ FailJob(i)
<1>1. CASE UNCHANGED schedVars
  BY <1>1 DEF schedVars, Running, Waiting
<1>2. ASSUME NEW j \in Ids, NEW job \in Demands, Enqueue(j, job)
      PROVE  i \in Running' \cup Waiting'
  BY <1>2 DEF Enqueue, Running, Waiting
<1>3. ASSUME NEW e \in jobQueue, StartJob(e) PROVE i \in Running' \cup Waiting'
  <2>1. Running' = Running \cup {e.id} /\ jobQueue' = jobQueue \ {e}
    BY <1>3, StartRunning DEF StartJob
  <2>2. QED
    BY <2>1 DEF Waiting
<1>4. ASSUME NEW e \in jobQueue, NEW v \in Running, PreemptFor(e, v)
      PROVE  i \in Running' \cup Waiting'
  <2> DEFINE back == Entry(v, activeJobs[v])
  <2>1. back.at = clock /\ back.id = v
    BY DEF Entry
  <2>2. back # e
    BY <2>1 DEF LimitInv, ValuesOK, EntriesOK
  <2>3. CASE HasRoom(Release(allocated, activeJobs[v]), e.job)
    <3>1. /\ activeJobs' = [Paused(v) EXCEPT ![e.id] = e.job]
          /\ jobQueue' = (jobQueue \cup {back}) \ {e}
      BY <1>4, <2>3 DEF PreemptFor, Requeued
    <3>2. Running' = (Running \ {v}) \cup {e.id}
      BY <3>1, ReplacedRunning
    <3>3. v \in Waiting'
      BY <2>2, <3>1, RequeuedWaits
    <3> HIDE DEF back
    <3>4. QED
      BY <3>1, <3>2, <3>3 DEF Waiting
  <2>4. CASE ~HasRoom(Release(allocated, activeJobs[v]), e.job)
    <3>1. activeJobs' = Paused(v) /\ jobQueue' = jobQueue \cup {back}
      BY <1>4, <2>4 DEF PreemptFor, Requeued
    <3>2. Running' = Running \ {v} /\ v \in Waiting'
      BY <3>1, PausedRunning, RequeuedWaits
    <3> HIDE DEF back
    <3>3. QED
      BY <3>1, <3>2 DEF Waiting
  <2>5. QED
    BY <2>3, <2>4
<1>5. CASE TrySchedule
  BY <1>3, <1>4, <1>5 DEF TrySchedule
<1>6. ASSUME NEW v \in Ids, PreemptLowest(v) PROVE i \in Running' \cup Waiting'
  <2> DEFINE back == Entry(v, activeJobs[v])
  <2>1. v \in Running /\ activeJobs' = Paused(v) /\ jobQueue' = jobQueue \cup {back}
    BY <1>6 DEF PreemptLowest, Requeued
  <2>2. Running' = Running \ {v} /\ v \in Waiting'
    BY <2>1, PausedRunning, RequeuedWaits
  <2> HIDE DEF back
  <2>3. QED
    BY <2>1, <2>2 DEF Waiting
<1>7. ASSUME NEW j \in Ids, CompleteJob(j)
      PROVE  i \in Running' \cup Waiting' \/ CompleteJob(i)
  <2>1. Running' = Running \ {j}
    BY <1>7, PausedRunning DEF CompleteJob, Paused
  <2>2. Waiting' = Waiting
    BY <1>7 DEF CompleteJob, Waiting
  <2>3. QED
    BY <1>7, <2>1, <2>2
<1>8. CASE SchedNext
  BY <1>2, <1>5, <1>6, <1>7, <1>8 DEF SchedNext, FailJob
<1>9. QED
  BY <1>1, <1>8

\* A job leaves the scheduler through complete_job and fail_job only: preempted,
\* in vain or not, it waits again.
THEOREM FinishedLeave == SchedSpec => OnlyFinishedLeave
<1>1. LimitInv /\ [SchedNext]_schedVars =>
        [\A i \in Ids : i \in Running \cup Waiting =>
           i \in Running' \cup Waiting' \/ CompleteJob(i) \/ FailJob(i)]_schedVars
  BY StepLeaves
<1>2. QED
  BY <1>1, InitLimits, NextLimits, PTL DEF SchedSpec, OnlyFinishedLeave

\* The two halves of UrgentFirst.
StartsUrgent ==
  \A i \in Running' \ Running, e \in jobQueue' : e.job.priority <= activeJobs'[i].priority

StopsLess ==
  \A i \in Running \ Running' : \E e \in jobQueue : e.job.priority > activeJobs[i].priority

LEMMA CandidateUrgent ==
  ASSUME LimitInv, NEW e \in jobQueue, Candidate(e)
  PROVE  /\ \A f \in jobQueue : f.job.priority <= e.job.priority
         /\ e.job.priority \in 0..255
<1>1. \A f \in jobQueue : f.job.priority \in 0..255
  BY DemandOf, SchedulerAssumption
<1>2. ASSUME NEW f \in jobQueue PROVE f.job.priority <= e.job.priority
  <2>1. e.job.priority > f.job.priority \/ e.job.priority = f.job.priority
    BY DEF Candidate, Before
  <2>2. e.job.priority \in Int /\ f.job.priority \in Int
    BY <1>1
  <2>3. QED
    BY <2>1, <2>2
<1>3. QED
  BY <1>1, <1>2

LEMMA StartUrgent ==
  ASSUME LimitInv, NEW e \in jobQueue, Candidate(e), StartJob(e)
  PROVE  StartsUrgent /\ StopsLess
<1>1. Running' = Running \cup {e.id} /\ jobQueue' = jobQueue \ {e}
  BY StartRunning DEF StartJob
<1>2. activeJobs'[e.id] = e.job
  BY DemandOf DEF StartJob, LimitInv, ValuesOK
<1>3. QED
  BY <1>1, <1>2, CandidateUrgent DEF StartsUrgent, StopsLess

LEMMA PreemptUrgent ==
  ASSUME LimitInv, NEW e \in jobQueue, Candidate(e), NEW v \in Running, PreemptFor(e, v)
  PROVE  StartsUrgent /\ StopsLess
<1> DEFINE back == Entry(v, activeJobs[v])
<1>1. back.job = activeJobs[v] /\ e.job.priority > activeJobs[v].priority
  BY DEF Entry, PreemptFor, Outranks
<1>2. activeJobs[v].priority \in 0..255
  BY DemandOf, SchedulerAssumption
<1>3. \A f \in jobQueue \cup {back} : f.job.priority <= e.job.priority
  <2> HIDE DEF back
  <2>1. back.job.priority <= e.job.priority
    <3>1. e.job.priority \in 0..255
      BY CandidateUrgent
    <3>2. activeJobs[v].priority <= e.job.priority
      <4>1. \A x, y \in 0..255 : x > y => y <= x
        OBVIOUS
      <4>2. QED
        BY <1>1, <1>2, <3>1, <4>1, Zenon
    <3>3. QED
      BY <1>1, <3>2
  <2>2. QED
    BY <2>1, CandidateUrgent
<1>4. CASE HasRoom(Release(allocated, activeJobs[v]), e.job)
  <2>1. /\ activeJobs' = [Paused(v) EXCEPT ![e.id] = e.job]
        /\ jobQueue' = (jobQueue \cup {back}) \ {e}
    BY <1>4 DEF PreemptFor, Requeued
  <2>2. Running' = (Running \ {v}) \cup {e.id} /\ activeJobs'[e.id] = e.job
    BY <2>1, ReplacedRunning
  <2> HIDE DEF back
  <2>3. QED
    BY <1>1, <1>3, <2>1, <2>2 DEF StartsUrgent, StopsLess
<1>5. CASE ~HasRoom(Release(allocated, activeJobs[v]), e.job)
  <2>1. activeJobs' = Paused(v)
    BY <1>5 DEF PreemptFor
  <2>2. Running' = Running \ {v}
    BY <2>1, PausedRunning
  <2>3. QED
    BY <1>1, <2>2 DEF StartsUrgent, StopsLess
<1>6. QED
  BY <1>4, <1>5

\* try_schedule serves priority, through every chain of preemptions: what starts
\* is at least as urgent as what waits then, what stops is less urgent than
\* something that waits.
THEOREM UrgencyServed == SchedSpec => UrgentFirst
<1>1. LimitInv /\ TrySchedule => StartsUrgent /\ StopsLess
  BY StartUrgent, PreemptUrgent DEF TrySchedule
<1>2. LimitInv /\ [SchedNext]_schedVars =>
        [TrySchedule =>
           /\ \A i \in Running' \ Running, e \in jobQueue' :
                e.job.priority <= activeJobs'[i].priority
           /\ \A i \in Running \ Running' : \E e \in jobQueue :
                e.job.priority > activeJobs[i].priority]_schedVars
  BY <1>1 DEF StartsUrgent, StopsLess
<1>3. QED
  BY <1>2, InitLimits, NextLimits, PTL DEF SchedSpec, UrgentFirst

----------------------------------------------------------------------------
(* What was started stays.                                                 *)

\* What try_schedule put to run since any other call runs, and is at least as
\* urgent as all that waits: the candidate was, and no other call brought a new one.
StaysInv ==
  \A i \in lately :
    i \in Running /\ \A f \in jobQueue : f.job.priority <= activeJobs[i].priority

LEMMA InitStays == SchedInit => StaysInv
BY DEF SchedInit, StaysInv

LEMMA StartStays ==
  ASSUME LimitInv, StaysInv, NEW e \in jobQueue, Candidate(e), StartJob(e),
         lately' = lately \cup (Running' \ Running)
  PROVE  StaysInv' /\ lately \subseteq Running'
<1>1. Running' = Running \cup {e.id} /\ jobQueue' = jobQueue \ {e}
  BY StartRunning DEF StartJob
<1>2. activeJobs'[e.id] = e.job /\ \A i \in Running \ {e.id} : activeJobs'[i] = activeJobs[i]
  BY DemandOf DEF StartJob, LimitInv, ValuesOK, Running
<1>3. \A f \in jobQueue : f.job.priority <= e.job.priority
  BY CandidateUrgent
<1>4. QED
  BY <1>1, <1>2, <1>3 DEF StaysInv

LEMMA PreemptStays ==
  ASSUME LimitInv, StaysInv, NEW e \in jobQueue, Candidate(e), NEW v \in Running,
         PreemptFor(e, v), lately' = lately \cup (Running' \ Running)
  PROVE  StaysInv' /\ lately \subseteq Running'
<1> DEFINE back == Entry(v, activeJobs[v])
<1>1. back.job = activeJobs[v] /\ e.job.priority > activeJobs[v].priority
  BY DEF Entry, PreemptFor, Outranks
<1>2. /\ e.job.priority \in Int
      /\ \A i \in Running : activeJobs[i].priority \in Int
  BY DemandOf, SchedulerAssumption
<1>3. \A f \in jobQueue : f.job.priority <= e.job.priority
  BY CandidateUrgent
<1>4. back.job.priority <= e.job.priority
  BY <1>1, <1>2
<1>5. /\ v \notin lately
      /\ \A i \in lately : back.job.priority <= activeJobs[i].priority
  <2>1. \A i \in lately : i \in Running /\ e.job.priority <= activeJobs[i].priority
    BY DEF StaysInv
  <2>2. QED
    BY <1>1, <1>2, <2>1
<1>6. CASE HasRoom(Release(allocated, activeJobs[v]), e.job)
  <2>1. /\ activeJobs' = [Paused(v) EXCEPT ![e.id] = e.job]
        /\ jobQueue' \subseteq jobQueue \cup {back}
    BY <1>6 DEF PreemptFor, Requeued
  <2>2. Running' = (Running \ {v}) \cup {e.id} /\ activeJobs'[e.id] = e.job
    BY <2>1, ReplacedRunning
  <2>3. \A i \in Running \ {v, e.id} : activeJobs'[i] = activeJobs[i]
    BY <2>1, DemandOf DEF Paused, LimitInv, ValuesOK, Running
  <2> HIDE DEF back
  <2>4. QED
    BY <1>3, <1>4, <1>5, <2>1, <2>2, <2>3 DEF StaysInv
<1>7. CASE ~HasRoom(Release(allocated, activeJobs[v]), e.job)
  <2>1. activeJobs' = Paused(v) /\ jobQueue' = jobQueue \cup {back}
    BY <1>7 DEF PreemptFor, Requeued
  <2>2. Running' = Running \ {v}
    BY <2>1, PausedRunning
  <2>3. \A i \in Running \ {v} : activeJobs'[i] = activeJobs[i]
    BY <2>1 DEF Paused, LimitInv, ValuesOK, Running
  <2> HIDE DEF back
  <2>4. QED
    BY <1>5, <2>1, <2>2, <2>3 DEF StaysInv
<1>8. QED
  BY <1>6, <1>7

LEMMA ScheduleStays == LimitInv /\ StaysInv /\ TrySchedule => StaysInv' /\ lately \subseteq Running'
BY StartStays, PreemptStays DEF TrySchedule

LEMMA NextStays == LimitInv /\ StaysInv /\ [SchedNext]_schedVars => StaysInv'
<1> SUFFICES ASSUME LimitInv, StaysInv, [SchedNext]_schedVars PROVE StaysInv'
  OBVIOUS
<1>1. CASE UNCHANGED schedVars
  BY <1>1 DEF schedVars, StaysInv, Running
<1>2. CASE OtherCall
  BY <1>2 DEF OtherCall, StaysInv
<1>3. QED
  BY <1>1, <1>2, ScheduleStays DEF SchedNext, Enqueue, PreemptLowest, CompleteJob, FailJob

\* However often try_schedule is called, with no other call between, it stops
\* nothing it put to run: the strict order of the victim below the candidate, and
\* the candidate at the head of the queue, rule out that two jobs swap for ever.
THEOREM StartedStay == SchedSpec => StartedStays
<1>1. LimitInv /\ StaysInv /\ [SchedNext]_schedVars =>
        [TrySchedule => lately \subseteq Running']_schedVars
  BY ScheduleStays
<1>2. QED
  BY <1>1, InitLimits, NextLimits, InitStays, NextStays, PTL DEF SchedSpec, StartedStays

\* The allocator's accounts stay between zero and its limits and no more than
\* max_concurrent_jobs run, whatever sequence of calls a caller makes, clashing
\* ids included.
THEOREM LimitsHold == SchedSpec => []SchedTypeOK
<1>1. LimitInv /\ StaysInv => SchedTypeOK
  BY DEF LimitInv, ValuesOK, SlotsOK, StaysInv, Running, SchedTypeOK
<1>2. QED
  BY <1>1, InitLimits, NextLimits, InitStays, NextStays, PTL DEF SchedSpec

----------------------------------------------------------------------------
(* The accounts add up.                                                    *)

\* What the jobs of a map use; an account that covers it, and that equals it.
CpuUse(act, S) == [i \in S |-> act[i].cpu]
RamUse(act, S) == [i \in S |-> act[i].ram]

UseOf(act, S) == [cpu |-> Total(CpuUse(act, S), S), ram |-> Total(RamUse(act, S), S)]
Covers(used, act, S) == UseOf(act, S).cpu <= used.cpu /\ UseOf(act, S).ram <= used.ram

Accounted ==
  /\ Covers(allocated, activeJobs, Running)
  /\ ~clash => allocated = UseOf(activeJobs, Running)

\* A map of jobs as far as it is given, and an account.
JobMap(act, S) == IsFiniteSet(S) /\ \A i \in S : act[i] \in [priority : 0..255, cpu : Nat, ram : Nat]
Account == [cpu : Nat, ram : Nat]

\* A map that has another job for k, or a first one.
Replaces(act, after, S, k) ==
  /\ JobMap(act, S) /\ after[k] \in [priority : 0..255, cpu : Nat, ram : Nat]
  /\ \A i \in S \ {k} : after[i] = act[i]

(* The sums of Used are those of Covers: a sum over an operator is one over the
   function with its values. *)
LEMMA SumOfCpu ==
  ASSUME NEW act, NEW S, IsFiniteSet(S)
  PROVE  MapThenSumSet(LAMBDA i : act[i].cpu, S) = Total(CpuUse(act, S), S)
<1> DEFINE F == [i \in S |-> act[i].cpu]
           Rec(f) == f = [s \in SUBSET S |->
                            IF s = {} THEN 0
                            ELSE act[CHOOSE x \in s : TRUE].cpu + f[s \ {CHOOSE x \in s : TRUE}]]
           iter == CHOOSE f : Rec(f)
<1>1. ASSUME NEW s \in SUBSET S, s # {} PROVE act[CHOOSE x \in s : TRUE].cpu = F[First(s)]
  BY <1>1, FirstElement DEF First
<1>2. PICK g : Sums(g, F, S)
  BY SumsExist
<1>3. Rec(g)
  <2> HIDE DEF F
  <2> QED
    BY <1>1, <1>2 DEF Sums, First
<1>4. Rec(iter)
  BY <1>3, Zenon
<1>5. Sums(iter, F, S)
  <2> HIDE DEF F, iter
  <2> QED
    BY <1>1, <1>4 DEF Sums, First
<1>6. MapThenSumSet(LAMBDA i : act[i].cpu, S) = iter[S]
  BY Zenon DEF MapThenSumSet, MapThenFoldSet
<1>7. iter[S] = Total(F, S)
  <2> HIDE DEF F, iter
  <2> QED
    BY <1>5, SumsAreTotals
<1> QED
  BY <1>6, <1>7, Zenon DEF CpuUse

LEMMA SumOfRam ==
  ASSUME NEW act, NEW S, IsFiniteSet(S)
  PROVE  MapThenSumSet(LAMBDA i : act[i].ram, S) = Total(RamUse(act, S), S)
<1> DEFINE F == [i \in S |-> act[i].ram]
           Rec(f) == f = [s \in SUBSET S |->
                            IF s = {} THEN 0
                            ELSE act[CHOOSE x \in s : TRUE].ram + f[s \ {CHOOSE x \in s : TRUE}]]
           iter == CHOOSE f : Rec(f)
<1>1. ASSUME NEW s \in SUBSET S, s # {} PROVE act[CHOOSE x \in s : TRUE].ram = F[First(s)]
  BY <1>1, FirstElement DEF First
<1>2. PICK g : Sums(g, F, S)
  BY SumsExist
<1>3. Rec(g)
  <2> HIDE DEF F
  <2> QED
    BY <1>1, <1>2 DEF Sums, First
<1>4. Rec(iter)
  BY <1>3, Zenon
<1>5. Sums(iter, F, S)
  <2> HIDE DEF F, iter
  <2> QED
    BY <1>1, <1>4 DEF Sums, First
<1>6. MapThenSumSet(LAMBDA i : act[i].ram, S) = iter[S]
  BY Zenon DEF MapThenSumSet, MapThenFoldSet
<1>7. iter[S] = Total(F, S)
  <2> HIDE DEF F, iter
  <2> QED
    BY <1>5, SumsAreTotals
<1> QED
  BY <1>6, <1>7, Zenon DEF RamUse

LEMMA UsedAddsUp ==
  IsFiniteSet(Running) => Used = UseOf(activeJobs, Running)
BY SumOfCpu, SumOfRam DEF Used, UseOf, CpuOf, RamOf

LEMMA UsesSummable ==
  ASSUME NEW act, NEW S, JobMap(act, S)
  PROVE  /\ Summable(CpuUse(act, S), S) /\ \A i \in S : CpuUse(act, S)[i] \in Nat
         /\ Summable(RamUse(act, S), S) /\ \A i \in S : RamUse(act, S)[i] \in Nat
         /\ Total(CpuUse(act, S), S) \in Nat /\ Total(RamUse(act, S), S) \in Nat
<1>1. /\ Summable(CpuUse(act, S), S) /\ \A i \in S : CpuUse(act, S)[i] \in Nat
      /\ Summable(RamUse(act, S), S) /\ \A i \in S : RamUse(act, S)[i] \in Nat
  BY DEF JobMap, Summable, CpuUse, RamUse
<1>2. QED
  BY <1>1, TotalType

(* The sums with one job less, and with one more or another. *)
LEMMA UseWithout ==
  ASSUME NEW act, NEW S, JobMap(act, S), NEW v \in S, NEW after,
         \A i \in S \ {v} : after[i] = act[i]
  PROVE  UseOf(after, S \ {v})
           = [cpu |-> UseOf(act, S).cpu - act[v].cpu, ram |-> UseOf(act, S).ram - act[v].ram]
<1> DEFINE left == S \ {v}
<1>1. Total(CpuUse(after, left), left) = Total(CpuUse(act, S), S) - act[v].cpu
  <2> DEFINE F == CpuUse(act, S)
             H == CpuUse(after, left)
  <2>1. F[v] = act[v].cpu /\ \A i \in S \ {v} : H[i] = F[i]
    BY DEF CpuUse
  <2>2. Summable(F, S)
    BY UsesSummable
  <2> HIDE DEF F, H
  <2>3. QED
    BY <2>1, <2>2, TotalWithout DEF F, H
<1>2. Total(RamUse(after, left), left) = Total(RamUse(act, S), S) - act[v].ram
  <2> DEFINE F == RamUse(act, S)
             H == RamUse(after, left)
  <2>1. F[v] = act[v].ram /\ \A i \in S \ {v} : H[i] = F[i]
    BY DEF RamUse
  <2>2. Summable(F, S)
    BY UsesSummable
  <2> HIDE DEF F, H
  <2>3. QED
    BY <2>1, <2>2, TotalWithout DEF F, H
<1>3. QED
  BY <1>1, <1>2 DEF UseOf

LEMMA UseWith ==
  ASSUME NEW act, NEW S, NEW k, NEW after, Replaces(act, after, S, k)
  PROVE  UseOf(after, S \cup {k})
           = [cpu |-> UseOf(act, S).cpu + after[k].cpu - (IF k \in S THEN act[k].cpu ELSE 0),
              ram |-> UseOf(act, S).ram + after[k].ram - (IF k \in S THEN act[k].ram ELSE 0)]
<1> DEFINE more == S \cup {k}
<1>1. Total(CpuUse(after, more), more)
        = Total(CpuUse(act, S), S) + after[k].cpu - (IF k \in S THEN act[k].cpu ELSE 0)
  <2> DEFINE F == CpuUse(act, S)
             H == CpuUse(after, more)
  <2>1. H[k] = after[k].cpu /\ (k \in S => F[k] = act[k].cpu) /\ \A i \in S \ {k} : H[i] = F[i]
    BY DEF CpuUse, Replaces
  <2>2. Summable(F, S) /\ H[k] \in Int
    BY <2>1, UsesSummable DEF Replaces
  <2>3. Puts(F, H, S, k)
    BY <2>1, <2>2 DEF Puts
  <2> HIDE DEF F, H
  <2>4. Total(H, S \cup {k}) = Total(F, S) + H[k] - (IF k \in S THEN F[k] ELSE 0)
    BY <2>3, TotalWith
  <2>5. QED
    BY <2>1, <2>4 DEF F, H
<1>2. Total(RamUse(after, more), more)
        = Total(RamUse(act, S), S) + after[k].ram - (IF k \in S THEN act[k].ram ELSE 0)
  <2> DEFINE F == RamUse(act, S)
             H == RamUse(after, more)
  <2>1. H[k] = after[k].ram /\ (k \in S => F[k] = act[k].ram) /\ \A i \in S \ {k} : H[i] = F[i]
    BY DEF RamUse, Replaces
  <2>2. Summable(F, S) /\ H[k] \in Int
    BY <2>1, UsesSummable DEF Replaces
  <2>3. Puts(F, H, S, k)
    BY <2>1, <2>2 DEF Puts
  <2> HIDE DEF F, H
  <2>4. Total(H, S \cup {k}) = Total(F, S) + H[k] - (IF k \in S THEN F[k] ELSE 0)
    BY <2>3, TotalWith
  <2>5. QED
    BY <2>1, <2>4 DEF F, H
<1>3. QED
  BY <1>1, <1>2 DEF UseOf

(* Releasing a job that runs: the account has at least what it takes back, so the
   subtraction that stops at zero is exact. *)
LEMMA ReleaseCovers ==
  ASSUME NEW used \in Account, NEW act, NEW S, JobMap(act, S), Covers(used, act, S),
         NEW v \in S, NEW after, \A i \in S \ {v} : after[i] = act[i]
  PROVE  /\ Release(used, act[v]) \in Account
         /\ Covers(Release(used, act[v]), after, S \ {v})
         /\ used = UseOf(act, S) => Release(used, act[v]) = UseOf(after, S \ {v})
<1> DEFINE all == UseOf(act, S)
           rest == UseOf(after, S \ {v})
           job == act[v]
<1>1. job.cpu \in Nat /\ job.ram \in Nat /\ all \in Account
  BY UsesSummable DEF JobMap, UseOf, Account
<1>2. rest \in Account
  <2>1. JobMap(after, S \ {v})
    BY FS_Subset DEF JobMap
  <2>2. QED
    BY <2>1, UsesSummable DEF UseOf, Account
<1>3. rest = [cpu |-> all.cpu - job.cpu, ram |-> all.ram - job.ram]
  BY UseWithout
<1>4. all.cpu <= used.cpu /\ all.ram <= used.ram
  BY DEF Covers
<1> HIDE DEF all, rest, job
<1>5. all.cpu - job.cpu \in Nat /\ all.ram - job.ram \in Nat
  BY <1>2, <1>3 DEF Account
<1>6. Release(used, job) = [cpu |-> used.cpu - job.cpu, ram |-> used.ram - job.ram]
  BY <1>1, <1>4, <1>5 DEF Release, Less, Account
<1>7. Release(used, job) \in Account
  BY <1>1, <1>4, <1>5, <1>6 DEF Account
<1>8. rest.cpu <= Release(used, job).cpu /\ rest.ram <= Release(used, job).ram
  BY <1>1, <1>3, <1>4, <1>6 DEF Account
<1>9. used = all => Release(used, job) = rest
  BY <1>3, <1>6
<1>10. QED
  BY <1>7, <1>8, <1>9 DEF Covers, all, rest, job

(* Reserving for a job that is put into the map: where it replaces another of the
   same id, what that one had stays in the account. *)
LEMMA ReserveCovers ==
  ASSUME NEW used \in Account, NEW act, NEW S, Covers(used, act, S), NEW k, NEW after,
         Replaces(act, after, S, k)
  PROVE  /\ Covers(Reserve(used, after[k]), after, S \cup {k})
         /\ used = UseOf(act, S) /\ k \notin S
              => Reserve(used, after[k]) = UseOf(after, S \cup {k})
<1> DEFINE few == UseOf(act, S)
           more == UseOf(after, S \cup {k})
           job == after[k]
           oldCpu == IF k \in S THEN act[k].cpu ELSE 0
           oldRam == IF k \in S THEN act[k].ram ELSE 0
<1>1. job.cpu \in Nat /\ job.ram \in Nat /\ few \in Account
  BY UsesSummable DEF UseOf, Account, Replaces
<1>2. oldCpu \in Nat /\ oldRam \in Nat /\ (k \notin S => oldCpu = 0 /\ oldRam = 0)
  BY DEF JobMap, Replaces
<1>3. more = [cpu |-> few.cpu + job.cpu - oldCpu, ram |-> few.ram + job.ram - oldRam]
  BY UseWith
<1>4. few.cpu <= used.cpu /\ few.ram <= used.ram
  BY DEF Covers
<1> HIDE DEF few, more, job, oldCpu, oldRam
<1>5. more.cpu <= Reserve(used, job).cpu /\ more.ram <= Reserve(used, job).ram
  BY <1>1, <1>2, <1>3, <1>4 DEF Account, Reserve
<1>6. used = few /\ k \notin S => Reserve(used, job) = more
  BY <1>1, <1>2, <1>3 DEF Account, Reserve
<1>7. QED
  BY <1>5, <1>6 DEF Covers, few, more, job

LEMMA RunningJobs ==
  ASSUME LimitInv
  PROVE  JobMap(activeJobs, Running) /\ allocated \in Account
BY DemandOf, SchedulerAssumption DEF LimitInv, ValuesOK, SlotsOK, JobMap, Account

LEMMA InitAccounted == SchedInit => Accounted
<1> SUFFICES ASSUME SchedInit PROVE Accounted
  OBVIOUS
<1>1. Running = {} /\ allocated = [cpu |-> 0, ram |-> 0]
  BY DEF SchedInit, Running
<1>2. \A F : Total(F, {}) = 0
  BY TotalEmpty
<1>3. QED
  BY <1>1, <1>2 DEF Accounted, Covers, UseOf

LEMMA ScheduleAccounted ==
  ASSUME LimitInv, EachJobOnce, Accounted, TrySchedule
  PROVE  Accounted'
<1>1. clash' = clash
  BY DEF TrySchedule
<1>2. JobMap(activeJobs, Running) /\ allocated \in Account
  BY RunningJobs
<1>3. ASSUME NEW e \in jobQueue, StartJob(e) PROVE Accounted'
  <2>1. Running' = Running \cup {e.id}
    BY <1>3, StartRunning
  <2>2. allocated' = Reserve(allocated, e.job) /\ activeJobs' = [activeJobs EXCEPT ![e.id] = e.job]
    BY <1>3 DEF StartJob
  <2>3. e.id \in Ids /\ e.job \in [priority : 0..255, cpu : Nat, ram : Nat]
    BY DemandOf, SchedulerAssumption
  <2>4. activeJobs'[e.id] = e.job /\ \A i \in Running \ {e.id} : activeJobs'[i] = activeJobs[i]
    BY <2>2, <2>3 DEF LimitInv, ValuesOK, Running
  <2>5. ~clash => e.id \notin Running
    BY DEF EachJobOnce
  <2>6. Replaces(activeJobs, activeJobs', Running, e.id)
    BY <1>2, <2>3, <2>4 DEF Replaces
  <2>7. /\ Covers(Reserve(allocated, activeJobs'[e.id]), activeJobs', Running \cup {e.id})
        /\ allocated = UseOf(activeJobs, Running) /\ e.id \notin Running
             => Reserve(allocated, activeJobs'[e.id]) = UseOf(activeJobs', Running \cup {e.id})
    <3>1. Covers(allocated, activeJobs, Running)
      BY DEF Accounted
    <3> DEFINE used == allocated
               act == activeJobs
               after == activeJobs'
               all == Running
               k == e.id
    <3>2. used \in Account /\ Covers(used, act, all) /\ Replaces(act, after, all, k)
      BY <1>2, <2>6, <3>1
    <3>3. JobMap(act, all)
      BY <1>2
    <3> HIDE DEF used, act, after, all, k
    <3>4. /\ Covers(Reserve(used, after[k]), after, all \cup {k})
          /\ used = UseOf(act, all) /\ k \notin all
               => Reserve(used, after[k]) = UseOf(after, all \cup {k})
      BY <3>2, <3>3, ReserveCovers
    <3>5. QED
      BY <3>4 DEF used, act, after, all, k
  <2>8. QED
    BY <1>1, <2>1, <2>2, <2>4, <2>5, <2>7 DEF Accounted
<1>4. ASSUME NEW e \in jobQueue, NEW v \in Running, PreemptFor(e, v) PROVE Accounted'
  <2> DEFINE freed == Release(allocated, activeJobs[v])
             rest == Running \ {v}
             paused == Paused(v)
  <2>1. /\ paused \in [Ids -> Demands \cup {NoJob}]
        /\ \A i \in rest : paused[i] = activeJobs[i]
    BY DEF LimitInv, ValuesOK, Running, Paused
  <2>2. /\ freed \in Account /\ Covers(freed, paused, rest)
        /\ allocated = UseOf(activeJobs, Running) => freed = UseOf(paused, rest)
    BY <1>2, <2>1, ReleaseCovers DEF Accounted
  <2>3. CASE HasRoom(freed, e.job)
    <3>1. activeJobs' = [paused EXCEPT ![e.id] = e.job] /\ allocated' = Reserve(freed, e.job)
      BY <1>4, <2>3 DEF PreemptFor
    <3>2. Running' = rest \cup {e.id} /\ activeJobs'[e.id] = e.job
      BY <3>1, ReplacedRunning
    <3>3. e.id \in Ids /\ e.job \in [priority : 0..255, cpu : Nat, ram : Nat]
      BY DemandOf, SchedulerAssumption
    <3>4. JobMap(paused, rest)
      BY <1>2, <2>1, FS_Subset DEF JobMap
    <3> HIDE DEF paused, freed
    <3>5. \A i \in rest \ {e.id} : activeJobs'[i] = paused[i]
      BY <3>1, <2>1 DEF Running
    <3>6. ~clash => e.id \notin rest
      BY DEF EachJobOnce
    <3>7. /\ Covers(Reserve(freed, activeJobs'[e.id]), activeJobs', rest \cup {e.id})
          /\ freed = UseOf(paused, rest) /\ e.id \notin rest
               => Reserve(freed, activeJobs'[e.id]) = UseOf(activeJobs', rest \cup {e.id})
      <4>1. Replaces(paused, activeJobs', rest, e.id)
        BY <3>2, <3>3, <3>4, <3>5 DEF Replaces
      <4> HIDE DEF rest
      <4>2. QED
        BY <2>2, <4>1, ReserveCovers
    <3>8. QED
      BY <1>1, <2>2, <3>1, <3>2, <3>6, <3>7 DEF Accounted
  <2>4. CASE ~HasRoom(freed, e.job)
    <3>1. activeJobs' = paused /\ allocated' = freed
      BY <1>4, <2>4 DEF PreemptFor
    <3>2. Running' = rest
      BY <3>1, PausedRunning
    <3>3. QED
      BY <1>1, <2>2, <3>1, <3>2 DEF Accounted
  <2>5. QED
    BY <2>3, <2>4
<1>5. QED
  BY <1>3, <1>4 DEF TrySchedule

\* complete_job, fail_job and preempt_lowest_priority take one job out.
LEMMA PausedAccounted ==
  ASSUME LimitInv, Accounted, NEW v \in Running, activeJobs' = Paused(v),
         allocated' = Release(allocated, activeJobs[v]), clash' = clash
  PROVE  Accounted'
<1>1. JobMap(activeJobs, Running) /\ allocated \in Account
  BY RunningJobs
<1>2. Running' = Running \ {v}
  BY PausedRunning
<1>3. \A i \in Running \ {v} : activeJobs'[i] = activeJobs[i]
  BY DEF Paused, LimitInv, ValuesOK, Running
<1>4. /\ Covers(allocated', activeJobs', Running')
      /\ allocated = UseOf(activeJobs, Running) => allocated' = UseOf(activeJobs', Running')
  BY <1>1, <1>2, <1>3, ReleaseCovers DEF Accounted
<1>5. QED
  BY <1>4 DEF Accounted

LEMMA NextAccounted == LimitInv /\ EachJobOnce /\ Accounted /\ [SchedNext]_schedVars => Accounted'
<1> SUFFICES ASSUME LimitInv, EachJobOnce, Accounted, [SchedNext]_schedVars PROVE Accounted'
  OBVIOUS
<1>1. CASE UNCHANGED schedVars
  <2>1. Running' = Running /\ UNCHANGED <<activeJobs, allocated, clash>>
    BY <1>1 DEF schedVars, Running
  <2>2. QED
    BY <2>1 DEF Accounted
<1>2. ASSUME NEW i \in Ids, NEW job \in Demands, Enqueue(i, job) PROVE Accounted'
  <2>1. Running' = Running /\ UNCHANGED <<activeJobs, allocated>> /\ (~clash' => ~clash)
    BY <1>2 DEF Enqueue, Running
  <2>2. QED
    BY <2>1 DEF Accounted, Covers
<1>3. ASSUME NEW v \in Ids, PreemptLowest(v) \/ CompleteJob(v) PROVE Accounted'
  BY <1>3, PausedAccounted DEF PreemptLowest, CompleteJob, Paused
<1>4. QED
  BY <1>1, <1>2, <1>3, ScheduleAccounted DEF SchedNext, FailJob

\* The accounts cover what the running jobs use, for every set of demands, and are
\* exactly it as long as ids are unique, over any sequence of calls.
THEOREM AccountsHold == SchedSpec => []AccountsCover
<1>1. LimitInv /\ Accounted => AccountsCover
  BY UsedAddsUp DEF LimitInv, SlotsOK, Accounted, Covers, AccountsCover
<1>2. QED
  BY <1>1, InitLimits, NextLimits, InitOnce, NextOnce, InitAccounted, NextAccounted, PTL DEF SchedSpec

=============================================================================
