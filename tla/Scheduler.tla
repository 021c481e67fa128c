----------------------------- MODULE Scheduler -----------------------------
(***************************************************************************)
(* JobScheduler: a priority queue of jobs, the map of the running ones and *)
(* the accounting of what they use. A value with &mut self operations, so  *)
(* each operation is one step; what is hard is the sequence of them.       *)
(*                                                                         *)
(* Percentages and gigabytes are whole units here, so sums are exact (the  *)
(* f32 of the code tolerates one EPSILON), and the clock that breaks ties  *)
(* of priority does not stand still between two pushes.                    *)
(***************************************************************************)
EXTENDS Integers, FiniteSets, FiniteSetsExt

CONSTANTS
  Ids,            \* job ids a caller uses
  Demands,        \* what a job may ask for: priority, cpu, ram
  MaxCpu,         \* ResourceAllocator's limits
  MaxRam,
  MaxConcurrent,  \* max_concurrent_jobs
  MaxCalls,       \* bound: calls of enqueue, and of preempt_lowest_priority from outside
  NoJob           \* a model value: nothing runs under this id

ASSUME SchedulerAssumption ==
  /\ Demands \subseteq [priority : 0..255, cpu : Nat, ram : Nat]
  /\ MaxCpu \in Nat /\ MaxRam \in Nat /\ MaxConcurrent \in Nat /\ MaxCalls \in Nat
  /\ NoJob \notin Demands

VARIABLES
  activeJobs,  \* the demand of the running job of each id
  jobQueue,    \* the jobs that wait, with the time they were pushed
  allocated,   \* allocated_cpu and allocated_ram
  clock,       \* the clock of the pushes
  callsMade,   \* calls so far
  clash,       \* history: an id was enqueued while a job of that id was there
  lately       \* history: the ids try_schedule put to run since any other call

schedVars == <<activeJobs, jobQueue, allocated, clock, callsMade, clash, lately>>

Running == {i \in Ids : activeJobs[i] # NoJob}
Waiting == {e.id : e \in jobQueue}

SchedInit ==
  /\ activeJobs = [i \in Ids |-> NoJob]
  /\ jobQueue = {}
  /\ allocated = [cpu |-> 0, ram |-> 0]
  /\ clock = 0 /\ callsMade = 0 /\ clash = FALSE /\ lately = {}

Entry(i, job) == [id |-> i, at |-> clock, job |-> job]

\* Any call but try_schedule.
OtherCall == lately' = {}

CountCall == callsMade < MaxCalls /\ callsMade' = callsMade + 1

Enqueue(i, job) ==
  /\ CountCall /\ OtherCall
  /\ jobQueue' = jobQueue \cup {Entry(i, job)}
  /\ clock' = clock + 1
  /\ clash' = (clash \/ i \in Running \cup Waiting)
  /\ UNCHANGED <<activeJobs, allocated>>

----------------------------------------------------------------------------
(* The allocator.                                                          *)

HasRoom(used, job) == used.cpu + job.cpu <= MaxCpu /\ used.ram + job.ram <= MaxRam

Reserve(used, job) == [cpu |-> used.cpu + job.cpu, ram |-> used.ram + job.ram]

Less(x, y) == IF x >= y THEN x - y ELSE 0

Release(used, job) == [cpu |-> Less(used.cpu, job.cpu), ram |-> Less(used.ram, job.ram)]

----------------------------------------------------------------------------
(* The operations of the scheduler.                                        *)

HasSlot == Cardinality(Running) < MaxConcurrent

\* The heap's order: priority, then the time of the push.
Before(e, f) ==
  \/ e.job.priority > f.job.priority
  \/ e.job.priority = f.job.priority /\ e.at <= f.at

Candidate(e) == \A f \in jobQueue : Before(e, f)

\* The running jobs among which the order of the HashMap chooses the victim.
Lowest(v) == \A i \in Running : activeJobs[v].priority <= activeJobs[i].priority

Outranks_Anything(e, v) == e.job.priority >= 8
Outranks_OrEquals(e, v) == e.job.priority >= 8 /\ e.job.priority >= activeJobs[v].priority
Outranks(e, v) == e.job.priority >= 8 /\ e.job.priority > activeJobs[v].priority

StartJob_NoPop(e) ==
  /\ HasRoom(allocated, e.job)
  /\ activeJobs' = [activeJobs EXCEPT ![e.id] = e.job]
  /\ allocated' = Reserve(allocated, e.job)
  /\ UNCHANGED <<jobQueue, clock>>

StartJob(e) ==
  /\ HasRoom(allocated, e.job)
  /\ activeJobs' = [activeJobs EXCEPT ![e.id] = e.job]
  /\ jobQueue' = jobQueue \ {e}
  /\ allocated' = Reserve(allocated, e.job)
  /\ UNCHANGED clock

\* The victim is paused and queued again ...
Paused(v) == [activeJobs EXCEPT ![v] = NoJob]
Requeued_Dropped(v) == jobQueue
Requeued(v) == jobQueue \cup {Entry(v, activeJobs[v])}

\* ... and the candidate takes its place, if that is enough.
PreemptFor(e, v) ==
  /\ ~HasRoom(allocated, e.job) /\ Lowest(v) /\ Outranks(e, v)
  /\ clock' = clock + 1
  /\ LET freed == Release(allocated, activeJobs[v])
     IN \/ /\ HasRoom(freed, e.job)
           /\ activeJobs' = [Paused(v) EXCEPT ![e.id] = e.job]
           /\ jobQueue' = Requeued(v) \ {e}
           /\ allocated' = Reserve(freed, e.job)
        \/ /\ ~HasRoom(freed, e.job)
           /\ activeJobs' = Paused(v)
           /\ jobQueue' = Requeued(v)
           /\ allocated' = freed

TrySchedule ==
  /\ HasSlot
  /\ \E e \in jobQueue :
       Candidate(e) /\ (StartJob(e) \/ \E v \in Running : PreemptFor(e, v))
  /\ lately' = lately \cup (Running' \ Running)
  /\ UNCHANGED <<callsMade, clash>>

\* preempt_lowest_priority, called for its own sake.
PreemptLowest(v) ==
  /\ CountCall /\ OtherCall
  /\ v \in Running /\ Lowest(v)
  /\ activeJobs' = Paused(v)
  /\ jobQueue' = Requeued(v)
  /\ allocated' = Release(allocated, activeJobs[v])
  /\ clock' = clock + 1
  /\ UNCHANGED clash

CompleteJob(i) ==
  /\ i \in Running /\ OtherCall
  /\ activeJobs' = [activeJobs EXCEPT ![i] = NoJob]
  /\ allocated' = Release(allocated, activeJobs[i])
  /\ UNCHANGED <<jobQueue, clock, callsMade, clash>>

FailJob_NoRelease(i) ==
  /\ i \in Running /\ OtherCall
  /\ activeJobs' = [activeJobs EXCEPT ![i] = NoJob]
  /\ UNCHANGED <<allocated, jobQueue, clock, callsMade, clash>>

\* Differs from CompleteJob in the state of the record that is returned.
FailJob(i) == CompleteJob(i)

SchedNext ==
  \/ \E i \in Ids, job \in Demands : Enqueue(i, job)
  \/ TrySchedule
  \/ \E i \in Ids : PreemptLowest(i) \/ CompleteJob(i) \/ FailJob(i)

SchedSpec == SchedInit /\ [][SchedNext]_schedVars

----------------------------------------------------------------------------
(* Properties.                                                             *)

EntriesOK ==
  /\ jobQueue \subseteq [id : Ids, at : Nat, job : Demands]
  /\ \A e \in jobQueue : e.at < clock
  /\ \A e, f \in jobQueue : e.at = f.at => e = f

\* Types, the limits of the allocator and the ceiling of concurrent jobs.
SchedTypeOK ==
  /\ activeJobs \in [Ids -> Demands \cup {NoJob}]
  /\ allocated \in [cpu : 0..MaxCpu, ram : 0..MaxRam]
  /\ clock \in Nat /\ callsMade \in 0..MaxCalls /\ clash \in BOOLEAN /\ lately \subseteq Ids
  /\ EntriesOK
  /\ Cardinality(Running) <= MaxConcurrent

CpuOf(i) == activeJobs[i].cpu
RamOf(i) == activeJobs[i].ram
Used == [cpu |-> MapThenSumSet(CpuOf, Running), ram |-> MapThenSumSet(RamOf, Running)]

\* The accounts show what the running jobs use: exactly, as long as job ids are
\* unique ("Unique job identifier"), and never less, whatever the caller does. So
\* the running jobs never use more than there is, and nothing leaks.
AccountsCover ==
  /\ Used.cpu <= allocated.cpu /\ Used.ram <= allocated.ram
  /\ ~clash => allocated = Used

\* With unique ids a job is in one place: it waits once, or it runs.
EachJobOnce ==
  ~clash => \A e \in jobQueue :
              e.id \notin Running /\ \A f \in jobQueue : f.id = e.id => f = e

\* Nobody but complete_job and fail_job ends a job: one that is preempted, for a
\* candidate that fits or in vain, waits again.
OnlyFinishedLeave ==
  [][\A i \in Ids : i \in Running \cup Waiting =>
       i \in Running' \cup Waiting' \/ CompleteJob(i) \/ FailJob(i)]_schedVars

\* try_schedule starts no job while a more urgent one waits, and stops none for
\* a candidate that is not more urgent.
UrgentFirst ==
  [][TrySchedule =>
       /\ \A i \in Running' \ Running, e \in jobQueue' :
            e.job.priority <= activeJobs'[i].priority
       /\ \A i \in Running \ Running' : \E e \in jobQueue :
            e.job.priority > activeJobs[i].priority]_schedVars

\* Asking again takes nothing back: what try_schedule put to run, in preemptions
\* or not, runs until the caller makes another call, however often it is called
\* before that. Two jobs never take each other's place in turns.
StartedStays == [][TrySchedule => lately \subseteq Running']_schedVars

=============================================================================
