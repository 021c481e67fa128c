---------------------------- MODULE Checkpoints -----------------------------
(***************************************************************************)
(* CheckpointManager: training checkpoints of jobs, one file for each job  *)
(* and epoch, named <sanitized job id>_<epoch>.json. A job is recognised   *)
(* by the beginning of the name alone. A name is a sequence of characters, *)
(* an epoch number standing for its digits; ".json" is left out.           *)
(***************************************************************************)
EXTENDS Naturals, Sequences, FiniteSets, SequencesExt

CONSTANTS
  Jobs,             \* job ids: sequences of characters
  Epochs,           \* epoch numbers, each also a character
  Underscore,
  Unsafe,           \* the characters sanitize_id replaces
  Retention,        \* retention_secs of cleanup_old
  MaxNow,           \* bound: the clock
  MaxCkptFaults     \* bound: crashes and failed writes and removals

ASSUME CheckpointAssumption ==
  /\ \A job \in Jobs : job \in Seq(Range(job))
  /\ Epochs \subseteq Nat /\ Underscore \notin Epochs \cup Unsafe
  /\ Retention \in Nat /\ MaxNow \in Nat /\ MaxCkptFaults \in Nat

VARIABLES
  dir,         \* the directory: checkpoint, or Corrupted, by file name
  now,
  ckptFaults,
  kept         \* history: the checkpoints of each job saved since its last delete

ckptVars == <<dir, now, ckptFaults, kept>>

SanitizeId(id) == [i \in DOMAIN id |-> IF id[i] \in Unsafe THEN Underscore ELSE id[i]]
Prefix(job) == Append(SanitizeId(job), Underscore)
FileName(job, epoch) == Append(Prefix(job), epoch)

Checkpoint == [jobId : Jobs, epoch : Epochs, timestamp : 0..MaxNow]
Corrupted == [corrupted |-> TRUE]

CkptInit == dir = <<>> /\ now = 0 /\ ckptFaults = 0 /\ kept = [j \in Jobs |-> {}]

CkptFault == ckptFaults < MaxCkptFaults /\ ckptFaults' = ckptFaults + 1

With(name, content) ==
  [n \in DOMAIN dir \cup {name} |-> IF n = name THEN content ELSE dir[n]]
Without(names) == [n \in DOMAIN dir \ names |-> dir[n]]

\* save: std::fs::write replaces the file, or is cut short and leaves a part.
Save(job, epoch) ==
  LET checkpoint == [jobId |-> job, epoch |-> epoch, timestamp |-> now]
  IN /\ \/ /\ dir' = With(FileName(job, epoch), checkpoint)
           /\ kept' = [kept EXCEPT ![job] = {c \in @ : c.epoch # epoch} \cup {checkpoint}]
           /\ UNCHANGED ckptFaults
        \/ CkptFault /\ dir' = With(FileName(job, epoch), Corrupted) /\ UNCHANGED kept
     /\ UNCHANGED now

Candidates_Prefix(job) == {n \in DOMAIN dir : IsPrefix(Prefix(job), n)}

\* What find_latest takes for an epoch number: the rest of the name, if it is one.
Candidates(job) ==
  {n \in DOMAIN dir : \E epoch \in Epochs : n = Append(Prefix(job), epoch)}

FindLatest_Lowest(job) ==
  dir[CHOOSE n \in Candidates(job) : \A o \in Candidates(job) : Last(o) >= Last(n)]

\* find_latest: the candidate with the highest epoch, whatever is in it.
FindLatest(job) ==
  dir[CHOOSE n \in Candidates(job) : \A o \in Candidates(job) : Last(o) <= Last(n)]

\* delete_for_job stops at the first file it cannot remove, in directory order.
DeleteForJob(job) ==
  LET own == {n \in DOMAIN dir : IsPrefix(Prefix(job), n)}
  IN /\ \/ dir' = Without(own) /\ UNCHANGED ckptFaults
        \/ CkptFault /\ \E removed \in SUBSET own : removed # own /\ dir' = Without(removed)
     /\ kept' = [kept EXCEPT ![job] = {}]
     /\ UNCHANGED now

\* cleanup_old: by the timestamp in the file; what does not parse is kept.
CleanupOld ==
  /\ dir' = Without({n \in DOMAIN dir : dir[n] # Corrupted /\ now - dir[n].timestamp > Retention})
  /\ UNCHANGED <<now, ckptFaults, kept>>

Tick == now < MaxNow /\ now' = now + 1 /\ UNCHANGED <<dir, ckptFaults, kept>>

CkptNext ==
  \/ \E job \in Jobs : DeleteForJob(job) \/ \E epoch \in Epochs : Save(job, epoch)
  \/ CleanupOld
  \/ Tick

CkptSpec == CkptInit /\ [][CkptNext]_ckptVars

-----------------------------------------------------------------------------
(* Type invariant. *)
CkptTypeOK ==
  /\ \A n \in DOMAIN dir : dir[n] \in Checkpoint \cup {Corrupted}
  /\ DOMAIN dir \subseteq {FileName(j, e) : j \in Jobs, e \in Epochs}
  /\ now \in 0..MaxNow /\ ckptFaults \in 0..MaxCkptFaults
  /\ kept \in [Jobs -> SUBSET Checkpoint]

\* Jobs no other job's delete or save can hit.
Apart(job) ==
  \A other \in Jobs \ {job} :
    SanitizeId(other) # SanitizeId(job) /\ ~IsPrefix(Prefix(other), SanitizeId(job))

(* find_latest never returns another job's checkpoint, although names of one job
   begin like those of another: unless two ids are the same once sanitized. *)
LatestIsOwn ==
  \A job \in Jobs :
    Candidates(job) # {} /\ FindLatest(job) # Corrupted
      => SanitizeId(FindLatest(job).jobId) = SanitizeId(job)

(* A job resumes where it left off: whatever other jobs save and delete, and
   whatever cleanup_old removes, find_latest returns a checkpoint no earlier than
   any the job saved within the retention time, if no save or delete was cut
   short. Jobs whose id begins with another id and an underscore are excluded:
   the delete of the other job takes their checkpoints along. *)
ResumesFromLatest ==
  ckptFaults = 0 =>
    \A job \in Jobs : Apart(job) =>
      \A c \in kept[job] : now - c.timestamp <= Retention
        => Candidates(job) # {} /\ FindLatest(job).epoch >= c.epoch

=============================================================================
