------------------------- MODULE SubmissionProofs -------------------------
(***************************************************************************)
(* Proofs about Submission for every number of epochs, processes,          *)
(* invocations and updates, and every Environment.                         *)
(***************************************************************************)
EXTENDS Submission, FiniteSetTheorems, TLAPS

----------------------------------------------------------------------------
(* Types.                                                                  *)

LEMMA InitTypes == Init => Types
<1> SUFFICES ASSUME Init PROVE Types
  OBVIOUS
<1> USE ConstantsAssumption
<1>1. CoordinatorOK
  BY DEF Init, CoordinatorOK, Epoch, Nothing
<1>2. FilesOK
  BY DEF Init, FilesOK, Epoch, Nothing
<1>3. ProcsOK
  BY DEF Init, ProcsOK, ProcType, Idle, Places, WithUpdate, WithEpoch, First
<1>4. RequestsOK
  BY DEF Init, RequestsOK, RequestType, NoRequest
<1>5. QED
  BY <1>1, <1>2, <1>3, <1>4 DEF Types

\* What a process may be at.
GoodProc(x) ==
  /\ x \in ProcType
  /\ x.pc \in WithEpoch => x.epoch # Nothing
  /\ x.pc \in WithUpdate => x.update # Nothing
  /\ x.pc = "upload" => x.bytes # Nothing

LEMMA MoveProcs ==
  ASSUME ProcsOK, NEW p \in Procs, NEW next, GoodProc(next), Move(p, next)
  PROVE  ProcsOK'
BY DEF ProcsOK, Move, GoodProc

\* Nobody waits for a process elsewhere, so it can go where it likes.
LEMMA MoveRequests ==
  ASSUME ProcsOK, RequestsOK, NEW p \in Procs, NEW next, Move(p, next),
         proc[p].pc # "wait", UNCHANGED req
  PROVE  RequestsOK'
BY DEF ProcsOK, RequestsOK, Move

LEMMA GoToProc ==
  ASSUME ProcsOK, NEW p \in Procs, NEW pc \in Places
  PROVE  /\ GoTo(p, pc) \in ProcType
         /\ GoTo(p, pc).pc = pc
         /\ GoTo(p, pc).epoch = proc[p].epoch
         /\ GoTo(p, pc).update = proc[p].update
         /\ GoTo(p, pc).bytes = proc[p].bytes
BY DEF ProcsOK, ProcType, GoTo

\* A command begins without an epoch or an update, and so does what follows it.
LEMMA BeginProc ==
  ASSUME NEW cmd \in DOMAIN First, NEW as \in DOMAIN First
  PROVE  /\ GoodProc(Begin(cmd, as))
         /\ Begin(cmd, as).pc \in {"check", "query", "load", "readMeta"}
         /\ Begin(cmd, as).pc \notin WithEpoch
<1>1. First[cmd] \in {"check", "query", "load", "readMeta"}
  <2>1. DOMAIN First = {"run", "download", "train", "submit"}
    BY DEF First
  <2>2. CASE cmd = "run"
    BY <2>2 DEF First
  <2>3. CASE cmd = "download"
    BY <2>3 DEF First
  <2>4. CASE cmd = "train"
    BY <2>4 DEF First
  <2>5. CASE cmd = "submit"
    BY <2>5 DEF First
  <2>6. QED
    BY <2>1, <2>2, <2>3, <2>4, <2>5
<1>2. Begin(cmd, as) \in ProcType
  BY <1>1 DEF Begin, ProcType, Places
<1>3. Begin(cmd, as).pc = First[cmd]
  BY DEF Begin
<1>4. QED
  BY <1>1, <1>2, <1>3 DEF GoodProc, WithEpoch, WithUpdate

LEMMA AfterProc ==
  ASSUME NEW p, NEW stage
  PROVE  /\ GoodProc(After(p, stage))
         /\ After(p, stage).pc \in {"idle", "load", "readMeta"}
         /\ After(p, stage).pc \notin WithEpoch
<1>1. GoodProc(Idle) /\ Idle.pc = "idle"
  BY DEF Idle, GoodProc, ProcType, Places, First, WithEpoch, WithUpdate
<1>2. GoodProc(Begin("train", "run")) /\ Begin("train", "run").pc = "load"
  BY BeginProc DEF First, Begin, Idle
<1>3. GoodProc(Begin("submit", "run")) /\ Begin("submit", "run").pc = "readMeta"
  BY BeginProc DEF First, Begin, Idle
<1>4. After(p, stage) \in {Idle, Begin("train", "run"), Begin("submit", "run")}
  BY DEF After
<1>5. QED
  BY <1>1, <1>2, <1>3, <1>4 DEF WithEpoch, WithUpdate

\* Who moves while nobody waits for it keeps processes and requests in order.
LEMMA ProcessMoves ==
  ASSUME ProcsOK, RequestsOK, NEW p \in Procs, NEW next, GoodProc(next), Move(p, next),
         proc[p].pc # "wait", UNCHANGED req
  PROVE  ProcsOK' /\ RequestsOK'
BY MoveProcs, MoveRequests

\* Files and coordinator as they are, a process moves.
LEMMA QuietTypes ==
  ASSUME Types, NEW p \in Procs, NEW next, GoodProc(next), Move(p, next),
         proc[p].pc # "wait", Quiet
  PROVE  Types'
<1>1. ProcsOK' /\ RequestsOK'
  BY ProcessMoves DEF Types, Quiet, requests
<1>2. CoordinatorOK'
  BY DEF Types, Quiet, CoordinatorOK, epochs, requests, uploads
<1>3. FilesOK'
  BY DEF Types, Quiet, FilesOK, files
<1>4. QED
  BY <1>1, <1>2, <1>3 DEF Types

LEMMA StartTypes ==
  ASSUME Types, NEW p \in Procs, NEW cmd \in DOMAIN First, Start(p, cmd)
  PROVE  Types'
<1>1. GoodProc(Begin(cmd, cmd)) /\ Move(p, Begin(cmd, cmd)) /\ proc[p].pc # "wait"
  BY BeginProc DEF Start, At
<1>2. ProcsOK' /\ RequestsOK'
  BY <1>1, ProcessMoves DEF Types, Start
<1>3. faults' \in 0..MaxFaults
  BY ConstantsAssumption DEF Start, Fault, Types, CoordinatorOK
<1>4. CoordinatorOK'
  BY <1>3 DEF Types, Start, CoordinatorOK, epochs, uploads
<1>5. FilesOK'
  BY DEF Types, Start, FilesOK, files
<1>6. QED
  BY <1>2, <1>4, <1>5 DEF Types

\* A process that goes on with the epoch it has.
LEMMA GoOn ==
  ASSUME ProcsOK, NEW p \in Procs, NEW pc \in Places,
         pc \in WithEpoch => proc[p].epoch # Nothing,
         pc \in WithUpdate => proc[p].update # Nothing,
         pc # "upload"
  PROVE  GoodProc(GoTo(p, pc))
BY GoToProc DEF GoodProc

\* A process that takes an epoch from somewhere.
LEMMA TakeEpoch ==
  ASSUME ProcsOK, NEW p \in Procs, NEW pc \in Places, NEW e \in Epoch,
         pc \notin WithUpdate
  PROVE  GoodProc([GoTo(p, pc) EXCEPT !.epoch = e])
<1>1. /\ [GoTo(p, pc) EXCEPT !.epoch = e] \in ProcType
      /\ [GoTo(p, pc) EXCEPT !.epoch = e].pc = pc
      /\ [GoTo(p, pc) EXCEPT !.epoch = e].epoch = e
  BY GoToProc DEF ProcType
<1>2. e # Nothing
  BY ConstantsAssumption DEF Epoch, Nothing
<1>3. QED
  BY <1>1, <1>2 DEF GoodProc, WithUpdate

LEMMA ActiveEpoch == CoordinatorOK /\ active # Nothing => active \in Epoch
BY ConstantsAssumption DEF CoordinatorOK, Epoch, Nothing

LEMMA DownloadTypes ==
  ASSUME Types, NEW p \in Procs,
         Check(p) \/ Ready(p) \/ Query(p) \/ Fetch(p) \/ SaveEpoch(p)
  PROVE  Types'
<1> USE DEF Types
<1>1. GoodProc(Idle)
  BY DEF Idle, GoodProc, ProcType, Places, First, WithEpoch, WithUpdate
<1>2. CASE Check(p)
  <2> DEFINE next == IF active = Nothing THEN Idle ELSE [GoTo(p, "ready") EXCEPT !.epoch = active]
  <2>1. GoodProc(next)
    BY <1>1, ActiveEpoch, TakeEpoch DEF Places, WithUpdate
  <2>2. QED
    BY <1>2, <2>1, QuietTypes DEF Check, At
<1>3. CASE Ready(p)
  <2>1. GoodProc(Begin("download", "run"))
    BY BeginProc DEF First
  <2>2. QED
    BY <1>1, <1>3, <2>1, QuietTypes DEF Ready, At
<1>4. CASE Query(p)
  <2> DEFINE next == IF active = Nothing THEN After(p, "download")
                     ELSE [GoTo(p, "fetch") EXCEPT !.epoch = active]
  <2>1. GoodProc(next)
    BY AfterProc, ActiveEpoch, TakeEpoch DEF Places, WithUpdate
  <2>2. QED
    BY <1>4, <2>1, QuietTypes DEF Query, At
<1>5. CASE Fetch(p)
  <2>1. proc[p].epoch \in Epoch
    BY <1>5 DEF Fetch, At, ProcsOK, ProcType, WithEpoch
  <2>2. GoodProc(GoTo(p, "saveEpoch"))
    BY <1>5, GoOn DEF Fetch, At, ProcsOK, Places, WithEpoch, WithUpdate
  <2>3. ProcsOK' /\ RequestsOK'
    BY <1>5, <2>2, ProcessMoves DEF Fetch, At, requests
  <2>4. CoordinatorOK'
    BY <1>5 DEF Fetch, CoordinatorOK, epochs, requests, uploads
  <2>5. FilesOK'
    BY <1>5, <2>1 DEF Fetch, FilesOK
  <2>6. QED
    BY <2>3, <2>4, <2>5
<1>6. CASE SaveEpoch(p)
  <2>1. proc[p].epoch \in Epoch
    BY <1>6 DEF SaveEpoch, At, ProcsOK, ProcType, WithEpoch
  <2>2. ProcsOK' /\ RequestsOK'
    BY <1>6, AfterProc, ProcessMoves DEF SaveEpoch, At, requests
  <2>3. CoordinatorOK'
    BY <1>6 DEF SaveEpoch, CoordinatorOK, epochs, requests, uploads
  <2>4. FilesOK'
    BY <1>6, <2>1 DEF SaveEpoch, FilesOK
  <2>5. QED
    BY <2>2, <2>3, <2>4
<1>7. QED
  BY <1>2, <1>3, <1>4, <1>5, <1>6

LEMMA TrainTypes ==
  ASSUME Types, NEW p \in Procs,
         LoadEpoch(p) \/ Train(p) \/ SaveBin(p) \/ SaveMeta(p)
  PROVE  Types'
<1> USE DEF Types
<1>1. CASE LoadEpoch(p)
  <2> DEFINE next == IF epochFile \in modelFiles THEN [GoTo(p, "train") EXCEPT !.epoch = epochFile]
                     ELSE After(p, "train")
  <2>1. GoodProc(next)
    BY AfterProc, TakeEpoch DEF Places, WithUpdate, FilesOK
  <2>2. QED
    BY <1>1, <2>1, QuietTypes DEF LoadEpoch, At
<1>2. CASE Train(p)
  <2> DEFINE u == CHOOSE v \in Update : v \in Fresh
             next == [GoTo(p, "saveBin") EXCEPT !.update = u]
  <2>1. u \in Update
    BY <1>2 DEF Train, Fresh
  <2>2. proc[p].epoch \in Epoch
    BY <1>2 DEF Train, At, ProcsOK, ProcType, WithEpoch
  <2> HIDE DEF u
  <2>3. next \in ProcType /\ next.pc = "saveBin" /\ next.epoch = proc[p].epoch /\ next.update = u
    BY <2>1, GoToProc DEF ProcType, Places
  <2>4. u # Nothing /\ proc[p].epoch # Nothing
    BY <2>1, <2>2, ConstantsAssumption DEF Epoch, Nothing
  <2>5. GoodProc(next)
    BY <2>3, <2>4 DEF GoodProc
  <2>6. Move(p, next) /\ trainedOn' = [trainedOn EXCEPT ![u] = proc[p].epoch]
    BY <1>2 DEF Train, u
  <2>7. ProcsOK' /\ RequestsOK'
    BY <1>2, <2>5, <2>6, ProcessMoves DEF Train, At, requests
  <2>8. CoordinatorOK'
    BY <1>2 DEF Train, CoordinatorOK, epochs, requests, uploads
  <2>9. FilesOK'
    BY <1>2, <2>1, <2>2, <2>6 DEF Train, FilesOK, files
  <2>10. QED
    BY <2>7, <2>8, <2>9
<1>3. CASE SaveBin(p)
  <2>1. GoodProc(GoTo(p, "saveMeta"))
    BY <1>3, GoOn DEF SaveBin, At, ProcsOK, Places, WithEpoch, WithUpdate
  <2>2. ProcsOK' /\ RequestsOK'
    BY <1>3, <2>1, ProcessMoves DEF SaveBin, At, requests
  <2>3. CoordinatorOK'
    BY <1>3 DEF SaveBin, CoordinatorOK, epochs, requests, uploads
  <2>4. FilesOK'
    BY <1>3 DEF SaveBin, FilesOK, ProcsOK, ProcType
  <2>5. QED
    BY <2>2, <2>3, <2>4
<1>4. CASE SaveMeta(p)
  <2>1. ProcsOK' /\ RequestsOK'
    BY <1>4, AfterProc, ProcessMoves DEF SaveMeta, At, requests
  <2>2. CoordinatorOK'
    BY <1>4 DEF SaveMeta, CoordinatorOK, epochs, requests, uploads
  <2>3. proc[p].epoch \in Epoch /\ proc[p].update \in Update /\ proc[p].update # Nothing
    BY <1>4 DEF SaveMeta, At, ProcsOK, ProcType, WithEpoch, WithUpdate
  <2>4. FilesOK'
    BY <1>4, <2>3 DEF SaveMeta, FilesOK
  <2>5. QED
    BY <2>1, <2>2, <2>4
<1>5. QED
  BY <1>1, <1>2, <1>3, <1>4

LEMMA SubmitTypes ==
  ASSUME Types, NEW p \in Procs,
         ReadMeta(p) \/ ReadBin(p) \/ Upload(p) \/ SaveState(p)
  PROVE  Types'
<1> USE DEF Types
<1>1. CASE ReadMeta(p)
  <2> DEFINE taken == [GoTo(p, "readBin") EXCEPT !.epoch = updateMeta.epoch,
                                                 !.update = updateMeta.hash]
             next == IF updateMeta.epoch = Nothing THEN After(p, "submit") ELSE taken
  <2>1. taken \in ProcType /\ taken.pc = "readBin" /\ taken.epoch = updateMeta.epoch
          /\ taken.update = updateMeta.hash
    <3> DEFINE half == [GoTo(p, "readBin") EXCEPT !.epoch = updateMeta.epoch]
    <3>1. half \in ProcType /\ half.pc = "readBin" /\ half.epoch = updateMeta.epoch
      BY GoToProc DEF ProcType, Places, FilesOK
    <3>2. taken = [half EXCEPT !.update = updateMeta.hash]
      OBVIOUS
    <3> HIDE DEF half, taken
    <3>3. QED
      BY <3>1, <3>2 DEF ProcType, FilesOK
  <2>2. updateMeta.epoch # Nothing => GoodProc(taken)
    BY <2>1 DEF GoodProc, FilesOK
  <2>3. GoodProc(next)
    BY <2>2, AfterProc
  <2> HIDE DEF taken
  <2>4. Move(p, next)
    BY <1>1 DEF ReadMeta, taken
  <2>5. QED
    BY <1>1, <2>3, <2>4, QuietTypes DEF ReadMeta, At
<1>2. CASE ReadBin(p)
  <2> DEFINE taken == [GoTo(p, "upload") EXCEPT !.bytes = updateBin]
             next == IF updateBin = Nothing THEN After(p, "submit") ELSE taken
  <2>1. taken \in ProcType /\ taken.pc = "upload" /\ taken.epoch = proc[p].epoch
          /\ taken.update = proc[p].update /\ taken.bytes = updateBin
    BY GoToProc DEF ProcType, Places, FilesOK
  <2>2. updateBin # Nothing => GoodProc(taken)
    BY <1>2, <2>1 DEF GoodProc, ReadBin, At, ProcsOK, WithEpoch, WithUpdate
  <2>3. GoodProc(next)
    BY <2>2, AfterProc
  <2> HIDE DEF taken
  <2>4. Move(p, next)
    BY <1>2 DEF ReadBin, taken
  <2>5. QED
    BY <1>2, <2>3, <2>4, QuietTypes DEF ReadBin, At
<1>3. CASE Upload(p)
  <2> DEFINE next == [GoTo(p, "notify") EXCEPT !.bytes = Nothing]
  <2>1. next \in ProcType /\ next.pc = "notify" /\ next.epoch = proc[p].epoch
          /\ next.update = proc[p].update
    BY GoToProc DEF ProcType, Places
  <2>2. GoodProc(next)
    BY <1>3, <2>1 DEF GoodProc, Upload, At, ProcsOK, WithEpoch, WithUpdate
  <2>3. ProcsOK' /\ RequestsOK'
    BY <1>3, <2>2, ProcessMoves DEF Upload, At, requests
  <2>4. proc[p].epoch \in Epoch /\ proc[p].bytes \in Update
    BY <1>3 DEF Upload, At, ProcsOK, ProcType, WithEpoch, WithUpdate
  <2>5. CoordinatorOK'
    BY <1>3, <2>4 DEF Upload, CoordinatorOK, epochs, requests
  <2>6. FilesOK'
    BY <1>3 DEF Upload, FilesOK, files
  <2>7. QED
    BY <2>3, <2>5, <2>6
<1>4. CASE SaveState(p)
  <2>1. ProcsOK' /\ RequestsOK'
    BY <1>4, AfterProc, ProcessMoves DEF SaveState, At, requests
  <2>2. faults' \in 0..MaxFaults
    BY <1>4, ConstantsAssumption DEF SaveState, Fault, CoordinatorOK
  <2>3. CoordinatorOK'
    BY <1>4, <2>2 DEF SaveState, CoordinatorOK, epochs, requests, uploads
  <2>4. FilesOK'
    BY <1>4 DEF SaveState, FilesOK, ProcsOK, ProcType
  <2>5. QED
    BY <2>1, <2>3, <2>4
<1>5. QED
  BY <1>1, <1>2, <1>3, <1>4

LEMMA NotifyTypes ==
  ASSUME Types, NEW p \in Procs, NEW r \in Requests, Notify(p, r)
  PROVE  Types'
<1> USE DEF Types
<1> DEFINE call == [pc |-> "dup", epoch |-> proc[p].epoch, hash |-> proc[p].update, from |-> p]
<1>1. /\ proc[p].pc = "notify" /\ req[r].pc = "idle" /\ req' = [req EXCEPT ![r] = call]
      /\ Move(p, GoTo(p, "wait"))
  BY DEF Notify, At
<1>2. /\ proc[p].epoch \in Epoch /\ proc[p].epoch # Nothing
      /\ proc[p].update \in Update /\ proc[p].update # Nothing
  BY <1>1 DEF ProcsOK, ProcType, WithEpoch, WithUpdate
<1>3. GoodProc(GoTo(p, "wait"))
  BY <1>2, GoOn DEF Places
<1>4. ProcsOK'
  BY <1>1, <1>3, MoveProcs
<1>5. /\ proc'[p].pc = "wait" /\ proc'[p].epoch = proc[p].epoch
      /\ \A q \in Procs : q # p => proc'[q] = proc[q]
  BY <1>1, GoToProc DEF ProcsOK, Move, Places
<1>6. /\ call \in RequestType /\ call.pc = "dup" /\ call.epoch = proc[p].epoch
      /\ call.hash = proc[p].update /\ call.from = p
  BY <1>2 DEF RequestType
<1> HIDE DEF call
<1>7. req' \in [Requests -> RequestType]
  BY <1>1, <1>6 DEF RequestsOK
<1>8. \A q \in Requests : q # r => req'[q] = req[q] /\ req[q].from # p
  BY <1>1, ConstantsAssumption DEF RequestsOK
<1>9. req'[r] = call
  BY <1>1 DEF RequestsOK
<1>10. ASSUME NEW q \in Requests
       PROVE  /\ req'[q].pc # "idle" => req'[q].epoch # Nothing /\ req'[q].hash # Nothing
              /\ req'[q].from # None =>
                   /\ req'[q].pc # "idle"
                   /\ proc'[req'[q].from].pc = "wait"
                   /\ proc'[req'[q].from].epoch = req'[q].epoch
                   /\ \A x \in Requests : req'[x].from = req'[q].from => x = q
  <2>1. CASE q = r
    BY <1>2, <1>5, <1>6, <1>8, <1>9, <2>1
  <2>2. CASE q # r
    <3>1. req'[q] = req[q] /\ req[q].from # p
      BY <1>8, <2>2
    <3>2. req[q].from # None => req[q].from \in Procs
      BY DEF RequestsOK, RequestType
    <3>3. req[q].from # None => proc'[req[q].from] = proc[req[q].from]
      BY <1>5, <3>1, <3>2
    <3>4. \A x \in Requests : req[q].from # None /\ req'[x].from = req'[q].from => x = q
      BY <1>6, <1>8, <1>9, <3>1 DEF RequestsOK
    <3>5. QED
      BY <3>1, <3>3, <3>4 DEF RequestsOK
  <2>3. QED
    BY <2>1, <2>2
<1>11. RequestsOK'
  BY <1>7, <1>10 DEF RequestsOK
<1>12. CoordinatorOK'
  BY DEF Notify, CoordinatorOK, epochs, uploads
<1>13. FilesOK'
  BY DEF Notify, FilesOK, files
<1>14. QED
  BY <1>4, <1>11, <1>12, <1>13

\* A process that leaves, and that no invocation remembers.
LEMMA ForgetTypes ==
  ASSUME ProcsOK, RequestsOK, NEW p \in Procs, NEW next, GoodProc(next), Move(p, next),
         req' = Forget(p)
  PROVE  ProcsOK' /\ RequestsOK'
<1>1. ProcsOK'
  BY MoveProcs
<1>2. \A q \in Procs : q # p => proc'[q] = proc[q]
  BY DEF ProcsOK, Move
<1>3. ASSUME NEW r \in Requests
      PROVE  /\ req'[r] \in RequestType
             /\ req'[r].pc = req[r].pc /\ req'[r].epoch = req[r].epoch
             /\ req'[r].hash = req[r].hash
             /\ req'[r].from = IF req[r].from = p THEN None ELSE req[r].from
  BY DEF Forget, RequestsOK, RequestType
<1>4. req' \in [Requests -> RequestType]
  BY <1>3 DEF Forget
<1>5. ASSUME NEW r \in Requests, req'[r].from # None
      PROVE  /\ req'[r].pc # "idle"
             /\ proc'[req'[r].from].pc = "wait"
             /\ proc'[req'[r].from].epoch = req'[r].epoch
             /\ \A q \in Requests : req'[q].from = req'[r].from => q = r
  <2>1. req'[r].from = req[r].from /\ req[r].from # p /\ req[r].from # None
    BY <1>3, <1>5
  <2>2. req[r].from \in Procs
    BY <2>1 DEF RequestsOK, RequestType
  <2>3. proc'[req[r].from] = proc[req[r].from]
    BY <1>2, <2>1, <2>2
  <2>4. QED
    BY <1>3, <2>1, <2>3 DEF RequestsOK
<1>6. RequestsOK'
  BY <1>3, <1>4, <1>5 DEF RequestsOK
<1>7. QED
  BY <1>1, <1>6

LEMMA ClientFaultTypes ==
  ASSUME Types, NEW p \in Procs,
         UploadGivenUp(p) \/ NotifyGivenUp(p) \/ ClientError(p) \/ ClientCrash(p)
  PROVE  Types'
<1> USE DEF Types
<1>1. faults' \in 0..MaxFaults
  BY ConstantsAssumption
     DEF UploadGivenUp, NotifyGivenUp, ClientError, ClientCrash, Fault, CoordinatorOK
<1>2. FilesOK'
  BY DEF UploadGivenUp, NotifyGivenUp, ClientError, ClientCrash, FilesOK, files
<1>3. CASE UploadGivenUp(p)
  <2>1. ProcsOK' /\ RequestsOK'
    BY <1>3, AfterProc, ProcessMoves DEF UploadGivenUp, At, requests
  <2>2. [epoch |-> proc[p].epoch, update |-> proc[p].bytes] \in [epoch : Epoch, update : Update]
    BY <1>3 DEF UploadGivenUp, At, ProcsOK, ProcType, WithEpoch, WithUpdate
  <2>3. CoordinatorOK'
    BY <1>1, <1>3, <2>2 DEF UploadGivenUp, CoordinatorOK, epochs, requests
  <2>4. QED
    BY <1>2, <2>1, <2>3
<1>4. CASE NotifyGivenUp(p)
  <2>1. ProcsOK' /\ RequestsOK'
    BY <1>4, AfterProc, ForgetTypes DEF NotifyGivenUp
  <2>2. CoordinatorOK'
    BY <1>1, <1>4 DEF NotifyGivenUp, CoordinatorOK, epochs, uploads
  <2>3. QED
    BY <1>2, <2>1, <2>2
<1>5. CASE ClientError(p)
  <2>1. ProcsOK' /\ RequestsOK'
    BY <1>5, AfterProc, ProcessMoves DEF ClientError, requests
  <2>2. CoordinatorOK'
    BY <1>1, <1>5 DEF ClientError, CoordinatorOK, epochs, requests, uploads
  <2>3. QED
    BY <1>2, <2>1, <2>2
<1>6. CASE ClientCrash(p)
  <2>1. GoodProc(Idle)
    BY DEF Idle, GoodProc, ProcType, Places, First, WithEpoch, WithUpdate
  <2>2. ProcsOK' /\ RequestsOK'
    BY <1>6, <2>1, ForgetTypes DEF ClientCrash
  <2>3. CoordinatorOK'
    BY <1>1, <1>6 DEF ClientCrash, CoordinatorOK, epochs, uploads
  <2>4. QED
    BY <1>2, <2>2, <2>3
<1>7. QED
  BY <1>3, <1>4, <1>5, <1>6

----------------------------------------------------------------------------
(* Types: update_complete, the epochs and late uploads.                    *)

\* An answer takes its caller, if it still waits, out of the invocation.
LEMMA ReplyTypes ==
  ASSUME ProcsOK, RequestsOK, NEW r \in Requests, NEW ok \in BOOLEAN,
         req[r].pc # "idle", Reply(r, ok)
  PROVE  ProcsOK' /\ RequestsOK'
<1>1. NoRequest \in RequestType /\ NoRequest.pc = "idle" /\ NoRequest.from = None
  BY DEF NoRequest, RequestType
<1>2. req' = [req EXCEPT ![r] = NoRequest]
  BY DEF Reply
<1> HIDE DEF NoRequest
<1>3. req' \in [Requests -> RequestType] /\ req'[r] = NoRequest
  BY <1>1, <1>2 DEF RequestsOK
<1>4. \A q \in Requests : q # r => req'[q] = req[q]
  BY <1>2 DEF RequestsOK
<1>5. CASE req[r].from = None
  <2>1. UNCHANGED proc
    BY <1>5 DEF Reply
  <2>2. ProcsOK'
    BY <2>1 DEF ProcsOK
  <2>3. RequestsOK'
    BY <1>1, <1>3, <1>4, <2>1 DEF RequestsOK
  <2>4. QED
    BY <2>2, <2>3
<1>6. CASE req[r].from # None
  <2> DEFINE p == req[r].from
             next == IF ok THEN GoTo(p, "saveState") ELSE After(p, "submit")
  <2>1. p \in Procs /\ Move(p, next)
    BY <1>6 DEF Reply, RequestsOK, RequestType
  <2>2. proc[p].pc = "wait"
    BY <1>6 DEF RequestsOK
  <2>3. GoodProc(GoTo(p, "saveState"))
    BY <2>1, <2>2, GoOn DEF ProcsOK, Places, WithEpoch, WithUpdate
  <2>4. GoodProc(next)
    BY <2>3, AfterProc
  <2>5. \A q \in Requests : q # r => req[q].from # p
    BY <1>6 DEF RequestsOK
  <2> HIDE DEF next, p
  <2>6. ProcsOK'
    BY <2>1, <2>4, MoveProcs
  <2>7. \A x \in Procs : x # p => proc'[x] = proc[x]
    BY <2>1 DEF ProcsOK, Move
  <2>8. ASSUME NEW q \in Requests, req'[q].from # None
        PROVE  /\ req'[q].pc # "idle"
               /\ proc'[req'[q].from].pc = "wait"
               /\ proc'[req'[q].from].epoch = req'[q].epoch
               /\ \A x \in Requests : req'[x].from = req'[q].from => x = q
    <3>1. q # r /\ req'[q] = req[q] /\ req[q].from # p
      BY <1>1, <1>3, <1>4, <2>5, <2>8
    <3>2. req[q].from \in Procs /\ req[q].from # None
      BY <2>8, <3>1 DEF RequestsOK, RequestType
    <3>3. proc'[req[q].from] = proc[req[q].from]
      BY <2>7, <3>1, <3>2
    <3>4. \A x \in Requests : req'[x].from = req[q].from => x = q
      BY <1>1, <1>3, <1>4, <3>2 DEF RequestsOK
    <3>5. QED
      BY <3>1, <3>2, <3>3, <3>4 DEF RequestsOK
  <2>9. RequestsOK'
    BY <1>1, <1>3, <1>4, <2>8 DEF RequestsOK
  <2>10. QED
    BY <2>6, <2>9
<1>7. QED
  BY <1>5, <1>6

\* An invocation that goes on keeps its caller and what it is about.
LEMMA ProceedTypes ==
  ASSUME ProcsOK, RequestsOK, NEW r \in Requests, NEW pc \in {"verify", "put"},
         req[r].pc # "idle", Proceed(r, pc)
  PROVE  ProcsOK' /\ RequestsOK'
<1>1. ProcsOK'
  BY DEF Proceed, ProcsOK
<1>2. req' \in [Requests -> RequestType]
  BY DEF Proceed, RequestsOK, RequestType
<1>3. \A q \in Requests : /\ req'[q].epoch = req[q].epoch /\ req'[q].hash = req[q].hash
                          /\ req'[q].from = req[q].from
                          /\ req'[q].pc = IF q = r THEN pc ELSE req[q].pc
  BY DEF Proceed, RequestsOK, RequestType
<1>4. RequestsOK'
  BY <1>2, <1>3 DEF RequestsOK, Proceed
<1>5. QED
  BY <1>1, <1>4

LEMMA RequestTypes ==
  ASSUME Types, NEW r \in Requests, RequestStep(r) \/ InvocationCrash(r)
  PROVE  Types'
<1> USE DEF Types
<1>1. FilesOK'
  BY DEF RequestStep, CheckDuplicate, Verify, Put, InvocationCrash, FilesOK, files
<1>2. CASE CheckDuplicate(r)
  <2>1. Proceed(r, "verify") \/ Reply(r, FALSE)
    BY <1>2 DEF CheckDuplicate
  <2>2. req[r].pc # "idle"
    BY <1>2 DEF CheckDuplicate, AtRequest
  <2>3. ProcsOK' /\ RequestsOK'
    BY <2>1, <2>2, ReplyTypes, ProceedTypes
  <2>4. CoordinatorOK'
    BY <1>2 DEF CheckDuplicate, CoordinatorOK, epochs, uploads
  <2>5. QED
    BY <1>1, <2>3, <2>4
<1>3. CASE Verify(r)
  <2>1. Proceed(r, "put") \/ Reply(r, FALSE)
    BY <1>3 DEF Verify
  <2>2. req[r].pc # "idle"
    BY <1>3 DEF Verify, AtRequest
  <2>3. ProcsOK' /\ RequestsOK'
    BY <2>1, <2>2, ReplyTypes, ProceedTypes
  <2>4. CoordinatorOK'
    BY <1>3 DEF Verify, CoordinatorOK, epochs, uploads
  <2>5. QED
    BY <1>1, <2>3, <2>4
<1>4. CASE Put(r)
  <2>1. ProcsOK' /\ RequestsOK'
    BY <1>4, ReplyTypes DEF Put, AtRequest
  <2>2. req[r].epoch \in Epoch /\ req[r].hash \in Update
    BY <1>4 DEF Put, AtRequest, RequestsOK, RequestType
  <2>3. records' \in [Epoch -> Seq(Update)]
    BY <1>4, <2>2 DEF Put, CoordinatorOK
  <2>4. CoordinatorOK'
    BY <1>4, <2>3 DEF Put, CoordinatorOK, epochs, uploads
  <2>5. QED
    BY <1>1, <2>1, <2>4
<1>5. CASE InvocationCrash(r)
  <2>1. ProcsOK' /\ RequestsOK'
    BY <1>5, ReplyTypes DEF InvocationCrash, AtRequest
  <2>2. faults' \in 0..MaxFaults
    BY <1>5, ConstantsAssumption DEF InvocationCrash, Fault, CoordinatorOK
  <2>3. CoordinatorOK'
    BY <1>5, <2>2 DEF InvocationCrash, CoordinatorOK, epochs, uploads
  <2>4. QED
    BY <1>1, <2>1, <2>3
<1>6. QED
  BY <1>2, <1>3, <1>4, <1>5 DEF RequestStep

LEMMA EnvironmentTypes ==
  ASSUME Types, Activate \/ Close \/ \E x \in late : Arrive(x)
  PROVE  Types'
<1> USE DEF Types
<1>1. FilesOK'
  BY DEF Activate, Close, Arrive, FilesOK, files
<1>2. ProcsOK' /\ RequestsOK'
  BY DEF Activate, Close, Arrive, ProcsOK, RequestsOK, requests
<1>3. CASE Activate
  BY <1>1, <1>2, <1>3, ConstantsAssumption DEF Activate, CoordinatorOK, uploads, Nothing
<1>4. CASE Close
  BY <1>1, <1>2, <1>4 DEF Close, CoordinatorOK, uploads
<1>5. CASE \E x \in late : Arrive(x)
  BY <1>1, <1>2, <1>5 DEF Arrive, CoordinatorOK, epochs, requests
<1>6. QED
  BY <1>3, <1>4, <1>5

LEMMA StutterTypes == Types /\ UNCHANGED vars => Types'
BY DEF Types, CoordinatorOK, FilesOK, ProcsOK, RequestsOK, vars

LEMMA NextTypes == Types /\ [Next]_vars => Types'
<1> SUFFICES ASSUME Types, [Next]_vars PROVE Types'
  OBVIOUS
<1>1. ASSUME NEW p \in Procs, ClientStep(p) PROVE Types'
  BY <1>1, StartTypes, DownloadTypes, TrainTypes, SubmitTypes, NotifyTypes
     DEF ClientStep, First
<1>2. ASSUME NEW p \in Procs, ClientFault(p) PROVE Types'
  BY <1>2, StartTypes, ClientFaultTypes DEF ClientFault
<1>3. QED
  BY <1>1, <1>2, RequestTypes, EnvironmentTypes, StutterTypes DEF Next

\* Every variable keeps its type, whoever waits is waited for by one invocation
\* about its own epoch, and a process that acts on an epoch or an update has one:
\* in every environment, for every number of processes and invocations.
THEOREM TypesHold == Spec => []Types
BY InitTypes, NextTypes, PTL DEF Spec

----------------------------------------------------------------------------
(* Training always finds an update that nothing refers to: what refers to  *)
(* updates is finite, however long the behaviour.                          *)

LEMMA FiniteImage ==
  ASSUME NEW S, IsFiniteSet(S), NEW f, f = [x \in S |-> f[x]]
  PROVE  IsFiniteSet({f[x] : x \in S})
<1> DEFINE T == {f[x] : x \in S}
<1>1. f \in Surjection(S, T)
  BY DEF Surjection
<1> QED
  BY <1>1, FS_Surjection

\* Only a process that gives up on an upload leaves it to arrive later.
LEMMA LateFinite == Spec => []IsFiniteSet(late)
<1>1. Init => IsFiniteSet(late)
  BY FS_EmptySet DEF Init
<1>2. IsFiniteSet(late) /\ [Next]_vars => IsFiniteSet(late)'
  <2> SUFFICES ASSUME IsFiniteSet(late), [Next]_vars PROVE IsFiniteSet(late')
    OBVIOUS
  <2>1. \/ UNCHANGED late
        \/ \E x \in late : Arrive(x)
        \/ \E p \in Procs : UploadGivenUp(p)
    BY DEF Next, Activate, Close, ClientStep, ClientFault, Start, Check, Ready, Query, Fetch,
       SaveEpoch, LoadEpoch, Train, SaveBin, SaveMeta, ReadMeta, ReadBin, Upload, SaveState,
       Notify, NotifyGivenUp, ClientError, ClientCrash, RequestStep, CheckDuplicate, Verify,
       Put, InvocationCrash, Quiet, uploads, vars
  <2>2. late' = late \/ (\E x : late' = late \ {x}) \/ (\E x : late' = late \cup {x})
    BY <2>1 DEF Arrive, UploadGivenUp
  <2> QED
    BY <2>2, FS_RemoveElement, FS_AddElement
<1> QED
  BY <1>1, <1>2, PTL DEF Spec

LEMMA InUseFinite ==
  ASSUME Types, IsFiniteSet(late)
  PROVE  IsFiniteSet(InUse)
<1>1. IsFiniteSet(Epoch)
  BY ConstantsAssumption, FS_Interval DEF Epoch
<1>2. IsFiniteSet(InFiles)
  <2>1. InFiles = {updateBin} \cup {updateMeta.hash}
    BY DEF InFiles
  <2> QED
    BY <2>1, FS_Singleton, FS_Union
<1>3. IsFiniteSet(InObjects)
  <2> DEFINE f == [x \in late |-> x.update]
  <2>1. IsFiniteSet({object[e] : e \in Epoch})
    BY <1>1, FiniteImage DEF Types, CoordinatorOK
  <2>2. IsFiniteSet({f[x] : x \in late})
    BY FiniteImage
  <2>3. {f[x] : x \in late} = {x.update : x \in late}
    OBVIOUS
  <2> QED
    BY <2>1, <2>2, <2>3, FS_Union DEF InObjects
<1>4. IsFiniteSet(InRecords)
  <2> DEFINE R == [e \in Epoch |-> Recorded(e)]
  <2>1. ASSUME NEW e \in Epoch PROVE IsFiniteSet(Recorded(e))
    <3>1. records[e] \in Seq(Update)
      BY DEF Types, CoordinatorOK
    <3>2. DOMAIN records[e] = 1..Len(records[e]) /\ Len(records[e]) \in Int
      BY <3>1
    <3>3. IsFiniteSet(DOMAIN records[e])
      BY <3>2, FS_Interval
    <3>4. records[e] = [k \in DOMAIN records[e] |-> records[e][k]]
      BY <3>1
    <3> QED
      BY <3>3, <3>4, FiniteImage DEF Recorded
  <2>2. IsFiniteSet({R[e] : e \in Epoch})
    BY <1>1, FiniteImage
  <2>3. \A T \in {R[e] : e \in Epoch} : IsFiniteSet(T)
    BY <2>1
  <2>4. IsFiniteSet(UNION {R[e] : e \in Epoch})
    BY <2>2, <2>3, FS_UNION
  <2>5. {R[e] : e \in Epoch} = {Recorded(e) : e \in Epoch}
    OBVIOUS
  <2> QED
    BY <2>4, <2>5 DEF InRecords
<1>5. IsFiniteSet(InProcs)
  <2> DEFINE f == [p \in Procs |-> proc[p].update]
             g == [p \in Procs |-> proc[p].bytes]
  <2>1. IsFiniteSet(Procs)
    BY ConstantsAssumption
  <2>2. IsFiniteSet({f[p] : p \in Procs})
    BY <2>1, FiniteImage
  <2>3. IsFiniteSet({g[p] : p \in Procs})
    BY <2>1, FiniteImage
  <2>4. InProcs = {f[p] : p \in Procs} \cup {g[p] : p \in Procs}
    BY DEF InProcs
  <2> QED
    BY <2>2, <2>3, <2>4, FS_Union
<1>6. IsFiniteSet(InRequests)
  <2> DEFINE f == [r \in Requests |-> req[r].hash]
  <2>1. IsFiniteSet({f[r] : r \in Requests})
    BY ConstantsAssumption, FiniteImage
  <2>2. InRequests = {f[r] : r \in Requests}
    BY DEF InRequests
  <2> QED
    BY <2>1, <2>2
<1>7. IsFiniteSet(InFiles \cup InObjects)
  BY <1>2, <1>3, FS_Union
<1>8. IsFiniteSet(InFiles \cup InObjects \cup InRecords)
  BY <1>4, <1>7, FS_Union
<1>9. IsFiniteSet(InFiles \cup InObjects \cup InRecords \cup InProcs)
  BY <1>5, <1>8, FS_Union
<1> QED
  BY <1>6, <1>9, FS_Union DEF InUse

\* The one condition of the model that the code does not have, that there is an update
\* not yet in use, never keeps a process from training if updates do not run out: however
\* long the client runs, only finitely many are still referred to.
THEOREM FreshUpdates ==
  ASSUME ~IsFiniteSet(Update)
  PROVE  Spec => []TypeOK
<1>1. Types /\ IsFiniteSet(late) => TypeOK
  <2> SUFFICES ASSUME Types, IsFiniteSet(late), Fresh = {} PROVE FALSE
    BY DEF TypeOK
  <2>1. IsFiniteSet(InUse) /\ Update \in SUBSET InUse
    BY InUseFinite DEF Fresh
  <2> QED
    BY <2>1, FS_Subset
<1> QED
  BY <1>1, TypesHold, LateFinite, PTL

----------------------------------------------------------------------------
(* What is recorded for an epoch was trained from its model. Only Train     *)
(* changes trainedOn, and only of an update nobody refers to.              *)

LEMMA InitOrigin == Init => OriginInv
BY DEF Init, OriginInv, RecordedFromItsModel, Recorded, MetaOrigin, ProcsOrigin,
       RequestsOrigin, Idle, NoRequest, WithUpdate

\* The parts of OriginInv, where what they read is as it was.
LEMMA OriginFrames ==
  ASSUME OriginInv, UNCHANGED trainedOn
  PROVE  /\ UNCHANGED records => RecordedFromItsModel'
         /\ UNCHANGED updateMeta => MetaOrigin'
         /\ UNCHANGED proc => ProcsOrigin'
         /\ UNCHANGED req => RequestsOrigin'
BY DEF OriginInv, RecordedFromItsModel, Recorded, MetaOrigin, ProcsOrigin, RequestsOrigin

LEMMA MoveOrigin ==
  ASSUME ProcsOK, OriginInv, UNCHANGED trainedOn, NEW p \in Procs, NEW next, Move(p, next),
         next.pc \in WithUpdate => trainedOn[next.update] = next.epoch
  PROVE  ProcsOrigin'
BY DEF ProcsOK, OriginInv, ProcsOrigin, Move

LEMMA GoToOrigin ==
  ASSUME ProcsOK, OriginInv, NEW p \in Procs, NEW pc \in Places, proc[p].pc \in WithUpdate
  PROVE  trainedOn[GoTo(p, pc).update] = GoTo(p, pc).epoch
BY GoToProc DEF OriginInv, ProcsOrigin

LEMMA AfterOrigin ==
  ASSUME NEW p, NEW stage
  PROVE  After(p, stage).pc \notin WithUpdate
BY AfterProc DEF WithEpoch

LEMMA IdleOrigin == Idle.pc \notin WithUpdate
BY DEF Idle, WithUpdate

LEMMA ForgetOrigin ==
  ASSUME RequestsOK, OriginInv, UNCHANGED trainedOn, NEW p, req' = Forget(p)
  PROVE  RequestsOrigin'
<1>1. \A r \in Requests : /\ req'[r].pc = req[r].pc /\ req'[r].epoch = req[r].epoch
                          /\ req'[r].hash = req[r].hash
  BY DEF Forget, RequestsOK, RequestType
<1>2. QED
  BY <1>1 DEF OriginInv, RequestsOrigin

LEMMA StartOrigin ==
  ASSUME Types, OriginInv, NEW p \in Procs, NEW cmd \in DOMAIN First, Start(p, cmd)
  PROVE  OriginInv'
<1>1. Move(p, Begin(cmd, cmd)) /\ UNCHANGED <<trainedOn, updateMeta, records, req>>
  BY DEF Start, files
<1>2. Begin(cmd, cmd).pc \notin WithUpdate
  BY BeginProc DEF WithEpoch
<1>3. ProcsOrigin'
  BY <1>1, <1>2, MoveOrigin DEF Types
<1>4. QED
  BY <1>1, <1>3, OriginFrames DEF OriginInv

\* The commands, as far as they leave trainedOn, the metadata and the
\* coordinator alone.
LEMMA QuietOrigin ==
  ASSUME Types, OriginInv, NEW p \in Procs, NEW next, Move(p, next),
         next.pc \in WithUpdate => trainedOn[next.update] = next.epoch,
         UNCHANGED <<trainedOn, updateMeta, records, req>>
  PROVE  OriginInv'
BY MoveOrigin, OriginFrames DEF OriginInv, Types

LEMMA DownloadOrigin ==
  ASSUME Types, OriginInv, NEW p \in Procs,
         Check(p) \/ Ready(p) \/ Query(p) \/ Fetch(p) \/ SaveEpoch(p) \/ LoadEpoch(p)
  PROVE  OriginInv'
<1>1. UNCHANGED <<trainedOn, updateMeta, records, req>>
  BY DEF Check, Ready, Query, Fetch, SaveEpoch, LoadEpoch, Quiet, files, requests
<1>2. ASSUME NEW pc \in {"ready", "fetch", "saveEpoch", "train"}, NEW e
      PROVE  /\ GoTo(p, pc).pc \notin WithUpdate
             /\ [GoTo(p, pc) EXCEPT !.epoch = e].pc \notin WithUpdate
  BY GoToProc DEF Types, Places, WithUpdate, ProcType
<1>3. Begin("download", "run").pc \notin WithUpdate
  BY BeginProc DEF First, WithEpoch
<1>4. PICK next : Move(p, next) /\ next.pc \notin WithUpdate
  <2>1. CASE Check(p)
    BY <1>2, <2>1, IdleOrigin DEF Check
  <2>2. CASE Ready(p)
    BY <1>3, <2>2, IdleOrigin DEF Ready
  <2>3. CASE Query(p)
    BY <1>2, <2>3, AfterOrigin DEF Query
  <2>4. CASE Fetch(p)
    BY <1>2, <2>4 DEF Fetch
  <2>5. CASE SaveEpoch(p)
    BY <2>5, AfterOrigin DEF SaveEpoch
  <2>6. CASE LoadEpoch(p)
    BY <1>2, <2>6, AfterOrigin DEF LoadEpoch
  <2>7. QED
    BY <2>1, <2>2, <2>3, <2>4, <2>5, <2>6
<1>5. QED
  BY <1>1, <1>4, QuietOrigin

LEMMA RecordedUpdates ==
  ASSUME CoordinatorOK, NEW e \in Epoch
  PROVE  Recorded(e) \subseteq Update
<1>1. records[e] \in Seq(Update)
  BY DEF CoordinatorOK
<1>2. \A k \in DOMAIN records[e] : records[e][k] \in Update
  BY <1>1
<1>3. QED
  BY <1>2 DEF Recorded

LEMMA InUseHas ==
  /\ updateMeta.hash \in InUse
  /\ \A e \in Epoch : Recorded(e) \subseteq InUse
  /\ \A p \in Procs : proc[p].update \in InUse
  /\ \A r \in Requests : req[r].hash \in InUse
<1>1. updateMeta.hash \in InFiles
  BY DEF InFiles
<1>2. \A e \in Epoch : Recorded(e) \subseteq InRecords
  BY DEF InRecords
<1>3. \A p \in Procs : proc[p].update \in InProcs
  BY DEF InProcs
<1>4. \A r \in Requests : req[r].hash \in InRequests
  BY DEF InRequests
<1>5. QED
  BY <1>1, <1>2, <1>3, <1>4 DEF InUse

\* Training gives an origin to an update that neither the metadata nor a
\* process, a request or a submission has.
LEMMA TrainOrigin ==
  ASSUME Types, OriginInv, NEW p \in Procs, Train(p)
  PROVE  OriginInv'
<1> USE DEF Types
<1> DEFINE u == CHOOSE v \in Update : v \in Fresh
           next == [GoTo(p, "saveBin") EXCEPT !.update = u]
<1>1. u \in Update /\ u \notin InUse
  BY DEF Train, Fresh
<1>2. next.epoch = proc[p].epoch /\ next.update = u
  BY <1>1, GoToProc DEF ProcType, Places
<1>3. /\ Move(p, next) /\ trainedOn' = [trainedOn EXCEPT ![u] = proc[p].epoch]
      /\ UNCHANGED <<records, updateMeta, req>>
  BY DEF Train, u, requests, files
<1> HIDE DEF u, next
<1>4. /\ trainedOn'[u] = proc[p].epoch
      /\ \A v \in Update \ {u} : trainedOn'[v] = trainedOn[v]
  BY <1>1, <1>3 DEF FilesOK
<1>5. RecordedFromItsModel'
  <2> SUFFICES ASSUME NEW e \in Epoch, NEW v \in Recorded(e)
               PROVE  trainedOn'[v] = e
    BY <1>3 DEF RecordedFromItsModel, Recorded
  <2>1. v \in Update /\ v \in InUse
    BY InUseHas, RecordedUpdates
  <2>2. v # u
    BY <1>1, <2>1
  <2>3. QED
    BY <1>4, <2>1, <2>2 DEF OriginInv, RecordedFromItsModel
<1>6. MetaOrigin'
  <2>1. updateMeta.hash \in InUse
    BY InUseHas
  <2>2. updateMeta.epoch # Nothing => updateMeta.hash \in Update
    BY DEF FilesOK
  <2>3. QED
    BY <1>1, <1>3, <1>4, <2>1, <2>2 DEF OriginInv, MetaOrigin
<1>7. ProcsOrigin'
  <2> SUFFICES ASSUME NEW q \in Procs, proc'[q].pc \in WithUpdate
               PROVE  trainedOn'[proc'[q].update] = proc'[q].epoch
    BY DEF ProcsOrigin
  <2>1. CASE q = p
    BY <1>2, <1>3, <1>4, <2>1 DEF Move, ProcsOK
  <2>2. CASE q # p
    <3>1. proc'[q] = proc[q]
      BY <1>3, <2>2 DEF Move, ProcsOK
    <3>2. proc[q].update \in InUse
      BY InUseHas
    <3>3. proc[q].update \in Update
      BY <3>1 DEF ProcsOK, ProcType
    <3>4. QED
      BY <1>1, <1>4, <3>1, <3>2, <3>3 DEF OriginInv, ProcsOrigin
  <2>3. QED
    BY <2>1, <2>2
<1>8. RequestsOrigin'
  <2> SUFFICES ASSUME NEW r \in Requests, req[r].pc # "idle"
               PROVE  trainedOn'[req[r].hash] = req[r].epoch
    BY <1>3 DEF RequestsOrigin
  <2>1. req[r].hash \in InUse
    BY InUseHas
  <2>2. req[r].hash \in Update
    BY DEF RequestsOK, RequestType
  <2>3. QED
    BY <1>1, <1>4, <2>1, <2>2 DEF OriginInv, RequestsOrigin
<1>9. QED
  BY <1>5, <1>6, <1>7, <1>8 DEF OriginInv

\* The files between train and submit.
LEMMA SubmitOrigin ==
  ASSUME Types, OriginInv, NEW p \in Procs,
         \/ SaveBin(p) \/ SaveMeta(p) \/ ReadMeta(p) \/ ReadBin(p)
         \/ Upload(p) \/ SaveState(p)
  PROVE  OriginInv'
<1> USE DEF Types
<1>1. UNCHANGED <<trainedOn, records, req>>
  BY DEF SaveBin, SaveMeta, ReadMeta, ReadBin, Upload, SaveState, Quiet, files, requests
<1>2. CASE SaveBin(p)
  <2>1. trainedOn[GoTo(p, "saveMeta").update] = GoTo(p, "saveMeta").epoch
    BY <1>2, GoToOrigin DEF SaveBin, At, Places, WithUpdate
  <2>2. QED
    BY <1>1, <1>2, <2>1, QuietOrigin DEF SaveBin
<1>3. CASE SaveMeta(p)
  <2>1. ProcsOrigin'
    BY <1>1, <1>3, AfterOrigin, MoveOrigin DEF SaveMeta
  <2>2. trainedOn[proc[p].update] = proc[p].epoch
    BY <1>3 DEF SaveMeta, At, WithUpdate, OriginInv, ProcsOrigin
  <2>3. MetaOrigin'
    BY <1>1, <1>3, <2>2 DEF SaveMeta, MetaOrigin
  <2>4. QED
    BY <1>1, <2>1, <2>3, OriginFrames DEF OriginInv
<1>4. CASE ReadMeta(p)
  <2> DEFINE half == [GoTo(p, "readBin") EXCEPT !.epoch = updateMeta.epoch]
             taken == [half EXCEPT !.update = updateMeta.hash]
             next == IF updateMeta.epoch = Nothing THEN After(p, "submit") ELSE taken
  <2>1. half \in ProcType /\ half.epoch = updateMeta.epoch
    BY GoToProc DEF ProcType, Places, FilesOK
  <2>2. taken.epoch = updateMeta.epoch /\ taken.update = updateMeta.hash
    <3> HIDE DEF half
    <3>1. QED
      BY <2>1 DEF ProcType
  <2>3. Move(p, next)
    BY <1>4 DEF ReadMeta
  <2> HIDE DEF taken
  <2>4. next.pc \in WithUpdate => trainedOn[next.update] = next.epoch
    BY <2>2, AfterOrigin DEF OriginInv, MetaOrigin
  <2>5. QED
    BY <1>1, <1>4, <2>3, <2>4, QuietOrigin DEF ReadMeta, Quiet, files
<1>5. CASE ReadBin(p)
  <2> DEFINE taken == [GoTo(p, "upload") EXCEPT !.bytes = updateBin]
             next == IF updateBin = Nothing THEN After(p, "submit") ELSE taken
  <2>1. taken.epoch = proc[p].epoch /\ taken.update = proc[p].update
    BY GoToProc DEF ProcType, Places
  <2>2. Move(p, next)
    BY <1>5 DEF ReadBin
  <2> HIDE DEF taken
  <2>3. next.pc \in WithUpdate => trainedOn[next.update] = next.epoch
    BY <1>5, <2>1, AfterOrigin DEF ReadBin, At, WithUpdate, OriginInv, ProcsOrigin
  <2>4. QED
    BY <1>1, <1>5, <2>2, <2>3, QuietOrigin DEF ReadBin, Quiet, files
<1>6. CASE Upload(p)
  <2> DEFINE next == [GoTo(p, "notify") EXCEPT !.bytes = Nothing]
  <2>1. next.epoch = proc[p].epoch /\ next.update = proc[p].update
    BY GoToProc DEF ProcType, Places
  <2>2. Move(p, next)
    BY <1>6 DEF Upload
  <2> HIDE DEF next
  <2>3. trainedOn[next.update] = next.epoch
    BY <1>6, <2>1 DEF Upload, At, WithUpdate, OriginInv, ProcsOrigin
  <2>4. QED
    BY <1>1, <1>6, <2>2, <2>3, QuietOrigin DEF Upload, files
<1>7. CASE SaveState(p)
  BY <1>1, <1>7, AfterOrigin, QuietOrigin DEF SaveState
<1>8. QED
  BY <1>2, <1>3, <1>4, <1>5, <1>6, <1>7

LEMMA NotifyOrigin ==
  ASSUME Types, OriginInv, NEW p \in Procs, NEW r \in Requests, Notify(p, r)
  PROVE  OriginInv'
<1> USE DEF Types
<1>1. /\ proc[p].pc = "notify" /\ Move(p, GoTo(p, "wait"))
      /\ UNCHANGED <<trainedOn, updateMeta, records>>
      /\ req' = [req EXCEPT ![r] = [pc |-> "dup", epoch |-> proc[p].epoch,
                                    hash |-> proc[p].update, from |-> p]]
  BY DEF Notify, At, files
<1>2. ProcsOrigin'
  BY <1>1, GoToOrigin, MoveOrigin DEF Places, WithUpdate
<1>3. trainedOn[proc[p].update] = proc[p].epoch
  BY <1>1 DEF WithUpdate, OriginInv, ProcsOrigin
<1>4. RequestsOrigin'
  BY <1>1, <1>3 DEF OriginInv, RequestsOrigin, RequestsOK
<1>5. QED
  BY <1>1, <1>2, <1>4, OriginFrames DEF OriginInv

LEMMA ClientFaultOrigin ==
  ASSUME Types, OriginInv, NEW p \in Procs,
         UploadGivenUp(p) \/ NotifyGivenUp(p) \/ ClientError(p) \/ ClientCrash(p)
  PROVE  OriginInv'
<1> USE DEF Types
<1>1. UNCHANGED <<trainedOn, updateMeta, records>>
  BY DEF UploadGivenUp, NotifyGivenUp, ClientError, ClientCrash, files, requests
<1>2. PICK next : Move(p, next) /\ next.pc \notin WithUpdate
  BY AfterOrigin, IdleOrigin DEF UploadGivenUp, NotifyGivenUp, ClientError, ClientCrash
<1>3. ProcsOrigin'
  BY <1>1, <1>2, MoveOrigin
<1>4. UNCHANGED req \/ req' = Forget(p)
  BY DEF UploadGivenUp, NotifyGivenUp, ClientError, ClientCrash, requests
<1>5. RequestsOrigin'
  BY <1>1, <1>4, ForgetOrigin, OriginFrames
<1>6. QED
  BY <1>1, <1>3, <1>5, OriginFrames DEF OriginInv

\* An answer sends whoever waits for it on with what it has, or nowhere in
\* particular.
LEMMA ReplyOrigin ==
  ASSUME Types, OriginInv, UNCHANGED trainedOn, NEW r \in Requests, NEW ok \in BOOLEAN,
         Reply(r, ok)
  PROVE  ProcsOrigin' /\ RequestsOrigin'
<1> USE DEF Types
<1>1. RequestsOrigin'
  BY DEF Reply, OriginInv, RequestsOrigin, RequestsOK, NoRequest
<1>2. CASE req[r].from = None
  BY <1>1, <1>2, OriginFrames DEF Reply
<1>3. CASE req[r].from # None
  <2> DEFINE p == req[r].from
             next == IF ok THEN GoTo(p, "saveState") ELSE After(p, "submit")
  <2>1. p \in Procs /\ proc[p].pc = "wait" /\ Move(p, next)
    BY <1>3 DEF Reply, RequestsOK, RequestType
  <2> HIDE DEF p
  <2>2. next.pc \in WithUpdate => trainedOn[next.update] = next.epoch
    BY <2>1, GoToOrigin, AfterOrigin DEF Places, WithUpdate
  <2> HIDE DEF next
  <2>3. QED
    BY <1>1, <2>1, <2>2, MoveOrigin
<1>4. QED
  BY <1>2, <1>3

LEMMA ProceedOrigin ==
  ASSUME Types, OriginInv, UNCHANGED trainedOn, NEW r \in Requests,
         NEW pc, req[r].pc # "idle", Proceed(r, pc)
  PROVE  ProcsOrigin' /\ RequestsOrigin'
<1>1. \A q \in Requests : req'[q].epoch = req[q].epoch /\ req'[q].hash = req[q].hash
  BY DEF Proceed, Types, RequestsOK, RequestType
<1>2. \A q \in Requests : req'[q].pc # "idle" => req[q].pc # "idle"
  BY DEF Proceed, Types, RequestsOK, RequestType
<1>3. RequestsOrigin'
  BY <1>1, <1>2 DEF OriginInv, RequestsOrigin
<1>4. QED
  BY <1>3, OriginFrames DEF Proceed

\* Put adds the hash of its request to the submissions of its epoch.
LEMMA PutRecords ==
  ASSUME Types, NEW r \in Requests, Put(r)
  PROVE  \A f \in Epoch :
           Recorded(f)' = IF f = req[r].epoch THEN Recorded(f) \cup {req[r].hash}
                          ELSE Recorded(f)
<1> DEFINE e == req[r].epoch
           h == req[r].hash
<1>1. e \in Epoch /\ h \in Update
  BY DEF Put, AtRequest, Types, RequestsOK, RequestType
<1>2. records' = [records EXCEPT ![e] = Append(@, h)]
  BY DEF Put
<1> HIDE DEF e, h
<1>3. records[e] \in Seq(Update) /\ records'[e] = Append(records[e], h)
  BY <1>1, <1>2 DEF Types, CoordinatorOK
<1>4. /\ DOMAIN records'[e] = DOMAIN records[e] \cup {Len(records[e]) + 1}
      /\ records'[e][Len(records[e]) + 1] = h
      /\ \A k \in DOMAIN records[e] : records'[e][k] = records[e][k]
  BY <1>1, <1>3
<1>5. {records'[e][k] : k \in DOMAIN records'[e]}
        = {records[e][k] : k \in DOMAIN records[e]} \cup {h}
  BY <1>4
<1>6. \A f \in Epoch \ {e} : records'[f] = records[f]
  BY <1>2 DEF Types, CoordinatorOK
<1>7. QED
  BY <1>1, <1>5, <1>6 DEF Recorded, e, h

LEMMA RequestOrigin ==
  ASSUME Types, OriginInv, NEW r \in Requests, RequestStep(r) \/ InvocationCrash(r)
  PROVE  OriginInv'
<1>1. UNCHANGED <<trainedOn, updateMeta>>
  BY DEF RequestStep, CheckDuplicate, Verify, Put, InvocationCrash, files
<1>2. req[r].pc # "idle"
  BY DEF RequestStep, CheckDuplicate, Verify, Put, InvocationCrash, AtRequest
<1>3. \/ Reply(r, TRUE) \/ Reply(r, FALSE)
      \/ Proceed(r, "verify") \/ Proceed(r, "put")
  BY DEF RequestStep, CheckDuplicate, Verify, Put, InvocationCrash
<1>4. ProcsOrigin' /\ RequestsOrigin'
  BY <1>1, <1>2, <1>3, ReplyOrigin, ProceedOrigin
<1>5. RecordedFromItsModel'
  <2>1. CASE Put(r)
    <3>1. trainedOn[req[r].hash] = req[r].epoch
      BY <1>2 DEF OriginInv, RequestsOrigin
    <3>2. QED
      BY <1>1, <2>1, <3>1, PutRecords DEF OriginInv, RecordedFromItsModel
  <2>2. CASE ~Put(r)
    BY <1>1, <2>2, OriginFrames DEF RequestStep, CheckDuplicate, Verify, InvocationCrash
  <2>3. QED
    BY <2>1, <2>2
<1>6. QED
  BY <1>1, <1>4, <1>5, OriginFrames DEF OriginInv

LEMMA EnvironmentOrigin ==
  ASSUME OriginInv, Activate \/ Close \/ (\E x \in late : Arrive(x)) \/ UNCHANGED vars
  PROVE  OriginInv'
<1>1. UNCHANGED <<trainedOn, records, updateMeta, proc, req>>
  BY DEF Activate, Close, Arrive, vars, files, requests
<1>2. QED
  BY <1>1, OriginFrames DEF OriginInv

LEMMA NextOrigin == Types /\ OriginInv /\ [Next]_vars => OriginInv'
<1> SUFFICES ASSUME Types, OriginInv, [Next]_vars PROVE OriginInv'
  OBVIOUS
<1>1. ASSUME NEW p \in Procs, ClientStep(p) PROVE OriginInv'
  BY <1>1, StartOrigin, DownloadOrigin, TrainOrigin, SubmitOrigin, NotifyOrigin
     DEF ClientStep, First
<1>2. ASSUME NEW p \in Procs, ClientFault(p) PROVE OriginInv'
  BY <1>2, StartOrigin, ClientFaultOrigin DEF ClientFault
<1>3. QED
  BY <1>1, <1>2, RequestOrigin, EnvironmentOrigin DEF Next

\* Whatever overlaps, is rewritten, arrives late or dies, a submission for an
\* epoch names an update that was trained from the model of that epoch.
THEOREM RecordedOrigin == Spec => []RecordedFromItsModel
<1>1. OriginInv => RecordedFromItsModel
  BY DEF OriginInv
<1>2. QED
  BY <1>1, TypesHold, InitOrigin, NextOrigin, PTL DEF Spec

----------------------------------------------------------------------------
(* The epoch that run skips has a recorded submission: only an answer to    *)
(* Put brings a process to where it notes the epoch.                       *)

LEMMA InitSkipped == Init => SkippedInv
BY DEF Init, SkippedInv, SkippedIsRecorded, Idle

\* A process moves, but not to where it notes a submission.
LEMMA ClientSkipped ==
  ASSUME Types, SkippedInv, NEW p \in Procs, NEW next, Move(p, next), next.pc # "saveState",
         UNCHANGED records,
         submitted' = submitted \/ Recorded(submitted') # {}
  PROVE  SkippedInv'
<1>1. \A e : Recorded(e)' = Recorded(e)
  BY DEF Recorded
<1>2. SkippedIsRecorded'
  BY <1>1 DEF SkippedInv, SkippedIsRecorded, Recorded
<1>3. \A q \in Procs : proc'[q].pc = "saveState" => proc'[q] = proc[q]
  BY DEF Types, ProcsOK, Move
<1>4. QED
  BY <1>2, <1>3 DEF SkippedInv, Recorded

LEMMA StartSkipped ==
  ASSUME Types, SkippedInv, NEW p \in Procs, NEW cmd \in DOMAIN First, Start(p, cmd)
  PROVE  SkippedInv'
<1>1. Move(p, Begin(cmd, cmd)) /\ UNCHANGED <<records, submitted>>
  BY DEF Start, files
<1>2. Begin(cmd, cmd).pc # "saveState"
  BY BeginProc
<1>3. QED
  BY <1>1, <1>2, ClientSkipped

LEMMA CommandSkipped ==
  ASSUME Types, SkippedInv, NEW p \in Procs,
         \/ Check(p) \/ Ready(p) \/ Query(p) \/ Fetch(p) \/ SaveEpoch(p)
         \/ LoadEpoch(p) \/ Train(p) \/ SaveBin(p) \/ SaveMeta(p)
         \/ ReadMeta(p) \/ ReadBin(p) \/ Upload(p) \/ (\E r \in Requests : Notify(p, r))
  PROVE  SkippedInv'
<1>1. UNCHANGED <<records, submitted>>
  BY DEF Check, Ready, Query, Fetch, SaveEpoch, LoadEpoch, Train, SaveBin, SaveMeta,
         ReadMeta, ReadBin, Upload, Notify, Quiet, files, requests
<1>2. \A pc \in Places : GoTo(p, pc).pc = pc
  BY GoToProc DEF Types
<1>3. \A pc \in Places : \A e : [GoTo(p, pc) EXCEPT !.epoch = e].pc = pc
  BY GoToProc DEF Types, ProcType
<1>4. \A pc \in Places : \A u : [GoTo(p, pc) EXCEPT !.update = u].pc = pc
  BY GoToProc DEF Types, ProcType
<1>5. \A pc \in Places : \A b : [GoTo(p, pc) EXCEPT !.bytes = b].pc = pc
  BY GoToProc DEF Types, ProcType
<1>6. Begin("download", "run").pc # "saveState" /\ Idle.pc # "saveState"
  BY BeginProc DEF First, Idle
<1>7. \A stage : After(p, stage).pc # "saveState"
  BY AfterProc
<1>8. PICK next : Move(p, next) /\ next.pc # "saveState"
  <2>1. CASE Check(p)
    <3>1. Move(p, Idle) \/ Move(p, [GoTo(p, "ready") EXCEPT !.epoch = active])
      BY <2>1 DEF Check
    <3>2. [GoTo(p, "ready") EXCEPT !.epoch = active].pc # "saveState"
      BY <1>3 DEF Places
    <3>3. QED
      BY <1>6, <3>1, <3>2
  <2>2. CASE Ready(p)
    BY <1>6, <2>2 DEF Ready
  <2>3. CASE Query(p)
    <3>1. \/ Move(p, After(p, "download"))
          \/ Move(p, [GoTo(p, "fetch") EXCEPT !.epoch = active])
      BY <2>3 DEF Query
    <3>2. [GoTo(p, "fetch") EXCEPT !.epoch = active].pc # "saveState"
      BY <1>3 DEF Places
    <3>3. QED
      BY <1>7, <3>1, <3>2
  <2>4. CASE Fetch(p)
    BY <1>2, <2>4 DEF Fetch, Places
  <2>5. CASE SaveEpoch(p) \/ SaveMeta(p)
    BY <1>7, <2>5 DEF SaveEpoch, SaveMeta
  <2>6. CASE LoadEpoch(p)
    <3>1. \/ Move(p, After(p, "train"))
          \/ Move(p, [GoTo(p, "train") EXCEPT !.epoch = epochFile])
      BY <2>6 DEF LoadEpoch
    <3>2. [GoTo(p, "train") EXCEPT !.epoch = epochFile].pc # "saveState"
      BY <1>3 DEF Places
    <3>3. QED
      BY <1>7, <3>1, <3>2
  <2>7. CASE Train(p)
    BY <1>4, <2>7 DEF Train, Places
  <2>8. CASE SaveBin(p)
    BY <1>2, <2>8 DEF SaveBin, Places
  <2>9. CASE ReadMeta(p)
    <3> DEFINE half == [GoTo(p, "readBin") EXCEPT !.epoch = updateMeta.epoch]
               taken == [half EXCEPT !.update = updateMeta.hash]
    <3>1. half \in [pc : Places, cmd : DOMAIN First, epoch : {updateMeta.epoch},
                    update : Update \cup {Nothing}, bytes : Update \cup {Nothing}]
          /\ half.pc = "readBin"
      BY GoToProc DEF Types, ProcType, Places
    <3>2. Move(p, After(p, "submit")) \/ Move(p, taken)
      BY <2>9 DEF ReadMeta
    <3> HIDE DEF half
    <3>3. taken.pc = "readBin"
      BY <3>1
    <3>4. QED
      BY <1>7, <3>2, <3>3
  <2>10. CASE ReadBin(p)
    <3>1. \/ Move(p, After(p, "submit"))
          \/ Move(p, [GoTo(p, "upload") EXCEPT !.bytes = updateBin])
      BY <2>10 DEF ReadBin
    <3>2. [GoTo(p, "upload") EXCEPT !.bytes = updateBin].pc # "saveState"
      BY <1>5 DEF Places
    <3>3. QED
      BY <1>7, <3>1, <3>2
  <2>11. CASE Upload(p)
    BY <1>5, <2>11 DEF Upload, Places
  <2>12. CASE \E r \in Requests : Notify(p, r)
    BY <1>2, <2>12 DEF Notify, Places
  <2>13. QED
    BY <2>1, <2>2, <2>3, <2>4, <2>5, <2>6, <2>7, <2>8, <2>9, <2>10, <2>11, <2>12
<1>9. QED
  BY <1>1, <1>8, ClientSkipped

LEMMA SaveStateSkipped ==
  ASSUME Types, SkippedInv, NEW p \in Procs, SaveState(p)
  PROVE  SkippedInv'
<1>1. Move(p, After(p, "submit")) /\ UNCHANGED records
  BY DEF SaveState, requests
<1>2. Recorded(proc[p].epoch) # {}
  BY DEF SaveState, At, SkippedInv
<1>3. submitted' = submitted \/ Recorded(submitted') # {}
  BY <1>2 DEF SaveState
<1>4. QED
  BY <1>1, <1>3, AfterProc, ClientSkipped

LEMMA ClientFaultSkipped ==
  ASSUME Types, SkippedInv, NEW p \in Procs,
         UploadGivenUp(p) \/ NotifyGivenUp(p) \/ ClientError(p) \/ ClientCrash(p)
  PROVE  SkippedInv'
<1>1. UNCHANGED <<records, submitted>>
  BY DEF UploadGivenUp, NotifyGivenUp, ClientError, ClientCrash, files, requests
<1>2. PICK next : Move(p, next) /\ next.pc # "saveState"
  BY AfterProc DEF UploadGivenUp, NotifyGivenUp, ClientError, ClientCrash, Idle
<1>3. QED
  BY <1>1, <1>2, ClientSkipped

LEMMA RequestSkipped ==
  ASSUME Types, SkippedInv, NEW r \in Requests, RequestStep(r) \/ InvocationCrash(r)
  PROVE  SkippedInv'
<1>1. UNCHANGED submitted
  BY DEF RequestStep, CheckDuplicate, Verify, Put, InvocationCrash, files
<1>2. CASE Put(r)
  <2>1. \A e \in Epoch : Recorded(e)' = IF e = req[r].epoch
                                       THEN Recorded(e) \cup {req[r].hash} ELSE Recorded(e)
    BY <1>2, PutRecords
  <2>2. \A e \in Epoch : Recorded(e) # {} \/ e = req[r].epoch => Recorded(e)' # {}
    BY <2>1
  <2>3. SkippedIsRecorded'
    BY <1>1, <2>2 DEF SkippedInv, SkippedIsRecorded, Types, FilesOK, Recorded
  <2>4. ASSUME NEW q \in Procs, proc'[q].pc = "saveState"
        PROVE  \E e \in Epoch : e = proc'[q].epoch /\ Recorded(e)' # {}
    <3>1. proc'[q].epoch \in Epoch
      BY <1>2, <2>4, RequestTypes DEF RequestStep, Types, ProcsOK, ProcType, WithEpoch,
                                      WithUpdate
    <3>2. CASE proc'[q] = proc[q]
      BY <2>2, <2>4, <3>1, <3>2 DEF SkippedInv, Recorded
    <3>3. CASE proc'[q] # proc[q]
      <4>1. q = req[r].from /\ q \in Procs /\ req[r].from # None
        BY <1>2, <3>3 DEF Put, Reply, Move, Types, ProcsOK
      <4>2. proc'[q] = GoTo(q, "saveState")
        BY <1>2, <4>1 DEF Put, Reply, Move, Types, ProcsOK
      <4>3. proc'[q].epoch = req[r].epoch
        BY <4>1, <4>2, GoToProc DEF Types, RequestsOK, Places
      <4>4. QED
        BY <2>2, <3>1, <4>3 DEF Recorded
    <3>4. QED
      BY <3>2, <3>3
  <2>5. QED
    BY <2>3, <2>4 DEF SkippedInv, Recorded
<1>3. CASE ~Put(r)
  <2>1. /\ UNCHANGED records
        /\ Reply(r, FALSE) \/ UNCHANGED proc
    BY <1>3 DEF RequestStep, CheckDuplicate, Verify, InvocationCrash, Proceed
  <2>2. CASE UNCHANGED proc
    BY <1>1, <2>1, <2>2 DEF SkippedInv, SkippedIsRecorded, Recorded
  <2>3. CASE Reply(r, FALSE) /\ req[r].from # None
    <3>1. Move(req[r].from, After(req[r].from, "submit")) /\ req[r].from \in Procs
      BY <2>3 DEF Reply, Types, RequestsOK, RequestType
    <3>2. QED
      BY <1>1, <2>1, <3>1, AfterProc, ClientSkipped
  <2>4. QED
    BY <2>1, <2>2, <2>3 DEF Reply
<1>4. QED
  BY <1>2, <1>3

LEMMA EnvironmentSkipped ==
  ASSUME SkippedInv, Activate \/ Close \/ (\E x \in late : Arrive(x)) \/ UNCHANGED vars
  PROVE  SkippedInv'
<1>1. UNCHANGED <<submitted, records, proc>>
  BY DEF Activate, Close, Arrive, vars, files, requests
<1>2. QED
  BY <1>1 DEF SkippedInv, SkippedIsRecorded, Recorded

LEMMA NextSkipped == Types /\ SkippedInv /\ [Next]_vars => SkippedInv'
<1> SUFFICES ASSUME Types, SkippedInv, [Next]_vars PROVE SkippedInv'
  OBVIOUS
<1>1. ASSUME NEW p \in Procs, ClientStep(p) PROVE SkippedInv'
  BY <1>1, StartSkipped, CommandSkipped, SaveStateSkipped DEF ClientStep, First
<1>2. ASSUME NEW p \in Procs, ClientFault(p) PROVE SkippedInv'
  BY <1>2, StartSkipped, ClientFaultSkipped DEF ClientFault
<1>3. QED
  BY <1>1, <1>2, RequestSkipped, EnvironmentSkipped DEF Next

\* The epoch of submission_state.json, which run skips, has a submission of this
\* organization at the coordinator: no crash, lost reply or overlapping command
\* makes the client skip an epoch it has no submission for.
THEOREM SkippedSafety == Spec => []SkippedIsRecorded
<1>1. SkippedInv => SkippedIsRecorded
  BY DEF SkippedInv
<1>2. QED
  BY <1>1, TypesHold, InitSkipped, NextSkipped, PTL DEF Spec

----------------------------------------------------------------------------
(* The other side of GetsRecorded: update_complete refuses updates of a     *)
(* size it does not allow, whatever the clients do and however often.       *)

\* The organization has no submission, for any epoch.
NothingRecorded == \A e \in Epoch : Recorded(e) = {}

\* Nor is an invocation about to put one.
RefusedInv ==
  /\ \A e \in Epoch : records[e] = <<>>
  /\ \A r \in Requests : req[r].pc # "put"

LEMMA RefusedFrames == RefusedInv /\ UNCHANGED requests => RefusedInv'
BY DEF RefusedInv, requests

LEMMA ForgetRefused ==
  ASSUME Types, RefusedInv, NEW p \in Procs, req' = Forget(p), UNCHANGED records
  PROVE  RefusedInv'
<1>1. \A r \in Requests : req'[r].pc = req[r].pc
  BY DEF Forget, Types, RequestsOK, RequestType
<1>2. QED
  BY <1>1 DEF RefusedInv

LEMMA ClientRefused ==
  ASSUME Types, RefusedInv, NEW p \in Procs, ClientStep(p) \/ ClientFault(p)
  PROVE  RefusedInv'
<1>1. CASE UNCHANGED requests
  BY <1>1, RefusedFrames
<1>2. ASSUME NEW r \in Requests, Notify(p, r)
      PROVE  RefusedInv'
  BY <1>2 DEF Notify, RefusedInv, Types, RequestsOK
<1>3. CASE NotifyGivenUp(p) \/ ClientCrash(p)
  BY <1>3, ForgetRefused DEF NotifyGivenUp, ClientCrash
<1>4. \/ UNCHANGED requests
      \/ \E r \in Requests : Notify(p, r)
      \/ NotifyGivenUp(p) \/ ClientCrash(p)
  <2>1. CASE ClientStep(p)
    BY <2>1 DEF ClientStep, Start, Check, Ready, Query, Fetch, SaveEpoch, LoadEpoch, Train,
                SaveBin, SaveMeta, ReadMeta, ReadBin, Upload, SaveState, Quiet, requests
  <2>2. CASE ClientFault(p)
    BY <2>2 DEF ClientFault, Start, UploadGivenUp, ClientError, requests
  <2>3. QED
    BY <2>1, <2>2
<1>5. QED
  BY <1>1, <1>2, <1>3, <1>4

\* Verify answers that the size is wrong, so Put is never reached.
LEMMA RequestRefused ==
  ASSUME ~SizeAllowed, Types, RefusedInv, NEW r \in Requests,
         RequestStep(r) \/ InvocationCrash(r)
  PROVE  RefusedInv'
<1>1. ~Put(r)
  BY DEF Put, AtRequest, RefusedInv
<1>2. UNCHANGED records
  BY <1>1 DEF RequestStep, CheckDuplicate, Verify, InvocationCrash
<1>3. Reply(r, FALSE) \/ Proceed(r, "verify")
  BY <1>1 DEF RequestStep, CheckDuplicate, Verify, InvocationCrash
<1>4. \A q \in Requests : req'[q].pc # "put"
  BY <1>3 DEF Reply, Proceed, NoRequest, RefusedInv, Types, RequestsOK, RequestType
<1>5. QED
  BY <1>2, <1>4 DEF RefusedInv

LEMMA NextRefused ==
  ASSUME ~SizeAllowed, Types, RefusedInv, [Next]_vars
  PROVE  RefusedInv'
<1>1. CASE Activate \/ Close \/ (\E x \in late : Arrive(x)) \/ UNCHANGED vars
  BY <1>1, RefusedFrames DEF Activate, Close, Arrive, vars, requests
<1>2. QED
  BY <1>1, ClientRefused, RequestRefused DEF Next

\* While updates have a size outside of what update_complete allows, as the 400
\* bytes of present training do, no submission is ever recorded: no retry,
\* restart or order of commands helps (lambdas/update_complete/app.py:82).
THEOREM RefusedForSize == ASSUME ~SizeAllowed PROVE Spec => []NothingRecorded
<1>1. Init => RefusedInv
  BY DEF Init, RefusedInv, NoRequest
<1>2. Types /\ RefusedInv /\ [Next]_vars => RefusedInv'
  BY NextRefused
<1>3. RefusedInv => NothingRecorded
  BY DEF RefusedInv, NothingRecorded, Recorded
<1>4. QED
  BY <1>1, <1>2, <1>3, TypesHold, PTL DEF Spec

=============================================================================
