--------------------------- MODULE ExportJobsProofs ---------------------------
(***************************************************************************)
(* Theorems about ExportJobs, for every value of its constants.            *)
(***************************************************************************)
EXTENDS ExportJobs, FiniteSetTheorems, TLAPS

\* Between BeginUpload and the end of that upload the part exists and is the next
\* one; TypeOK is not inductive without it (FinishUpload counts the part).
UploadInv ==
  \A w \in Workers : uploading[w] =>
    /\ pc[w] \in {"run", "merge", "save", "dead"}
    /\ done[w] < NumParts
    /\ mem[w].parts <= done[w]

\* A handler that is under way has a job, a launched worker has one too, and a
\* reaper belongs to a launched worker.
PlacementInv ==
  /\ apc \notin {"down", "recover", "idle"} => ajob \in Jobs
  /\ apc \in {"pid", "payload"} => aworker \in Workers
  /\ \A w \in Workers :
       /\ pc[w] # "unused" => work[w] \in Jobs
       /\ reaper[w] # "off" => pc[w] # "unused"

TypeInv == TypeOK /\ PlacementInv /\ UploadInv

LEMMA AbsentType == Absent \in Record
  BY ConstantsAssumption DEF Absent, Record

LEMMA TypeInit == Init => TypeInv
<1> SUFFICES ASSUME Init PROVE TypeInv
  OBVIOUS
<1>1. 0 \in 0..NumParts /\ 0 \in 0..MaxApiCrashes /\ 0 \in 0..MaxServiceStops
  BY ConstantsAssumption
<1>2. row \in [Jobs -> Record] /\ mem \in [Workers -> Record] /\ amem \in Record
  BY AbsentType DEF Init
<1>3. TypeOK
  BY <1>1, <1>2 DEF Init, TypeOK, WorkerPC, ApiPC
<1>4. UploadInv /\ PlacementInv
  BY DEF Init, UploadInv, PlacementInv
<1> QED BY <1>3, <1>4 DEF TypeInv

LEMMA NewJobType == ASSUME NEW n \in 0..NumParts PROVE NewJob(n) \in Record
  BY ConstantsAssumption DEF NewJob, Absent, Record, Active

LEMMA SaveType ==
  ASSUME row \in [Jobs -> Record], NEW j, NEW rec \in Record, Save(j, rec)
  PROVE  row' \in [Jobs -> Record]
  BY DEF Save, Record

LEMMA RecoverType ==
  ASSUME row \in [Jobs -> Record], NEW js, Recover(js)
  PROVE  row' \in [Jobs -> Record]
  BY ZenonT(60) DEF Recover, Record, Terminal, Resumable

LEMMA FinishType ==
  ASSUME TypeInv, NEW w \in Workers, NEW status \in Terminal, NEW cancel \in BOOLEAN,
         pc[w] = "run", Finish(w, status, cancel)
  PROVE  TypeInv'
<1> USE ConstantsAssumption DEF TypeInv, TypeOK, PlacementInv, UploadInv, WorkerPC
<1>1. mem' \in [Workers -> Record]
  <2> DEFINE rec == [mem[w] EXCEPT !.status = status, !.pid = NoWorker, !.cancel = cancel]
  <2>1. rec \in Record
    BY ZenonT(60) DEF Record, Terminal, Resumable
  <2> HIDE DEF rec
  <2>2. mem' = [mem EXCEPT ![w] = rec]
    BY DEF Finish, rec
  <2> QED BY <2>1, <2>2
<1>2. remote' \in [Jobs -> SUBSET Parts]
  BY DEF Finish, Parts
<1>3. mem'[w].parts = mem[w].parts /\ \A u \in Workers \ {w} : mem'[u] = mem[u]
  BY DEF Finish, Record
<1> QED BY <1>1, <1>2, <1>3 DEF Finish, apiVars

LEMMA TypeStep == TypeInv /\ [Next]_vars => TypeInv'
<1> SUFFICES ASSUME TypeInv, [Next]_vars PROVE TypeInv'
  OBVIOUS
<1> USE ConstantsAssumption DEF TypeInv, TypeOK, PlacementInv, UploadInv, vars, workerVars, apiVars, WorkerPC, ApiPC
<1>1. ASSUME NEW j \in Jobs, CreateJob(j) PROVE TypeInv'
  BY <1>1, NewJobType, SaveType DEF CreateJob
<1>2. ASSUME NEW j \in Jobs, ResumeRead(j) PROVE TypeInv'
  <2>1. row[j].parts \in 0..NumParts
    BY DEF Record
  <2>2. amem' \in Record
    BY <1>2, <2>1, NewJobType DEF ResumeRead
  <2>3. bySchedule' \in BOOLEAN
    BY <1>2 DEF ResumeRead
  <2> QED BY <1>2, <2>2, <2>3 DEF ResumeRead
<1>3. ASSUME NEW j \in Jobs, Cancel(j) PROVE TypeInv'
  BY <1>3, ZenonT(60) DEF Cancel, Record
<1>4. CASE ResumeClearCancel
  BY <1>4, ZenonT(60) DEF ResumeClearCancel, Record
<1>5. CASE ResumeSave
  BY <1>5, SaveType DEF ResumeSave
<1>6. ASSUME NEW w \in Workers, SpawnWorker(w) PROVE TypeInv'
  <2>1. amem' \in Record
    BY <1>6 DEF SpawnWorker, Record
  <2> QED BY <1>6, <2>1 DEF SpawnWorker
<1>7. CASE SpawnFails
  <2>1. [amem EXCEPT !.status = "failed", !.pid = NoWorker] \in Record
    BY DEF Record, Terminal, Resumable
  <2> QED BY <1>7, <2>1, SaveType DEF SpawnFails, LaunchFailed
<1>8. CASE PersistPid
  BY <1>8, SaveType DEF PersistPid
<1>9. CASE SendPayload
  BY <1>9 DEF SendPayload
<1>10. CASE SendPayloadFails
  <2>1. [amem EXCEPT !.status = "failed", !.pid = NoWorker] \in Record
    BY DEF Record, Terminal, Resumable
  <2> QED BY <1>10, <2>1, SaveType DEF SendPayloadFails, LaunchFailed
<1>11. CASE AnnotateRead
  <2>1. amem' \in Record
    BY <1>11, ZenonT(60) DEF AnnotateRead, Record
  <2> QED BY <1>11, <2>1 DEF AnnotateRead
<1>12. CASE AnnotateSave
  BY <1>12, SaveType DEF AnnotateSave
<1>13. CASE ApiCrash
  BY <1>13 DEF ApiCrash
<1>14. CASE ServiceStop
  BY <1>14 DEF ServiceStop, Live
<1>15. CASE ApiStart
  BY <1>15 DEF ApiStart
<1>16. CASE RecoverOrphans
  BY <1>16, RecoverType DEF RecoverOrphans
<1>17. ASSUME NEW w \in Workers, ReaperRead(w) PROVE TypeInv'
  BY <1>17 DEF ReaperRead
<1>18. ASSUME NEW w \in Workers, ReaperRecover(w) PROVE TypeInv'
  BY <1>18, RecoverType DEF ReaperRecover
<1>19. ASSUME NEW w \in Workers, StdinEOF(w) PROVE TypeInv'
  BY <1>19 DEF StdinEOF
<1>20. ASSUME NEW w \in Workers, BuildJob(w) PROVE TypeInv'
  <2>1. [row[work[w]] EXCEPT !.pid = w] \in Record
    BY <1>20, SMTT(60) DEF BuildJob, Record
  <2> QED BY <1>20, <2>1 DEF BuildJob
<1>21. ASSUME NEW w \in Workers, SetWorkerPid(w) PROVE TypeInv'
  BY <1>21, SMTT(60) DEF SetWorkerPid, Record
<1>22. ASSUME NEW w \in Workers, MarkStarted(w) PROVE TypeInv'
  BY <1>22 DEF MarkStarted, Record, Active
<1>23. ASSUME NEW w \in Workers, PersistMerge(w) PROVE TypeInv'
  <2>1. mem' \in [Workers -> Record] /\ \A u \in Workers : mem'[u].parts = mem[u].parts
    BY <1>23, SMTT(60) DEF PersistMerge, Record
  <2> QED BY <1>23, <2>1 DEF PersistMerge
<1>24. ASSUME NEW w \in Workers, PersistSave(w) PROVE TypeInv'
  BY <1>24, SaveType DEF PersistSave
<1>25. ASSUME NEW w \in Workers, Progress(w) PROVE TypeInv'
  BY <1>25 DEF Progress
<1>26. ASSUME NEW w \in Workers, SkipPart(w) PROVE TypeInv'
  BY <1>26 DEF SkipPart, Record
<1>27. ASSUME NEW w \in Workers, BeginUpload(w) PROVE TypeInv'
  BY <1>27 DEF BeginUpload, Parts
<1>28. ASSUME NEW w \in Workers, FinishUpload(w) PROVE TypeInv'
  <2>1. done[w] + 1 \in 1..NumParts
    BY <1>28 DEF FinishUpload
  <2>2. remote' \in [Jobs -> SUBSET Parts]
    BY <1>28, <2>1 DEF FinishUpload, Parts
  <2>3. mem' \in [Workers -> Record]
    <3> DEFINE n == IF Split THEN done[w] + 1 ELSE mem[w].parts
    <3>1. n \in 0..NumParts
      BY <2>1 DEF Record
    <3> HIDE DEF n
    <3>2. [mem[w] EXCEPT !.parts = n] \in Record
      BY <3>1, SMTT(60) DEF Record
    <3>3. mem' = [mem EXCEPT ![w] = [mem[w] EXCEPT !.parts = n]]
      BY <1>28 DEF FinishUpload, n
    <3> QED BY <3>2, <3>3
  <2>4. \A u \in Workers \ {w} : mem'[u] = mem[u] /\ done'[u] = done[u]
    BY <1>28 DEF FinishUpload
  <2> QED BY <1>28, <2>1, <2>2, <2>3, <2>4 DEF FinishUpload
<1>29. ASSUME NEW w \in Workers, Fail(w) PROVE TypeInv'
  BY <1>29, FinishType DEF Fail, Terminal, Resumable, Record
<1>30. ASSUME NEW w \in Workers, CancelObserved(w) PROVE TypeInv'
  BY <1>30, FinishType DEF CancelObserved, Terminal, Resumable, Record
<1>31. ASSUME NEW w \in Workers, Complete(w) PROVE TypeInv'
  BY <1>31, FinishType DEF Complete, Terminal, Resumable, Record
<1>32. ASSUME NEW w \in Workers, FinalSave(w) PROVE TypeInv'
  BY <1>32, SaveType DEF FinalSave
<1>33. ASSUME NEW w \in Workers, Exit(w) PROVE TypeInv'
  BY <1>33 DEF Exit
<1>34. ASSUME NEW w \in Workers, WorkerCrash(w) PROVE TypeInv'
  BY <1>34 DEF WorkerCrash, Live
<1>35. CASE UNCHANGED vars
  BY <1>35
<1> QED BY <1>1, <1>2, <1>3, <1>4, <1>5, <1>6, <1>7, <1>8, <1>9, <1>10, <1>11, <1>12, <1>13, <1>14, <1>15, <1>16, <1>17, <1>18, <1>19, <1>20, <1>21, <1>22, <1>23, <1>24, <1>25, <1>26, <1>27, <1>28, <1>29, <1>30, <1>31, <1>32, <1>33, <1>34, <1>35
   DEF Next, Request, Handler, Restart, Worker, Reaper, Advance

\* Type correctness: every record written to the store, by whichever process, is a
\* well-formed export_jobs row, and every program counter and count is in range.
THEOREM TypeCorrect == Spec => []TypeOK
<1>1. Init => TypeInv
  BY TypeInit
<1>2. TypeInv /\ [Next]_vars => TypeInv'
  BY TypeStep
<1>3. TypeInv => TypeOK
  BY DEF TypeInv
<1> QED BY <1>1, <1>2, <1>3, PTL DEF Spec

-----------------------------------------------------------------------------
(***************************************************************************)
(* No job is ever run by two workers, provided resumes leave ended workers *)
(* time to be reaped.  A launch is exclusive from the moment its handler   *)
(* reads or creates the record, and the record of a job with a writer names *)
(* that writer, so neither a reaper nor a start-up may take it for dead.   *)
(***************************************************************************)
Launching == {"clear", "resume", "spawn", "pid", "payload"}

IsWriter(w) == pc[w] \in WorkerPC \ {"unused", "stdin", "exiting", "dead"}

\* Workers of j that will neither write nor be recovered any more.
Gone(w) == pc[w] \in {"stdin", "dead"} /\ reaper[w] = "off"

\* A job that has been launched exists in the store.
ExistInv ==
  /\ \A w \in Workers : work[w] \in Jobs => row[work[w]].status # "absent"
  /\ \A w \in Workers : pc[w] = "unused" => work[w] = NoJob
  /\ \A w \in Workers : IsWriter(w) /\ pc[w] # "boot" => mem[w].status # "absent"
  /\ apc \in Launching \cup {"annotate"} => row[ajob].status # "absent"
  /\ apc \in Launching \cup {"annotated"} => amem.status # "absent"

\* While a launch is under way no other worker of its job is active.
LaunchInv ==
  /\ apc \in Launching =>
       /\ \A w \in Workers : work[w] = ajob => Gone(w)
       /\ amem.status = "pending"
       /\ apc \in {"pid", "payload"} => amem.pid = aworker /\ work[aworker] = ajob
       /\ apc = "payload" => row[ajob].status = "pending" /\ row[ajob].pid = aworker

\* A reaper waits for a worker that got its payload and recovers a dead one.
ReaperInv ==
  \A w \in Workers :
    /\ pc[w] \in {"unused", "stdin"} => reaper[w] = "off"
    /\ reaper[w] = "recover" => pc[w] = "dead"

\* The record of a job that is being run is active and names its only writer.
WriterInv ==
  \A w \in Workers : IsWriter(w) =>
    /\ row[work[w]].status \in Active
    /\ row[work[w]].pid = w
    /\ mem[w].pid \in {w} \/ pc[w] \in {"boot", "final"}
    /\ pc[w] \notin {"boot", "final"} => mem[w].status \in Active
    /\ \A u \in Workers \ {w} : work[u] = work[w] => Gone(u)
    /\ apc = "recover" => work[w] \notin stale
    /\ apc = "annotated" /\ ajob = work[w] => amem.status \in Active /\ amem.pid = w

OwnerInv == ExistInv /\ LaunchInv /\ ReaperInv /\ WriterInv
LEMMA OwnerInit == Init => OwnerInv
  BY ConstantsAssumption DEF Init, OwnerInv, ExistInv, LaunchInv, ReaperInv, WriterInv, IsWriter,
     Absent, Launching

\* Recovering a set of jobs touches the records of that set only, and none appears
\* or disappears by it.
LEMMA RecoverFrame ==
  ASSUME NEW js, row \in [Jobs -> Record], Recover(js)
  PROVE  /\ \A j \in Jobs : j \notin js => row'[j] = row[j]
         /\ \A j \in Jobs : row'[j].status = "absent" <=> row[j].status = "absent"
         /\ \A j \in Jobs : row'[j].status = "completed" <=> row[j].status = "completed"
         /\ \A j \in Jobs : row'[j].parts = row[j].parts
  BY DEF Recover, Record, Active

LEMMA OwnerStep ==
  ResumeAfterExit /\ TypeInv /\ TypeInv' /\ OwnerInv /\ [Next]_vars => OwnerInv'
<1> SUFFICES ASSUME ResumeAfterExit, TypeInv, TypeInv', OwnerInv, [Next]_vars
             PROVE  OwnerInv'
  OBVIOUS
<1> USE ConstantsAssumption DEF TypeInv, TypeOK, PlacementInv, OwnerInv, ExistInv, LaunchInv,
        ReaperInv, WriterInv, IsWriter, Gone, Launching, Active, WorkerPC, ApiPC, Record,
        vars, workerVars, apiVars
<1>1. ASSUME NEW j \in Jobs, CreateJob(j) PROVE OwnerInv'
  BY <1>1 DEF CreateJob, Save, NewJob, Absent
<1>2. ASSUME NEW j \in Jobs, ResumeRead(j) PROVE OwnerInv'
  BY <1>2 DEF ResumeRead, NewJob, Absent, Reaped, Resumable
<1>3. ASSUME NEW j \in Jobs, Cancel(j) PROVE OwnerInv'
  BY <1>3 DEF Cancel
<1>4. CASE ResumeClearCancel
  BY <1>4 DEF ResumeClearCancel
<1>5. CASE ResumeSave
  BY <1>5 DEF ResumeSave, Save
<1>6. ASSUME NEW v \in Workers, SpawnWorker(v) PROVE OwnerInv'
  BY <1>6 DEF SpawnWorker
<1>7. CASE SpawnFails
  BY <1>7 DEF SpawnFails, LaunchFailed, Save
<1>8. CASE PersistPid
  BY <1>8 DEF PersistPid, Save
<1>9. CASE SendPayload
  BY <1>9 DEF SendPayload
<1>10. CASE SendPayloadFails
  BY <1>10 DEF SendPayloadFails, LaunchFailed, Save, Live
<1>11. CASE AnnotateRead
  BY <1>11 DEF AnnotateRead
<1>12. CASE AnnotateSave
  BY <1>12 DEF AnnotateSave, Save
<1>13. CASE ApiCrash
  BY <1>13 DEF ApiCrash
<1>14. CASE ServiceStop
  BY <1>14 DEF ServiceStop, Live
<1>15. CASE ApiStart
  BY <1>15 DEF ApiStart, WorkerAlive, Live
<1>16. CASE RecoverOrphans
  <2>1. /\ \A j \in Jobs : j \notin stale => row'[j] = row[j]
        /\ \A j \in Jobs : row'[j].status = "absent" <=> row[j].status = "absent"
    BY <1>16, RecoverFrame, SMTT(60) DEF RecoverOrphans
  <2> QED BY <1>16, <2>1 DEF RecoverOrphans
<1>17. ASSUME NEW v \in Workers, ReaperRead(v) PROVE OwnerInv'
  BY <1>17, SMTT(60) DEF ReaperRead, Live
<1>18. ASSUME NEW v \in Workers, ReaperRecover(v) PROVE OwnerInv'
  <2>1. /\ \A j \in Jobs : j # work[v] => row'[j] = row[j]
        /\ \A j \in Jobs : row'[j].status = "absent" <=> row[j].status = "absent"
    BY <1>18, RecoverFrame DEF ReaperRecover
  <2>2. /\ reaper' = [reaper EXCEPT ![v] = "off"]
        /\ UNCHANGED <<remote, workerVars, apc, apiVars>>
        /\ reaper[v] = "recover"
    BY <1>18 DEF ReaperRecover
  <2>3. /\ ~Gone(v)
        /\ \A w \in Workers : IsWriter(w) => work[w] # work[v]
        /\ apc \in Launching => work[v] # ajob
    BY <2>2
  <2>4. ExistInv'  BY <2>1, <2>2
  <2>5. LaunchInv' BY <2>1, <2>2, <2>3
  <2>6. ReaperInv' BY <2>2
  <2>7. WriterInv' BY <2>1, <2>2, <2>3
  <2> QED BY <2>4, <2>5, <2>6, <2>7
<1>19. ASSUME NEW v \in Workers, StdinEOF(v) PROVE OwnerInv'
  BY <1>19 DEF StdinEOF
<1>20. ASSUME NEW v \in Workers, BuildJob(v) PROVE OwnerInv'
  BY <1>20 DEF BuildJob
<1>21. ASSUME NEW v \in Workers, SetWorkerPid(v) PROVE OwnerInv'
  BY <1>21 DEF SetWorkerPid
<1>22. ASSUME NEW v \in Workers, MarkStarted(v) PROVE OwnerInv'
  BY <1>22 DEF MarkStarted
<1>23. ASSUME NEW v \in Workers, PersistMerge(v) PROVE OwnerInv'
  BY <1>23, SMTT(60) DEF PersistMerge
<1>24. ASSUME NEW v \in Workers, PersistSave(v) PROVE OwnerInv'
  BY <1>24, SMTT(60) DEF PersistSave, Save
<1>25. ASSUME NEW v \in Workers, Progress(v) PROVE OwnerInv'
  BY <1>25 DEF Progress
<1>26. ASSUME NEW v \in Workers, SkipPart(v) PROVE OwnerInv'
  BY <1>26 DEF SkipPart
<1>27. ASSUME NEW v \in Workers, BeginUpload(v) PROVE OwnerInv'
  BY <1>27 DEF BeginUpload
<1>28. ASSUME NEW v \in Workers, FinishUpload(v) PROVE OwnerInv'
  BY <1>28, SMTT(60) DEF FinishUpload
<1>29. ASSUME NEW v \in Workers, Fail(v) PROVE OwnerInv'
  BY <1>29 DEF Fail, Finish
<1>30. ASSUME NEW v \in Workers, CancelObserved(v) PROVE OwnerInv'
  BY <1>30 DEF CancelObserved, Finish
<1>31. ASSUME NEW v \in Workers, Complete(v) PROVE OwnerInv'
  BY <1>31 DEF Complete, Finish
<1>32. ASSUME NEW v \in Workers, FinalSave(v) PROVE OwnerInv'
  BY <1>32, SMTT(60) DEF FinalSave, Save
<1>33. ASSUME NEW v \in Workers, Exit(v) PROVE OwnerInv'
  BY <1>33 DEF Exit
<1>34. ASSUME NEW v \in Workers, WorkerCrash(v) PROVE OwnerInv'
  BY <1>34 DEF WorkerCrash, Live
<1>35. CASE UNCHANGED vars
  BY <1>35
<1> QED BY <1>1, <1>2, <1>3, <1>4, <1>5, <1>6, <1>7, <1>8, <1>9, <1>10, <1>11, <1>12, <1>13, <1>14, <1>15, <1>16, <1>17, <1>18, <1>19, <1>20, <1>21, <1>22, <1>23, <1>24, <1>25, <1>26, <1>27, <1>28, <1>29, <1>30, <1>31, <1>32, <1>33, <1>34, <1>35
   DEF Next, Request, Handler, Restart, Worker, Reaper, Advance
LEMMA OwnerAlways == ASSUME ResumeAfterExit PROVE Spec => [](TypeInv /\ OwnerInv)
<1>1. Init => TypeInv /\ OwnerInv
  BY TypeInit, OwnerInit
<1>2. TypeInv /\ OwnerInv /\ [Next]_vars => (TypeInv /\ OwnerInv)'
  BY TypeStep, OwnerStep
<1> QED BY <1>1, <1>2, PTL DEF Spec

LEMMA WritersAreWriters ==
  ASSUME TypeOK, NEW j
  PROVE  Writers(j) = {w \in Workers : work[w] = j /\ IsWriter(w)}
  BY DEF Writers, IsWriter, Live, TypeOK, WorkerPC

\* No job is ever run by two workers, whatever launches, resumes, crashes and
\* recoveries interleave, when resumes leave ended workers time to be reaped.
THEOREM OneWriter == ASSUME ResumeAfterExit PROVE Spec => []AtMostOneWriter
<1>1. TypeInv /\ OwnerInv => AtMostOneWriter
  <2> SUFFICES ASSUME TypeInv, OwnerInv, NEW j \in Jobs
               PROVE  Cardinality(Writers(j)) <= 1
    BY DEF AtMostOneWriter
  <2>1. Writers(j) = {w \in Workers : work[w] = j /\ IsWriter(w)}
    BY WritersAreWriters DEF TypeInv
  <2>2. CASE Writers(j) = {}
    BY <2>2, FS_EmptySet
  <2>3. ASSUME NEW w, Writers(j) = {w} PROVE Cardinality(Writers(j)) = 1
    BY <2>3, FS_Singleton, Zenon
  <2>4. ASSUME NEW w \in Writers(j) PROVE Writers(j) = {w}
    <3>1. w \in Workers /\ work[w] = j /\ IsWriter(w)
      BY <2>1
    <3>2. \A u \in Workers \ {w} : ~(work[u] = j /\ IsWriter(u))
      BY <3>1 DEF OwnerInv, WriterInv, IsWriter, Gone
    <3> QED BY <2>1, <3>1, <3>2
  <2> QED BY <2>1, <2>2, <2>3, <2>4
<1> QED BY <1>1, OwnerAlways, PTL

\* A job recorded as interrupted has no worker left that still exports, under the
\* same assumption: reapers and start-ups recover ended workers only.
THEOREM InterruptedStopped ==
  ASSUME ResumeAfterExit PROVE Spec => []InterruptedMeansStopped
<1>1. TypeInv /\ OwnerInv => InterruptedMeansStopped
  BY WritersAreWriters
  DEF TypeInv, OwnerInv, WriterInv, InterruptedMeansStopped, Active
<1> QED BY <1>1, OwnerAlways, PTL

-----------------------------------------------------------------------------
(***************************************************************************)
(* What the store calls finished is at the destination.  With S3 the parts *)
(* of a job only accumulate.  SFTP takes the part it is about to write     *)
(* away, so there the proof also needs that no record claims more parts    *)
(* than the job's only writer has dealt with (CoverInv).                   *)
(***************************************************************************)
Durable(j, rec) ==
  1..rec.parts \subseteq remote[j] /\ (rec.status = "completed" => remote[j] = Parts)

RowsDurable == \A j \in Jobs : Durable(j, row[j])

WorkersDurable ==
  \A w \in Workers : IsWriter(w) =>
    /\ pc[w] # "boot" => Durable(work[w], mem[w])
    /\ 1..done[w] \subseteq remote[work[w]]

FreshInv ==
  \A w \in Workers : pc[w] \in {"unused", "stdin", "boot"} => done[w] = 0 /\ ~uploading[w]

HandlerDurable == apc \notin {"down", "recover", "idle", "annotate"} => Durable(ajob, amem)

DurableInv == RowsDurable /\ WorkersDurable /\ FreshInv /\ HandlerDurable

CoverInv ==
  \A w \in Workers : IsWriter(w) =>
    /\ pc[w] # "boot" => row[work[w]].parts <= mem[w].parts
    /\ apc = "annotated" /\ ajob = work[w] => amem.parts <= row[ajob].parts

LEMMA DurableInit == Init => DurableInv /\ CoverInv
  BY ConstantsAssumption DEF Init, DurableInv, RowsDurable, WorkersDurable, FreshInv,
     HandlerDurable, CoverInv, Durable, IsWriter, Absent

\* The part that SFTP opens for writing, or removes, is one no record claims.
Withdrawn(v) ==
  /\ ~AtomicUpload
  /\ remote' = [remote EXCEPT ![work[v]] = @ \ {done[v] + 1}]
  /\ pc[v] = "run" /\ mem[v].parts <= done[v]
  /\ UNCHANGED <<row, work, done, apc, ajob, amem>>

LEMMA WithdrawSafe ==
  ASSUME TypeInv, OwnerInv, CoverInv, DurableInv, NEW v \in Workers, Withdrawn(v)
  PROVE  /\ RowsDurable' /\ HandlerDurable'
         /\ \A w \in Workers \ {v} : IsWriter(w) => remote'[work[w]] = remote[work[w]]
         /\ 1..done[v] \subseteq remote'[work[v]]
         /\ 1..mem[v].parts \subseteq remote'[work[v]]
         /\ mem[v].status # "completed"
<1> USE ConstantsAssumption
    DEF TypeInv, TypeOK, PlacementInv, Record, WorkerPC, ApiPC, Withdrawn, IsWriter
<1>1. /\ work[v] \in Jobs /\ IsWriter(v) /\ done[v] \in Nat /\ mem[v].parts \in Nat
      /\ \A j \in Jobs : row[j].parts \in Nat
      /\ amem.parts \in Nat
  OBVIOUS
<1>2. /\ row[work[v]].status \in Active /\ mem[v].status \in Active
      /\ \A w \in Workers \ {v} : IsWriter(w) => work[w] # work[v]
      /\ apc \in Launching => ajob # work[v]
      /\ apc = "annotated" /\ ajob = work[v] => amem.status \in Active
  BY <1>1 DEF OwnerInv, WriterInv, LaunchInv, Gone
<1>3. /\ row[work[v]].parts <= done[v]
      /\ apc = "annotated" /\ ajob = work[v] => amem.parts <= done[v]
  BY <1>1 DEF CoverInv
<1>4. RowsDurable'
  BY <1>1, <1>2, <1>3 DEF DurableInv, RowsDurable, Durable, Active
<1>5. HandlerDurable'
  BY <1>1, <1>2, <1>3 DEF DurableInv, HandlerDurable, Durable, Active, Launching
<1>6. 1..done[v] \subseteq remote'[work[v]] /\ 1..mem[v].parts \subseteq remote'[work[v]]
  BY <1>1 DEF DurableInv, WorkersDurable, Durable
<1> QED BY <1>1, <1>2, <1>4, <1>5, <1>6 DEF Active

\* A step of one exporting worker that may change its object, its progress and the
\* destination, and takes nothing from the other workers.
LEMMA RunStep ==
  ASSUME TypeInv, DurableInv, NEW v \in Workers, pc[v] = "run",
         pc'[v] \in {"run", "merge", "final"},
         \A w \in Workers \ {v} : /\ mem'[w] = mem[w] /\ done'[w] = done[w]
                                 /\ pc'[w] = pc[w] /\ uploading'[w] = uploading[w],
         \A w \in Workers \ {v} : IsWriter(w) => remote'[work[w]] = remote[work[w]]
                                              \/ remote[work[w]] \subseteq remote'[work[w]],
         remote' \in [Jobs -> SUBSET Parts], work' = work,
         RowsDurable', HandlerDurable',
         Durable(work[v], mem[v])', 1..done'[v] \subseteq remote'[work[v]]
  PROVE  DurableInv'
<1>1. \A w \in Workers : IsWriter(w)' => IsWriter(w)
  BY DEF IsWriter, WorkerPC
<1>2. \A w \in Workers : IsWriter(w) => work[w] \in Jobs
  BY DEF IsWriter, TypeInv, PlacementInv
<1>3. ASSUME NEW w \in Workers \ {v}, IsWriter(w)
      PROVE  /\ pc[w] # "boot" => Durable(work[w], mem[w])'
             /\ 1..done'[w] \subseteq remote'[work[w]]
  BY <1>2, <1>3, ZenonT(60) DEF DurableInv, WorkersDurable, Durable, Parts
<1>4. WorkersDurable'
  BY <1>1, <1>3 DEF WorkersDurable
<1>5. FreshInv'
  BY DEF DurableInv, FreshInv
<1> QED BY <1>4, <1>5 DEF DurableInv

\* An attempt that ends early takes at most the part it was sending with it.
LEMMA GiveUpSafe ==
  ASSUME AtomicUpload \/ (OwnerInv /\ CoverInv), TypeInv, TypeInv', DurableInv,
         NEW v \in Workers, NEW status \in {"failed", "cancelled"}, NEW cancel,
         pc[v] = "run", Finish(v, status, cancel)
  PROVE  DurableInv'
<1>1. /\ mem'[v].parts = mem[v].parts /\ mem'[v].status = status /\ pc'[v] = "final"
      /\ \A w \in Workers \ {v} : /\ mem'[w] = mem[w] /\ pc'[w] = pc[w]
                                 /\ uploading'[w] = uploading[w]
      /\ UNCHANGED <<row, work, done, apc, ajob, amem>>
  BY DEF Finish, workerVars, apiVars, TypeInv, TypeOK, Record
<1>2. remote' \in [Jobs -> SUBSET Parts]
  BY DEF TypeInv, TypeOK
<1>3. IsWriter(v) /\ pc[v] # "boot"
  BY DEF IsWriter, WorkerPC
<1>4. CASE remote' = remote
  <2>1. RowsDurable' /\ HandlerDurable'
    BY <1>1, <1>4 DEF DurableInv, RowsDurable, HandlerDurable, Durable
  <2>2. Durable(work[v], mem[v])' /\ 1..done'[v] \subseteq remote'[work[v]]
    BY <1>1, <1>3, <1>4 DEF DurableInv, WorkersDurable, Durable
  <2> QED BY <1>1, <1>2, <1>4, <2>1, <2>2, RunStep
<1>5. CASE remote' # remote
  <2>1. Withdrawn(v) /\ ~AtomicUpload
    BY <1>1, <1>5 DEF Finish, Withdrawn, TypeInv, UploadInv
  <2>2. Durable(work[v], mem[v])' /\ 1..done'[v] \subseteq remote'[work[v]]
    BY <1>1, <2>1, WithdrawSafe DEF Durable
  <2> QED BY <1>1, <1>2, <2>1, <2>2, WithdrawSafe, RunStep
<1> QED BY <1>4, <1>5

LEMMA BeginSafe ==
  ASSUME AtomicUpload \/ (OwnerInv /\ CoverInv), TypeInv, TypeInv', DurableInv,
         NEW v \in Workers, BeginUpload(v)
  PROVE  DurableInv'
<1>1. /\ UNCHANGED <<row, pc, work, mem, done, apc, ajob, amem>>
      /\ pc[v] = "run" /\ mem[v].parts <= done[v]
      /\ \A w \in Workers \ {v} : uploading'[w] = uploading[w]
  BY DEF BeginUpload, apiVars, TypeInv, TypeOK
<1>2. remote' \in [Jobs -> SUBSET Parts]
  BY DEF TypeInv, TypeOK
<1>3. IsWriter(v) /\ pc[v] # "boot"
  BY <1>1 DEF IsWriter, WorkerPC
<1>4. CASE remote' = remote
  <2>1. RowsDurable' /\ HandlerDurable'
    BY <1>1, <1>4 DEF DurableInv, RowsDurable, HandlerDurable, Durable
  <2>2. Durable(work[v], mem[v])' /\ 1..done'[v] \subseteq remote'[work[v]]
    BY <1>1, <1>3, <1>4 DEF DurableInv, WorkersDurable, Durable
  <2> QED BY <1>1, <1>2, <1>4, <2>1, <2>2, RunStep
<1>5. CASE remote' # remote
  <2>1. Withdrawn(v) /\ ~AtomicUpload
    BY <1>1, <1>5 DEF BeginUpload, Withdrawn
  <2>2. Durable(work[v], mem[v])' /\ 1..done'[v] \subseteq remote'[work[v]]
    BY <1>1, <2>1, WithdrawSafe DEF Durable
  <2> QED BY <1>1, <1>2, <2>1, <2>2, WithdrawSafe, RunStep
<1> QED BY <1>4, <1>5

LEMMA FinishSafe ==
  ASSUME TypeInv, TypeInv', DurableInv, NEW v \in Workers, FinishUpload(v)
  PROVE  DurableInv'
<1> USE ConstantsAssumption
<1>1. /\ UNCHANGED <<row, work, apc, ajob, amem>>
      /\ pc[v] = "run" /\ pc'[v] \in {"run", "merge"}
      /\ \A w \in Workers \ {v} : /\ mem'[w] = mem[w] /\ done'[w] = done[w]
                                 /\ pc'[w] = pc[w] /\ uploading'[w] = uploading[w]
      /\ mem'[v].parts \in {mem[v].parts, done'[v]} /\ mem'[v].status = mem[v].status
      /\ done'[v] = done[v] + 1 /\ done[v] \in Nat /\ mem[v].parts \in Nat
  BY DEF FinishUpload, apiVars, TypeInv, TypeOK, Record
<1>2. /\ work[v] \in Jobs
      /\ remote' = [remote EXCEPT ![work[v]] = @ \cup {done[v] + 1}]
      /\ remote' \in [Jobs -> SUBSET Parts] /\ remote \in [Jobs -> SUBSET Parts]
  BY DEF FinishUpload, TypeInv, TypeOK, PlacementInv
<1>3. \A j \in Jobs : remote[j] \subseteq remote'[j]
  BY <1>2
<1>4. IsWriter(v) /\ pc[v] # "boot"
  BY <1>1 DEF IsWriter, WorkerPC
<1>5. 1..done'[v] \subseteq remote'[work[v]]
  <2>1. 1..done[v] \subseteq remote[work[v]]
    BY <1>4 DEF DurableInv, WorkersDurable
  <2>2. 1..(done[v] + 1) \subseteq 1..done[v] \cup {done[v] + 1}
    BY <1>1
  <2> QED BY <1>1, <1>2, <2>1, <2>2
<1>6. Durable(work[v], mem[v])'
  <2>1. Durable(work[v], mem[v])
    BY <1>4 DEF DurableInv, WorkersDurable
  <2>2. 1..mem'[v].parts \subseteq remote'[work[v]]
    BY <1>1, <1>2, <1>3, <1>5, <2>1 DEF Durable
  <2>3. mem'[v].status = "completed" => remote'[work[v]] = Parts
    BY <1>1, <1>2, <1>3, <2>1 DEF Durable
  <2> QED BY <1>1, <2>2, <2>3 DEF Durable
<1>7. RowsDurable'
  BY <1>1, <1>2, <1>3 DEF DurableInv, RowsDurable, Durable
<1>8. HandlerDurable'
  BY <1>1, <1>2, <1>3 DEF DurableInv, HandlerDurable, Durable, TypeInv, PlacementInv
<1> QED BY <1>1, <1>2, <1>3, <1>5, <1>6, <1>7, <1>8, RunStep,
           \A w \in Workers : IsWriter(w) => work[w] \in Jobs
        DEF TypeInv, PlacementInv, IsWriter

LEMMA CompleteSafe ==
  ASSUME TypeInv, TypeInv', DurableInv, NEW v \in Workers, Complete(v)
  PROVE  DurableInv'
<1> USE ConstantsAssumption
<1>1. /\ mem'[v].parts = mem[v].parts /\ done[v] = NumParts
      /\ pc[v] = "run" /\ pc'[v] = "final"
      /\ \A w \in Workers \ {v} : /\ mem'[w] = mem[w] /\ pc'[w] = pc[w]
                                 /\ uploading'[w] = uploading[w]
      /\ UNCHANGED <<row, remote, work, done, apc, ajob, amem>>
  BY DEF Complete, Finish, apiVars, TypeInv, TypeOK, Record
<1>2. work[v] \in Jobs /\ remote \in [Jobs -> SUBSET Parts]
  BY <1>1 DEF TypeInv, TypeOK, PlacementInv
<1>3. 1..done[v] \subseteq remote[work[v]] /\ Durable(work[v], mem[v])
  BY <1>1 DEF DurableInv, WorkersDurable, IsWriter, WorkerPC
<1>4. Durable(work[v], mem[v])'
  BY <1>1, <1>2, <1>3 DEF Durable, Parts
<1>5. RowsDurable' /\ HandlerDurable'
  BY <1>1 DEF DurableInv, RowsDurable, HandlerDurable, Durable
<1> QED BY <1>1, <1>2, <1>3, <1>4, <1>5, RunStep

LEMMA SaveSafe ==
  ASSUME TypeInv, DurableInv, NEW v \in Workers, pc[v] \in {"save", "final"},
         Save(work[v], mem[v]), UNCHANGED <<remote, work, mem>>
  PROVE  RowsDurable'
<1>1. Durable(work[v], mem[v]) /\ work[v] \in Jobs /\ row \in [Jobs -> Record]
  BY DEF DurableInv, WorkersDurable, IsWriter, WorkerPC, TypeInv, TypeOK, PlacementInv
<1>2. /\ row'[work[v]].parts = mem[v].parts /\ row'[work[v]].status = mem[v].status
      /\ \A j \in Jobs \ {work[v]} : row'[j] = row[j]
  BY <1>1 DEF Save, TypeInv, TypeOK, Record
<1> QED BY <1>1, <1>2 DEF DurableInv, RowsDurable, Durable

LEMMA RecoverSafe ==
  ASSUME TypeInv, DurableInv, NEW js, Recover(js), remote' = remote
  PROVE  RowsDurable'
  BY RecoverFrame DEF TypeInv, TypeOK, DurableInv, RowsDurable, Durable

LEMMA DurableStep ==
  /\ AtomicUpload \/ (OwnerInv /\ CoverInv)
  /\ TypeInv /\ TypeInv' /\ DurableInv /\ [Next]_vars
  => DurableInv'
<1> SUFFICES ASSUME AtomicUpload \/ (OwnerInv /\ CoverInv),
                    TypeInv, TypeInv', DurableInv, [Next]_vars
             PROVE  DurableInv'
  OBVIOUS
<1> USE ConstantsAssumption
    DEF TypeInv, TypeOK, PlacementInv, DurableInv, RowsDurable, WorkersDurable, FreshInv,
        HandlerDurable, Durable, IsWriter, Record, WorkerPC, ApiPC, Parts, vars, workerVars, apiVars
<1>1. ASSUME NEW j \in Jobs, CreateJob(j) PROVE DurableInv'
  BY <1>1, SMTT(60) DEF CreateJob, Save, NewJob, Absent
<1>2. ASSUME NEW j \in Jobs, ResumeRead(j) PROVE DurableInv'
  BY <1>2 DEF ResumeRead, NewJob, Absent
<1>3. ASSUME NEW j \in Jobs, Cancel(j) PROVE DurableInv'
  BY <1>3, SMTT(60) DEF Cancel
<1>4. CASE ResumeClearCancel
  BY <1>4 DEF ResumeClearCancel
<1>5. CASE ResumeSave
  BY <1>5 DEF ResumeSave, Save
<1>6. ASSUME NEW v \in Workers, SpawnWorker(v) PROVE DurableInv'
  BY <1>6 DEF SpawnWorker
<1>7. CASE SpawnFails
  BY <1>7 DEF SpawnFails, LaunchFailed, Save
<1>8. CASE PersistPid
  BY <1>8 DEF PersistPid, Save
<1>9. CASE SendPayload
  BY <1>9 DEF SendPayload
<1>10. CASE SendPayloadFails
  BY <1>10 DEF SendPayloadFails, LaunchFailed, Save
<1>11. CASE AnnotateRead
  BY <1>11 DEF AnnotateRead
<1>12. CASE AnnotateSave
  BY <1>12 DEF AnnotateSave, Save
<1>13. CASE ApiCrash
  BY <1>13 DEF ApiCrash
<1>14. CASE ServiceStop
  BY <1>14 DEF ServiceStop, Live
<1>15. CASE ApiStart
  BY <1>15 DEF ApiStart
<1>16. CASE RecoverOrphans
  BY <1>16, ZenonT(60) DEF RecoverOrphans, Recover
<1>17. ASSUME NEW v \in Workers, ReaperRead(v) PROVE DurableInv'
  BY <1>17 DEF ReaperRead
<1>18. ASSUME NEW v \in Workers, ReaperRecover(v) PROVE DurableInv'
  <2>1. RowsDurable'
    BY <1>18, RecoverSafe DEF ReaperRecover
  <2> QED BY <1>18, <2>1 DEF ReaperRecover
<1>19. ASSUME NEW v \in Workers, StdinEOF(v) PROVE DurableInv'
  BY <1>19 DEF StdinEOF
<1>20. ASSUME NEW v \in Workers, BuildJob(v) PROVE DurableInv'
  BY <1>20 DEF BuildJob
<1>21. ASSUME NEW v \in Workers, SetWorkerPid(v) PROVE DurableInv'
  BY <1>21 DEF SetWorkerPid
<1>22. ASSUME NEW v \in Workers, MarkStarted(v) PROVE DurableInv'
  BY <1>22 DEF MarkStarted
<1>23. ASSUME NEW v \in Workers, PersistMerge(v) PROVE DurableInv'
  BY <1>23, SMTT(60) DEF PersistMerge
<1>24. ASSUME NEW v \in Workers, PersistSave(v) PROVE DurableInv'
  <2>1. RowsDurable'
    BY <1>24, SaveSafe DEF PersistSave
  <2> QED BY <1>24, <2>1 DEF PersistSave
<1>25. ASSUME NEW v \in Workers, Progress(v) PROVE DurableInv'
  BY <1>25 DEF Progress
<1>26. ASSUME NEW v \in Workers, SkipPart(v) PROVE DurableInv'
  BY <1>26 DEF SkipPart
<1>27. ASSUME NEW v \in Workers, BeginUpload(v) PROVE DurableInv'
  BY <1>27, BeginSafe
<1>28. ASSUME NEW v \in Workers, FinishUpload(v) PROVE DurableInv'
  BY <1>28, FinishSafe
<1>29. ASSUME NEW v \in Workers, Fail(v) PROVE DurableInv'
  <2>1. Finish(v, "failed", mem[v].cancel) /\ pc[v] = "run"
    BY <1>29 DEF Fail
  <2> QED BY <2>1, GiveUpSafe
<1>30. ASSUME NEW v \in Workers, CancelObserved(v) PROVE DurableInv'
  <2>1. Finish(v, "cancelled", TRUE) /\ pc[v] = "run"
    BY <1>30 DEF CancelObserved
  <2> QED BY <2>1, GiveUpSafe
<1>31. ASSUME NEW v \in Workers, Complete(v) PROVE DurableInv'
  BY <1>31, CompleteSafe
<1>32. ASSUME NEW v \in Workers, FinalSave(v) PROVE DurableInv'
  <2>1. RowsDurable'
    BY <1>32, SaveSafe DEF FinalSave
  <2> QED BY <1>32, <2>1 DEF FinalSave
<1>33. ASSUME NEW v \in Workers, Exit(v) PROVE DurableInv'
  BY <1>33 DEF Exit
<1>34. ASSUME NEW v \in Workers, WorkerCrash(v) PROVE DurableInv'
  BY <1>34 DEF WorkerCrash
<1>35. CASE UNCHANGED vars
  BY <1>35
<1> QED
  BY <1>1, <1>2, <1>3, <1>4, <1>5, <1>6, <1>7, <1>8, <1>9, <1>10, <1>11, <1>12,
     <1>13, <1>14, <1>15, <1>16, <1>17, <1>18, <1>19, <1>20, <1>21, <1>22, <1>23,
     <1>24, <1>25, <1>26, <1>27, <1>28, <1>29, <1>30, <1>31, <1>32, <1>33, <1>34,
     <1>35
  DEF Next, Request, Handler, Restart, Worker, Reaper, Advance

LEMMA CoverStep ==
  TypeInv /\ TypeInv' /\ OwnerInv /\ CoverInv /\ [Next]_vars => CoverInv'
<1> SUFFICES ASSUME TypeInv, TypeInv', OwnerInv, CoverInv, [Next]_vars
             PROVE  CoverInv'
  OBVIOUS
<1> USE ConstantsAssumption
    DEF TypeInv, TypeOK, PlacementInv, UploadInv, OwnerInv, ExistInv, LaunchInv, ReaperInv,
        WriterInv, CoverInv, IsWriter, Gone, Launching, Active, Record, WorkerPC, ApiPC,
        vars, workerVars, apiVars
<1>1. ASSUME NEW j \in Jobs, CreateJob(j) PROVE CoverInv'
  BY <1>1 DEF CreateJob, Save, NewJob, Absent
<1>2. ASSUME NEW j \in Jobs, ResumeRead(j) PROVE CoverInv'
  BY <1>2 DEF ResumeRead, NewJob, Absent
<1>3. ASSUME NEW j \in Jobs, Cancel(j) PROVE CoverInv'
  BY <1>3 DEF Cancel
<1>4. CASE ResumeClearCancel
  BY <1>4 DEF ResumeClearCancel
<1>5. CASE ResumeSave
  BY <1>5 DEF ResumeSave, Save
<1>6. ASSUME NEW v \in Workers, SpawnWorker(v) PROVE CoverInv'
  BY <1>6 DEF SpawnWorker
<1>7. CASE SpawnFails
  BY <1>7 DEF SpawnFails, LaunchFailed, Save
<1>8. CASE PersistPid
  BY <1>8 DEF PersistPid, Save
<1>9. CASE SendPayload
  BY <1>9 DEF SendPayload
<1>10. CASE SendPayloadFails
  BY <1>10 DEF SendPayloadFails, LaunchFailed, Save
<1>11. CASE AnnotateRead
  BY <1>11 DEF AnnotateRead
<1>12. CASE AnnotateSave
  BY <1>12 DEF AnnotateSave, Save
<1>13. CASE ApiCrash
  BY <1>13 DEF ApiCrash
<1>14. CASE ServiceStop
  BY <1>14 DEF ServiceStop, Live
<1>15. CASE ApiStart
  BY <1>15 DEF ApiStart
<1>16. CASE RecoverOrphans
  BY <1>16 DEF RecoverOrphans, Recover
<1>17. ASSUME NEW v \in Workers, ReaperRead(v) PROVE CoverInv'
  BY <1>17 DEF ReaperRead
<1>18. ASSUME NEW v \in Workers, ReaperRecover(v) PROVE CoverInv'
  BY <1>18, RecoverFrame DEF ReaperRecover
<1>19. ASSUME NEW v \in Workers, StdinEOF(v) PROVE CoverInv'
  BY <1>19 DEF StdinEOF
<1>20. ASSUME NEW v \in Workers, BuildJob(v) PROVE CoverInv'
  BY <1>20 DEF BuildJob
<1>21. ASSUME NEW v \in Workers, SetWorkerPid(v) PROVE CoverInv'
  BY <1>21 DEF SetWorkerPid
<1>22. ASSUME NEW v \in Workers, MarkStarted(v) PROVE CoverInv'
  BY <1>22 DEF MarkStarted
<1>23. ASSUME NEW v \in Workers, PersistMerge(v) PROVE CoverInv'
  BY <1>23 DEF PersistMerge
<1>24. ASSUME NEW v \in Workers, PersistSave(v) PROVE CoverInv'
  BY <1>24 DEF PersistSave, Save
<1>25. ASSUME NEW v \in Workers, Progress(v) PROVE CoverInv'
  BY <1>25 DEF Progress
<1>26. ASSUME NEW v \in Workers, SkipPart(v) PROVE CoverInv'
  BY <1>26 DEF SkipPart
<1>27. ASSUME NEW v \in Workers, BeginUpload(v) PROVE CoverInv'
  BY <1>27 DEF BeginUpload
<1>28. ASSUME NEW v \in Workers, FinishUpload(v) PROVE CoverInv'
  BY <1>28 DEF FinishUpload
<1>29. ASSUME NEW v \in Workers, Fail(v) PROVE CoverInv'
  BY <1>29 DEF Fail, Finish
<1>30. ASSUME NEW v \in Workers, CancelObserved(v) PROVE CoverInv'
  BY <1>30 DEF CancelObserved, Finish
<1>31. ASSUME NEW v \in Workers, Complete(v) PROVE CoverInv'
  BY <1>31 DEF Complete, Finish
<1>32. ASSUME NEW v \in Workers, FinalSave(v) PROVE CoverInv'
  BY <1>32 DEF FinalSave, Save
<1>33. ASSUME NEW v \in Workers, Exit(v) PROVE CoverInv'
  BY <1>33 DEF Exit
<1>34. ASSUME NEW v \in Workers, WorkerCrash(v) PROVE CoverInv'
  BY <1>34 DEF WorkerCrash
<1>35. CASE UNCHANGED vars
  BY <1>35
<1> QED
  BY <1>1, <1>2, <1>3, <1>4, <1>5, <1>6, <1>7, <1>8, <1>9, <1>10, <1>11, <1>12,
     <1>13, <1>14, <1>15, <1>16, <1>17, <1>18, <1>19, <1>20, <1>21, <1>22, <1>23,
     <1>24, <1>25, <1>26, <1>27, <1>28, <1>29, <1>30, <1>31, <1>32, <1>33, <1>34,
     <1>35
  DEF Next, Request, Handler, Restart, Worker, Reaper, Advance

LEMMA DurableAlways ==
  ASSUME AtomicUpload \/ ResumeAfterExit PROVE Spec => [](TypeInv /\ DurableInv)
<1> DEFINE Inv == TypeInv /\ DurableInv /\ (ResumeAfterExit => OwnerInv /\ CoverInv)
<1>1. Init => Inv
  BY TypeInit, OwnerInit, DurableInit
<1>2. Inv /\ [Next]_vars => Inv'
  BY TypeStep, OwnerStep, DurableStep, CoverStep
<1>3. Inv => TypeInv /\ DurableInv
  OBVIOUS
<1> HIDE DEF Inv
<1> QED BY <1>1, <1>2, <1>3, PTL DEF Spec

\* Every part the store calls completed is at the destination: with S3 always, with
\* SFTP when resumes leave ended workers time to be reaped.
THEOREM CheckpointsDurable ==
  ASSUME AtomicUpload \/ ResumeAfterExit PROVE Spec => []CheckpointsAreRemote
<1>1. DurableInv => CheckpointsAreRemote
  BY DEF DurableInv, RowsDurable, Durable, CheckpointsAreRemote
<1> QED BY <1>1, DurableAlways, PTL

\* An export recorded as completed is whole at the destination, for any number of
\* parts, workers, resumes and crashes, under the same alternative.
THEOREM CompletedDurable ==
  ASSUME AtomicUpload \/ ResumeAfterExit PROVE Spec => []CompletedExportIsRemote
<1>1. DurableInv => CompletedExportIsRemote
  BY DEF DurableInv, RowsDurable, Durable, CompletedExportIsRemote
<1> QED BY <1>1, DurableAlways, PTL

-----------------------------------------------------------------------------
(***************************************************************************)
(* A cancellation is withdrawn by the resume handler alone.                *)
(***************************************************************************)
\* A full-row write keeps a cancellation that is in the store.
LEMMA SaveKeepsCancel ==
  ASSUME row \in [Jobs -> Record], NEW k, NEW rec \in Record, Save(k, rec)
  PROVE  \A j \in Jobs : row[j].cancel => row'[j].cancel
  BY SMTT(60) DEF Save, Record

LEMMA RecoverKeepsCancel ==
  ASSUME row \in [Jobs -> Record], NEW js, Recover(js)
  PROVE  \A j \in Jobs : row[j].cancel => row'[j].cancel
  BY ZenonT(60) DEF Recover, Record

\* Whatever a worker, a reaper or a handler saves, with whatever it read before the
\* request arrived, a requested cancellation stays; the resume handler alone takes
\* it back, for the job it resumes.
THEOREM CancelSticks == Spec => CancelIsSticky
<1> DEFINE Kept == \A j \in Jobs : row[j].cancel => row'[j].cancel
           Withdrawn1 == apc = "clear" /\ apc' = "resume"
                         /\ \A j \in Jobs : row[j].cancel /\ ~row'[j].cancel => ajob = j
           Sticks == \A j \in Jobs : row[j].cancel /\ ~row'[j].cancel =>
                       apc = "clear" /\ apc' = "resume" /\ ajob = j
<1>1. TypeInv /\ [Next]_vars => Kept \/ Withdrawn1
  <2> SUFFICES ASSUME TypeInv, [Next]_vars PROVE Kept \/ Withdrawn1
    OBVIOUS
  <2>1. row \in [Jobs -> Record] /\ amem \in Record /\ mem \in [Workers -> Record]
    BY DEF TypeInv, TypeOK
  <2>2. row' = row => Kept
    OBVIOUS
  <2>3. (\E k \in Jobs \cup {NoJob} : \E rec \in Record : Save(k, rec)) => Kept
    BY <2>1, SaveKeepsCancel
  <2>4. ASSUME NEW j \in Jobs, Request(j) PROVE Kept
    <3>1. CASE CreateJob(j)
      BY <3>1, <2>1, <2>3, NewJobType, ConstantsAssumption DEF CreateJob
    <3>2. CASE ResumeRead(j)
      BY <3>2 DEF ResumeRead
    <3>3. CASE Cancel(j)
      BY <3>3, <2>1, SMTT(60) DEF Cancel, Record
    <3> QED BY <2>4, <3>1, <3>2, <3>3 DEF Request
  <2>5. CASE ResumeClearCancel
    BY <2>5, <2>1, SMTT(60) DEF ResumeClearCancel, Record
  <2>6. ASSUME Handler, ~ResumeClearCancel PROVE Kept
    <3>1. ajob \in Jobs \cup {NoJob}
      BY DEF TypeInv, TypeOK
    <3>2. CASE SpawnFails \/ SendPayloadFails
      <4>1. [amem EXCEPT !.status = "failed", !.pid = NoWorker] \in Record
        BY <2>1 DEF Record, Terminal, Resumable
      <4> QED BY <3>1, <3>2, <4>1, <2>3 DEF SpawnFails, SendPayloadFails, LaunchFailed
    <3>3. CASE ResumeSave \/ PersistPid \/ AnnotateSave
      BY <3>1, <3>3, <2>1, <2>3 DEF ResumeSave, PersistPid, AnnotateSave
    <3>4. CASE (\E w \in Workers : SpawnWorker(w)) \/ SendPayload \/ AnnotateRead
      BY <3>4 DEF SpawnWorker, SendPayload, AnnotateRead
    <3> QED BY <2>6, <3>2, <3>3, <3>4 DEF Handler
  <2>7. CASE Restart \/ ApiCrash \/ ServiceStop
    BY <2>7, <2>1, RecoverKeepsCancel DEF Restart, ApiStart, RecoverOrphans, ApiCrash, ServiceStop
  <2>8. ASSUME NEW w \in Workers, Worker(w) PROVE Kept
    <3>1. work[w] \in Jobs \cup {NoJob} /\ mem[w] \in Record
      BY DEF TypeInv, TypeOK
    <3>2. CASE PersistSave(w) \/ FinalSave(w)
      BY <3>1, <3>2, <2>3 DEF PersistSave, FinalSave
    <3>3. CASE SetWorkerPid(w)
      BY <3>3, <2>1, SMTT(60) DEF SetWorkerPid, Record
    <3>4. ASSUME Worker(w), ~PersistSave(w), ~FinalSave(w), ~SetWorkerPid(w) PROVE row' = row
      BY <3>4 DEF Worker, StdinEOF, BuildJob, MarkStarted, PersistMerge, Progress, Advance,
           SkipPart, BeginUpload, FinishUpload, Fail, CancelObserved, Complete, Finish, Exit
    <3> QED BY <2>8, <3>2, <3>3, <3>4
  <2>9. ASSUME NEW w \in Workers, Reaper(w) \/ WorkerCrash(w) PROVE Kept
    BY <2>9, <2>1, RecoverKeepsCancel DEF Reaper, ReaperRead, ReaperRecover, WorkerCrash
  <2>10. CASE UNCHANGED vars
    BY <2>10 DEF vars
  <2> QED BY <2>4, <2>5, <2>6, <2>7, <2>8, <2>9, <2>10 DEF Next
<1>2. Kept \/ Withdrawn1 => Sticks
  OBVIOUS
<1>3. TypeInv /\ [Next]_vars => [Sticks]_vars
  BY <1>1, <1>2
<1> HIDE DEF Kept, Withdrawn1
<1> QED BY <1>3, TypeInit, TypeStep, PTL DEF Spec, CancelIsSticky

-----------------------------------------------------------------------------
(***************************************************************************)
(* The processes implement JobContract, job by job.  The one exception is  *)
(* annotate_job_metadata of a scheduled job, which writes back the record  *)
(* it read and so may take back what the worker has written in between.    *)
(***************************************************************************)
\* The contract of some of the jobs, whatever happens to the others.
Of(K) == INSTANCE JobContract WITH
  Jobs <- K,
  status <- [j \in K |-> row[j].status],
  parts <- [j \in K |-> row[j].parts]

\* The annotation of j is saved from a copy that the record has left behind.
TakesBack(j) ==
  /\ AnnotateSave /\ ajob = j
  /\ row[j].status # amem.status \/ row[j].parts # amem.parts

\* A handler holds the checkpoints of the record; nothing else writes it meanwhile.
HandlerStage ==
  /\ apc \in {"clear", "resume"} => row[ajob].status \in Resumable
  /\ apc \in {"spawn", "pid", "payload"} => row[ajob].status = "pending"
  /\ apc \in Launching => amem.parts = row[ajob].parts

\* How far the record is behind the object of the worker that has the job: by the
\* transition, or by the checkpoint, that the next save makes durable.
WorkerStage(w) ==
  LET r == row[work[w]] m == mem[w]
  IN  /\ pc[w] \in {"boot", "loaded", "registered"} => r.status = "pending"
      /\ pc[w] \in {"loaded", "registered"} => m.parts = r.parts
      /\ pc[w] \in {"merge", "save"} =>
           /\ m.status = "running"
           /\ \/ r.status = "pending" /\ m.parts = r.parts
              \/ r.status = "running" /\ m.parts = r.parts
              \/ r.status = "running" /\ m.parts = r.parts + 1 /\ Split
      /\ pc[w] \in {"run", "final"} => r.status = "running" /\ m.parts = r.parts
      /\ pc[w] = "run" => m.status = "running"
      /\ pc[w] = "final" => /\ m.status \in {"failed", "cancelled", "completed"}
                            /\ m.status = "completed" /\ Split => m.parts = NumParts

\* A split export has a checkpoint for every part its worker has dealt with.
ProgressInv ==
  \A w \in Workers :
    /\ pc[w] \in {"unused", "stdin", "boot"} => done[w] = 0
    /\ IsWriter(w) /\ pc[w] # "boot" /\ Split => done[w] <= mem[w].parts

StageInv(K) ==
  /\ \A j \in K : row[j].status = "absent" => row[j].parts = 0
  /\ ajob \in K => HandlerStage
  /\ ProgressInv
  /\ \A w \in Workers : IsWriter(w) /\ work[w] \in K => WorkerStage(w)

LEMMA StageInit == ASSUME NEW K, K \subseteq Jobs PROVE Init => StageInv(K)
  BY ConstantsAssumption DEF Init, StageInv, HandlerStage, ProgressInv, IsWriter, Absent, Launching

LEMMA StageStep ==
  ASSUME NEW K, K \subseteq Jobs, TypeInv, TypeInv', OwnerInv, StageInv(K), [Next]_vars,
         \A j \in K : ~TakesBack(j)
  PROVE  StageInv(K)'
<1> USE ConstantsAssumption
    DEF TypeInv, TypeOK, PlacementInv, UploadInv, OwnerInv, ExistInv, LaunchInv, ReaperInv,
        WriterInv, StageInv, HandlerStage, ProgressInv, WorkerStage, IsWriter, Gone, Launching,
        Active, Resumable, Record, WorkerPC, ApiPC, vars, workerVars, apiVars
<1>1. ASSUME NEW j \in Jobs, CreateJob(j) PROVE StageInv(K)'
  BY <1>1, SMTT(30) DEF CreateJob, Save, NewJob, Absent
<1>2. ASSUME NEW j \in Jobs, ResumeRead(j) PROVE StageInv(K)'
  BY <1>2, SMTT(30) DEF ResumeRead, NewJob, Absent
<1>3. ASSUME NEW j \in Jobs, Cancel(j) PROVE StageInv(K)'
  BY <1>3, SMTT(30) DEF Cancel
<1>4. CASE ResumeClearCancel
  BY <1>4, SMTT(30) DEF ResumeClearCancel
<1>5. CASE ResumeSave
  BY <1>5, SMTT(30) DEF ResumeSave, Save
<1>6. ASSUME NEW v \in Workers, SpawnWorker(v) PROVE StageInv(K)'
  BY <1>6, SMTT(30) DEF SpawnWorker
<1>7. CASE SpawnFails
  BY <1>7, SMTT(30) DEF SpawnFails, LaunchFailed, Save
<1>8. CASE PersistPid
  BY <1>8, SMTT(30) DEF PersistPid, Save
<1>9. CASE SendPayload
  BY <1>9, SMTT(30) DEF SendPayload
<1>10. CASE SendPayloadFails
  BY <1>10, SMTT(30) DEF SendPayloadFails, LaunchFailed, Save, Live
<1>11. CASE AnnotateRead
  BY <1>11, SMTT(30) DEF AnnotateRead
<1>12. CASE AnnotateSave
  BY <1>12, SMTT(30) DEF AnnotateSave, TakesBack, Save
<1>13. CASE ApiCrash
  BY <1>13, SMTT(30) DEF ApiCrash
<1>14. CASE ServiceStop
  BY <1>14, SMTT(30) DEF ServiceStop, Live
<1>15. CASE ApiStart
  BY <1>15, SMTT(30) DEF ApiStart
<1>16. CASE RecoverOrphans
  <2>1. /\ \A j \in Jobs : j \notin stale => row'[j] = row[j]
        /\ \A j \in Jobs : row'[j].status = "absent" <=> row[j].status = "absent"
        /\ \A j \in Jobs : row'[j].parts = row[j].parts
    BY <1>16, RecoverFrame, SMTT(60) DEF RecoverOrphans
  <2> QED BY <1>16, <2>1 DEF RecoverOrphans
<1>17. ASSUME NEW v \in Workers, ReaperRead(v) PROVE StageInv(K)'
  BY <1>17, SMTT(30) DEF ReaperRead
<1>18. ASSUME NEW v \in Workers, ReaperRecover(v) PROVE StageInv(K)'
  <2>1. /\ \A j \in Jobs : j # work[v] => row'[j] = row[j]
        /\ \A j \in Jobs : row'[j].status = "absent" <=> row[j].status = "absent"
        /\ \A j \in Jobs : row'[j].parts = row[j].parts
    BY <1>18, RecoverFrame DEF ReaperRecover
  <2>2. /\ \A w \in Workers : IsWriter(w) => work[w] # work[v]
        /\ apc \in Launching => work[v] # ajob
    BY <1>18 DEF ReaperRecover
  <2> QED BY <1>18, <2>1, <2>2 DEF ReaperRecover
<1>19. ASSUME NEW v \in Workers, StdinEOF(v) PROVE StageInv(K)'
  BY <1>19, SMTT(30) DEF StdinEOF
<1>20. ASSUME NEW v \in Workers, BuildJob(v) PROVE StageInv(K)'
  BY <1>20, SMTT(30) DEF BuildJob
<1>21. ASSUME NEW v \in Workers, SetWorkerPid(v) PROVE StageInv(K)'
  BY <1>21, SMTT(30) DEF SetWorkerPid
<1>22. ASSUME NEW v \in Workers, MarkStarted(v) PROVE StageInv(K)'
  BY <1>22, SMTT(30) DEF MarkStarted
<1>23. ASSUME NEW v \in Workers, PersistMerge(v) PROVE StageInv(K)'
  BY <1>23, SMTT(30) DEF PersistMerge
<1>24. ASSUME NEW v \in Workers, PersistSave(v) PROVE StageInv(K)'
  BY <1>24, SMTT(30) DEF PersistSave, Save
<1>25. ASSUME NEW v \in Workers, Progress(v) PROVE StageInv(K)'
  BY <1>25, SMTT(30) DEF Progress
<1>26. ASSUME NEW v \in Workers, SkipPart(v) PROVE StageInv(K)'
  BY <1>26, SMTT(30) DEF SkipPart
<1>27. ASSUME NEW v \in Workers, BeginUpload(v) PROVE StageInv(K)'
  BY <1>27, SMTT(30) DEF BeginUpload
<1>28. ASSUME NEW v \in Workers, FinishUpload(v) PROVE StageInv(K)'
  BY <1>28, SMTT(30) DEF FinishUpload
<1>29. ASSUME NEW v \in Workers, Fail(v) PROVE StageInv(K)'
  BY <1>29, SMTT(30) DEF Fail, Finish
<1>30. ASSUME NEW v \in Workers, CancelObserved(v) PROVE StageInv(K)'
  BY <1>30, SMTT(30) DEF CancelObserved, Finish
<1>31. ASSUME NEW v \in Workers, Complete(v) PROVE StageInv(K)'
  <2>1. mem[v].parts \in 0..NumParts /\ pc[v] = "run" /\ done[v] = NumParts
    BY <1>31 DEF Complete
  <2>2. Split => mem[v].parts = NumParts
    <3>1. Split => NumParts <= mem[v].parts
      BY <2>1
    <3> HIDE DEF TypeInv, StageInv, OwnerInv
    <3> QED BY <2>1, <3>1
  <2>3. /\ mem'[v].status = "completed" /\ mem'[v].parts = mem[v].parts
        /\ \A w \in Workers \ {v} : mem'[w] = mem[w]
    BY <1>31 DEF Complete, Finish
  <2>4. /\ pc' = [pc EXCEPT ![v] = "final"]
        /\ UNCHANGED <<row, work, done, reaper, apc, apiVars>>
    BY <1>31 DEF Complete, Finish
  <2> QED BY <2>1, <2>2, <2>3, <2>4
<1>32. ASSUME NEW v \in Workers, FinalSave(v) PROVE StageInv(K)'
  BY <1>32, SMTT(30) DEF FinalSave, Save
<1>33. ASSUME NEW v \in Workers, Exit(v) PROVE StageInv(K)'
  BY <1>33, SMTT(30) DEF Exit
<1>34. ASSUME NEW v \in Workers, WorkerCrash(v) PROVE StageInv(K)'
  BY <1>34, SMTT(30) DEF WorkerCrash
<1>35. CASE UNCHANGED vars
  BY <1>35
<1> QED
  BY <1>1, <1>2, <1>3, <1>4, <1>5, <1>6, <1>7, <1>8, <1>9, <1>10, <1>11, <1>12, <1>13, <1>14, <1>15, <1>16, <1>17, <1>18, <1>19, <1>20, <1>21, <1>22, <1>23, <1>24, <1>25, <1>26, <1>27, <1>28, <1>29, <1>30, <1>31, <1>32, <1>33, <1>34, <1>35
  DEF Next, Request, Handler, Restart, Worker, Reaper, Advance

StatusOf(K) == [j \in K |-> row[j].status]
PartsOf(K) == [j \in K |-> row[j].parts]

\* What a full-row write and a recovery are to the contract.
LEMMA SaveMoves ==
  ASSUME row \in [Jobs -> Record], NEW k \in Jobs, NEW rec \in Record, Save(k, rec),
         NEW K, K \subseteq Jobs
  PROVE  IF k \in K THEN /\ StatusOf(K)' = [StatusOf(K) EXCEPT ![k] = rec.status]
                         /\ PartsOf(K)' = [PartsOf(K) EXCEPT ![k] = rec.parts]
         ELSE UNCHANGED <<StatusOf(K), PartsOf(K)>>
<1>1. /\ row'[k].status = rec.status /\ row'[k].parts = rec.parts
      /\ \A j \in Jobs \ {k} : row'[j] = row[j]
  BY DEF Save, Record
<1> QED BY <1>1 DEF StatusOf, PartsOf

LEMMA RecoverMoves ==
  ASSUME row \in [Jobs -> Record], NEW js \in SUBSET Jobs, Recover(js),
         NEW K, K \subseteq Jobs
  PROVE  Of(K)!Next
<1>0. PICK ks \in SUBSET K : ks = {j \in js \cap K : row[j].status \in Active}
  OBVIOUS
<1>1. \A j \in K : row'[j].status = IF j \in ks THEN "interrupted" ELSE row[j].status
  BY <1>0, ZenonT(60) DEF Recover, Record
<1>2. \A j \in K : row'[j].parts = row[j].parts
  BY RecoverFrame
<1>3. Of(K)!Interrupt(ks)
  BY <1>0, <1>1, <1>2 DEF Of!Interrupt, Of!Active, Active
<1> QED BY <1>3 DEF Of!Next

LEMMA ContractStep ==
  ASSUME NEW K, K \subseteq Jobs, TypeInv, OwnerInv, StageInv(K), [Next]_vars,
         \A j \in K : ~TakesBack(j)
  PROVE  [Of(K)!Next]_(Of(K)!vars)
<1> SUFFICES Of(K)!Next \/ UNCHANGED <<StatusOf(K), PartsOf(K)>>
  BY DEF Of!vars, StatusOf, PartsOf
<1> DEFINE Quiet == UNCHANGED <<StatusOf(K), PartsOf(K)>>
<1>1. /\ row \in [Jobs -> Record] /\ amem \in Record /\ mem \in [Workers -> Record]
      /\ \A w \in Workers : pc[w] # "unused" => work[w] \in Jobs
      /\ apc \in Launching => ajob \in Jobs
  BY DEF TypeInv, TypeOK, PlacementInv, Launching
<1>2. row' = row => Quiet
  BY DEF StatusOf, PartsOf
<1>0. ASSUME NEW k \in Jobs \ K, NEW rec \in Record, Save(k, rec) PROVE Quiet
  BY <1>0, <1>1, SaveMoves
<1>3. ASSUME NEW k \in K, NEW rec \in Record, Save(k, rec),
             rec.status = row[k].status, rec.parts = row[k].parts
      PROVE  Quiet
  <2>1. /\ StatusOf(K)' = [StatusOf(K) EXCEPT ![k] = rec.status]
        /\ PartsOf(K)' = [PartsOf(K) EXCEPT ![k] = rec.parts]
    BY <1>1, <1>3, SaveMoves
  <2> QED BY <1>3, <2>1 DEF StatusOf, PartsOf
<1>4. ASSUME NEW k \in K, NEW rec \in Record, Save(k, rec), rec.parts = row[k].parts,
             \/ row[k].status = "absent" /\ rec.status = "pending"
             \/ row[k].status = "pending" /\ rec.status = "running"
             \/ row[k].status \in Resumable /\ rec.status = "pending"
             \/ row[k].status \in Active /\ rec.status = "failed"
             \/ row[k].status = "running" /\ rec.status = "cancelled"
             \/ /\ row[k].status = "running" /\ rec.status = "completed"
                /\ Split => rec.parts = NumParts
      PROVE  Of(K)!Next
  <2>1. StatusOf(K)' = [StatusOf(K) EXCEPT ![k] = rec.status] /\ PartsOf(K)' = PartsOf(K)
    <3>1. /\ StatusOf(K)' = [StatusOf(K) EXCEPT ![k] = rec.status]
          /\ PartsOf(K)' = [PartsOf(K) EXCEPT ![k] = rec.parts]
      BY <1>1, <1>4, SaveMoves
    <3> QED BY <1>4, <3>1 DEF PartsOf
  <2>2. \/ Of(K)!Submit(k) \/ Of(K)!Start(k) \/ Of(K)!Resume(k)
        \/ Of(K)!GiveUp(k) \/ Of(K)!Complete(k)
    BY <1>4, <2>1 DEF Of!Submit, Of!Start, Of!Resume, Of!GiveUp,
       Of!Complete, Of!Move, Of!Active, Of!Resumable, Active, Resumable,
       StatusOf, PartsOf
  <2> QED BY <2>2 DEF Of!Next
<1>5. ASSUME NEW k \in K, NEW rec \in Record, Save(k, rec), Split,
             row[k].status = "running", rec.status = "running",
             rec.parts = row[k].parts + 1
      PROVE  Of(K)!Next
  <2>1. row[k].parts \in Nat /\ row[k].parts < NumParts
    BY <1>1, <1>5, ConstantsAssumption DEF Record
  <2>2. StatusOf(K)' = StatusOf(K) /\ PartsOf(K)' = [PartsOf(K) EXCEPT ![k] = PartsOf(K)[k] + 1]
    <3>1. /\ StatusOf(K)' = [StatusOf(K) EXCEPT ![k] = rec.status]
          /\ PartsOf(K)' = [PartsOf(K) EXCEPT ![k] = rec.parts]
      BY <1>1, <1>5, SaveMoves
    <3> QED BY <1>5, <3>1 DEF StatusOf, PartsOf
  <2>3. Of(K)!Checkpoint(k)
    BY <1>5, <2>1, <2>2 DEF Of!Checkpoint, StatusOf, PartsOf
  <2> QED BY <2>3 DEF Of!Next
<1>6. ASSUME NEW js \in SUBSET Jobs, Recover(js) PROVE Of(K)!Next
  BY <1>1, <1>6, RecoverMoves
<1>7. ASSUME NEW j \in Jobs, Request(j) PROVE Of(K)!Next \/ Quiet
  <2>1. CASE CreateJob(j)
    <3>1. NewJob(0) \in Record
      BY NewJobType, ConstantsAssumption
    <3>2. NewJob(0).status = "pending" /\ NewJob(0).parts = 0
      BY DEF NewJob, Absent
    <3> QED BY <2>1, <3>1, <3>2, <1>0, <1>4 DEF CreateJob, StageInv
  <2>2. CASE ResumeRead(j)
    BY <2>2, <1>2 DEF ResumeRead
  <2>3. CASE Cancel(j)
    BY <2>3, <1>1 DEF Cancel, Record, StatusOf, PartsOf
  <2> QED BY <1>7, <2>1, <2>2, <2>3 DEF Request
<1>8. CASE Handler
  <2>1. CASE ResumeClearCancel
    BY <2>1, <1>1 DEF ResumeClearCancel, Record, StatusOf, PartsOf
  <2>2. CASE ResumeSave
    BY <2>2, <1>0, <1>1, <1>4 DEF ResumeSave, StageInv, HandlerStage, OwnerInv, LaunchInv, Launching
  <2>3. CASE SpawnFails \/ SendPayloadFails
    <3> DEFINE rec == [amem EXCEPT !.status = "failed", !.pid = NoWorker]
    <3>1. rec \in Record /\ rec.status = "failed" /\ rec.parts = amem.parts
      BY <1>1 DEF Record, Terminal, Resumable
    <3>2. Save(ajob, rec) /\ apc \in {"spawn", "payload"}
      BY <2>3 DEF SpawnFails, SendPayloadFails, LaunchFailed
    <3>3. /\ ajob \in Jobs
          /\ ajob \in K => row[ajob].status = "pending" /\ amem.parts = row[ajob].parts
      BY <3>2, <1>1 DEF StageInv, HandlerStage, Launching
    <3> HIDE DEF rec
    <3> QED BY <3>1, <3>2, <3>3, <1>0, <1>4 DEF Active
  <2>4. CASE PersistPid
    BY <2>4, <1>0, <1>1, <1>3 DEF PersistPid, StageInv, HandlerStage, OwnerInv, LaunchInv, Launching
  <2>5. CASE (\E w \in Workers : SpawnWorker(w)) \/ SendPayload \/ AnnotateRead
    BY <2>5, <1>2 DEF SpawnWorker, SendPayload, AnnotateRead
  <2>6. CASE AnnotateSave
    <3>1. ajob \in Jobs /\ Save(ajob, amem)
      BY <2>6 DEF AnnotateSave, TypeInv, PlacementInv
    <3> QED BY <2>6, <3>1, <1>0, <1>1, <1>3 DEF TakesBack
  <2> QED BY <1>8, <2>1, <2>2, <2>3, <2>4, <2>5, <2>6 DEF Handler
<1>9. CASE Restart \/ ApiCrash \/ ServiceStop
  <2>1. stale \in SUBSET Jobs
    BY DEF TypeInv, TypeOK
  <2> QED BY <1>9, <2>1, <1>2, <1>6 DEF Restart, ApiStart, RecoverOrphans, ApiCrash, ServiceStop
<1>10. ASSUME NEW w \in Workers, Reaper(w) \/ WorkerCrash(w) PROVE Of(K)!Next \/ Quiet
  <2>1. reaper[w] # "off" => work[w] \in Jobs
    BY DEF TypeInv, PlacementInv
  <2> QED BY <1>10, <2>1, <1>2, <1>6 DEF Reaper, ReaperRead, ReaperRecover, WorkerCrash
<1>11. ASSUME NEW w \in Workers, Worker(w) PROVE Of(K)!Next \/ Quiet
  <2>1. CASE SetWorkerPid(w)
    BY <2>1, <1>1 DEF SetWorkerPid, Record, StatusOf, PartsOf
  <2>2. CASE PersistSave(w)
    <3>1. Save(work[w], mem[w]) /\ pc[w] = "save" /\ work[w] \in Jobs /\ mem[w] \in Record
      BY <2>2, <1>1 DEF PersistSave
    <3>2. work[w] \in K => WorkerStage(w)
      BY <3>1 DEF StageInv, IsWriter, WorkerPC
    <3> QED BY <3>1, <3>2, <1>0, <1>3, <1>4, <1>5 DEF WorkerStage
  <2>3. CASE FinalSave(w)
    <3>1. Save(work[w], mem[w]) /\ pc[w] = "final" /\ work[w] \in Jobs /\ mem[w] \in Record
      BY <2>3, <1>1 DEF FinalSave
    <3>2. work[w] \in K => WorkerStage(w)
      BY <3>1 DEF StageInv, IsWriter, WorkerPC
    <3> QED BY <3>1, <3>2, <1>0, <1>4 DEF WorkerStage, Active
  <2>4. ASSUME Worker(w), ~PersistSave(w), ~FinalSave(w), ~SetWorkerPid(w) PROVE row' = row
    BY <2>4 DEF Worker, StdinEOF, BuildJob, MarkStarted, PersistMerge, Progress, Advance,
         SkipPart, BeginUpload, FinishUpload, Fail, CancelObserved, Complete, Finish, Exit
  <2> QED BY <1>11, <2>1, <2>2, <2>3, <2>4, <1>2
<1>12. CASE UNCHANGED vars
  BY <1>12, <1>2 DEF vars
<1> QED BY <1>7, <1>8, <1>9, <1>10, <1>11, <1>12 DEF Next

-----------------------------------------------------------------------------
\* What holds of the jobs K as long as no annotation takes one of them back.
Faithful(K) == TypeInv /\ OwnerInv /\ StageInv(K)

LEMMA FaithfulInit == ASSUME NEW K, K \subseteq Jobs PROVE Init => Faithful(K)
  BY TypeInit, OwnerInit, StageInit DEF Faithful

LEMMA FaithfulStep ==
  ASSUME ResumeAfterExit, NEW K, K \subseteq Jobs
  PROVE  Faithful(K) /\ [Next]_vars /\ [\A j \in K : ~TakesBack(j)]_vars
         => Faithful(K)' /\ [Of(K)!Next]_(Of(K)!vars)
<1> SUFFICES ASSUME Faithful(K), [Next]_vars, [\A j \in K : ~TakesBack(j)]_vars
             PROVE  Faithful(K)' /\ [Of(K)!Next]_(Of(K)!vars)
  OBVIOUS
<1>1. \A j \in K : ~TakesBack(j)
  <2>1. ASSUME UNCHANGED vars, NEW j \in K, TakesBack(j) PROVE FALSE
    BY <2>1 DEF TakesBack, AnnotateSave, vars
  <2> QED BY <2>1
<1>2. TypeInv' /\ OwnerInv'
  BY TypeStep, OwnerStep DEF Faithful
<1>3. StageInv(K)'
  BY <1>1, <1>2, StageStep DEF Faithful
<1>4. [Of(K)!Next]_(Of(K)!vars)
  BY <1>1, ContractStep DEF Faithful
<1> QED BY <1>2, <1>3, <1>4 DEF Faithful

LEMMA FaithfulStart == ASSUME NEW K, K \subseteq Jobs PROVE Init => Of(K)!Init
  BY DEF Init, Of!Init, Absent

\* Only the schedule loop annotates, and only the jobs it runs.
AnnotatedInv ==
  /\ bySchedule => ajob \in Scheduled
  /\ apc \in {"annotate", "annotated"} => bySchedule

LEMMA AnnotatedStep == AnnotatedInv /\ [Next]_vars => AnnotatedInv'
<1> SUFFICES ASSUME AnnotatedInv, [Next]_vars PROVE AnnotatedInv'
  OBVIOUS
<1> USE DEF AnnotatedInv, apiVars
<1>1. ASSUME NEW j \in Jobs, Request(j) PROVE AnnotatedInv'
  <2>1. CASE CreateJob(j)
    <3>1. ajob' = j /\ bySchedule' = (j \in Scheduled) /\ apc' = "spawn"
      BY <2>1 DEF CreateJob
    <3>2. bySchedule' => ajob' \in Scheduled
      BY <3>1, Zenon
    <3> QED BY <3>1, <3>2
  <2>2. CASE ResumeRead(j)
    <3>1. ajob' = j /\ (bySchedule' => j \in Scheduled) /\ apc' = "clear"
      BY <2>2 DEF ResumeRead
    <3>2. bySchedule' => ajob' \in Scheduled
      BY <3>1, Zenon
    <3> QED BY <3>1, <3>2
  <2>3. CASE Cancel(j)
    BY <2>3 DEF Cancel
  <2> QED BY <1>1, <2>1, <2>2, <2>3 DEF Request
<1>2. CASE Handler
  <2>1. ajob' = ajob /\ bySchedule' = bySchedule
    BY <1>2 DEF Handler, ResumeClearCancel, ResumeSave, SpawnWorker, SpawnFails, PersistPid,
       SendPayload, SendPayloadFails, AnnotateRead, AnnotateSave
  <2>2. apc' \in {"annotate", "annotated"} => bySchedule
    <3>1. CASE SendPayload
      BY <3>1 DEF SendPayload
    <3>2. CASE AnnotateRead
      BY <3>2 DEF AnnotateRead
    <3>3. ASSUME Handler, ~SendPayload, ~AnnotateRead
          PROVE  apc' \in {"resume", "spawn", "pid", "payload", "idle"}
      BY <3>3 DEF Handler, ResumeClearCancel, ResumeSave, SpawnWorker, SpawnFails, LaunchFailed,
         PersistPid, SendPayloadFails, AnnotateSave
    <3> QED BY <1>2, <3>1, <3>2, <3>3
  <2> QED BY <2>1, <2>2
<1>3. CASE Restart \/ ApiCrash \/ ServiceStop
  BY <1>3 DEF Restart, ApiStart, RecoverOrphans, ApiCrash, ServiceStop
<1>4. ASSUME NEW w \in Workers, Worker(w) \/ Reaper(w) \/ WorkerCrash(w) PROVE AnnotatedInv'
  <2>1. UNCHANGED <<apc, apiVars>>
    BY <1>4 DEF Worker, StdinEOF, BuildJob, SetWorkerPid, MarkStarted, PersistMerge,
       PersistSave, Progress, Advance, SkipPart, BeginUpload, FinishUpload, Fail, CancelObserved,
       Complete, Finish, FinalSave, Exit, Reaper, ReaperRead, ReaperRecover, WorkerCrash
  <2> QED BY <2>1
<1>5. CASE UNCHANGED vars
  BY <1>5 DEF vars
<1> QED BY <1>1, <1>2, <1>3, <1>4, <1>5 DEF Next

LEMMA OnlyScheduled ==
  AnnotatedInv => [\A j \in Jobs \ Scheduled : ~TakesBack(j)]_vars
  BY DEF AnnotatedInv, TakesBack, AnnotateSave

\* For any number of jobs, workers, parts, resumes and crashes the records of any set of
\* jobs go through the transitions of JobContract, and no checkpoint of theirs is lost or
\* invented, as long as no annotation takes one of them back, whatever becomes of the
\* other jobs, when resumes leave ended workers time to be reaped.
THEOREM UnlessTakenBack ==
  ASSUME ResumeAfterExit, NEW K, K \subseteq Jobs
  PROVE  Spec /\ [][\A j \in K : ~TakesBack(j)]_vars => Of(K)!Spec
  BY FaithfulInit, FaithfulStep, FaithfulStart, PTL DEF Spec, Of!Spec

\* What the contract makes final: a completed export, and every checkpoint.
SetBack(j) ==
  \/ row[j].status = "completed" /\ row'[j].status # "completed"
  \/ row'[j].parts < row[j].parts

LEMMA ContractIsFinal ==
  ASSUME NEW K, K \subseteq Jobs, TypeInv, [Of(K)!Next]_(Of(K)!vars)
  PROVE  \A j \in K : ~SetBack(j)
<1> SUFFICES ASSUME NEW j \in K PROVE ~SetBack(j)
  OBVIOUS
<1> DEFINE Kept == /\ row[j].status = "completed" => row'[j].status = "completed"
                   /\ row'[j].parts = row[j].parts \/ row'[j].parts = row[j].parts + 1
<1>0. row[j].parts \in Nat
  BY ConstantsAssumption DEF TypeInv, TypeOK, Record
<1>1. /\ StatusOf(K)[j] = row[j].status /\ StatusOf(K)'[j] = row'[j].status
      /\ PartsOf(K)[j] = row[j].parts /\ PartsOf(K)'[j] = row'[j].parts
  BY DEF StatusOf, PartsOf
<1> USE DEF Of!Active, Of!Resumable, Of!Move
<1>2. ASSUME NEW k \in K, \/ Of(K)!Submit(k) \/ Of(K)!Start(k) \/ Of(K)!Complete(k)
                          \/ Of(K)!GiveUp(k) \/ Of(K)!Resume(k)
      PROVE  Kept
  <2>1. PICK from, to : /\ "completed" \notin from /\ StatusOf(K)[k] \in from
                        /\ StatusOf(K)' = [StatusOf(K) EXCEPT ![k] = to]
                        /\ PartsOf(K)' = PartsOf(K)
    BY <1>2 DEF Of!Submit, Of!Start, Of!Complete, Of!GiveUp, Of!Resume, StatusOf, PartsOf
  <2> QED BY <1>1, <2>1 DEF StatusOf
<1>3. ASSUME NEW k \in K, Of(K)!Checkpoint(k) PROVE Kept
  BY <1>1, <1>3 DEF Of!Checkpoint, StatusOf, PartsOf
<1>4. ASSUME NEW js \in SUBSET K, Of(K)!Interrupt(js) PROVE Kept
  BY <1>1, <1>4 DEF Of!Interrupt, StatusOf, PartsOf
<1>5. ASSUME UNCHANGED Of(K)!vars PROVE Kept
  BY <1>1, <1>5 DEF Of!vars, StatusOf, PartsOf
<1>6. Kept
  BY <1>2, <1>3, <1>4, <1>5 DEF Of!Next
<1> QED BY <1>0, <1>6 DEF SetBack

\* A completed export stays completed, and a checkpoint once saved is never lost, in every
\* record that no annotation takes back: no late save of a worker, a reaper, a recovery or a
\* resume does it.
THEOREM NeverSetBack ==
  ASSUME ResumeAfterExit, NEW K, K \subseteq Jobs
  PROVE  Spec /\ [][\A j \in K : ~TakesBack(j)]_vars => [][\A j \in K : ~SetBack(j)]_vars
<1>1. Faithful(K) /\ [Of(K)!Next]_(Of(K)!vars) => [\A j \in K : ~SetBack(j)]_vars
  BY ContractIsFinal DEF Faithful
<1> QED BY <1>1, FaithfulInit, FaithfulStep, PTL DEF Spec

\* The jobs that users submit implement the contract, whatever the schedule loop does to
\* its own jobs at the same time.
THEOREM UnscheduledImplement == ASSUME ResumeAfterExit PROVE Spec => Of(Jobs \ Scheduled)!Spec
<1> DEFINE K == Jobs \ Scheduled
           Inv == Faithful(K) /\ AnnotatedInv
<1>1. Init => Inv /\ Of(K)!Init
  BY FaithfulInit, FaithfulStart DEF Init, AnnotatedInv
<1>2. Inv /\ [Next]_vars => Inv' /\ [Of(K)!Next]_(Of(K)!vars)
  BY FaithfulStep, AnnotatedStep, OnlyScheduled
<1> HIDE DEF Inv
<1> QED BY <1>1, <1>2, PTL DEF Spec, Of!Spec

\* Without schedules all jobs do: no interleaving of handlers, workers, reapers and
\* start-ups takes a record through a transition that the contract does not allow.
THEOREM Implements ==
  ASSUME ResumeAfterExit, Scheduled = {} PROVE Spec => ImplementsContract
<1> DEFINE Inv == Faithful(Jobs) /\ AnnotatedInv
<1>1. Init => Inv /\ Contract!Init
  <2>1. Of(Jobs)!Init => Contract!Init
    BY DEF Of!Init, Contract!Init
  <2> QED BY <2>1, FaithfulInit, FaithfulStart DEF Init, AnnotatedInv
<1>2. Inv /\ [Next]_vars => Inv' /\ [Contract!Next]_(Contract!vars)
  <2>1. [Of(Jobs)!Next]_(Of(Jobs)!vars) => [Contract!Next]_(Contract!vars)
    BY DEF Of!Next, Of!vars, Of!Submit, Of!Start, Of!Checkpoint, Of!Complete, Of!GiveUp,
       Of!Interrupt, Of!Resume, Of!Move, Of!Active, Of!Resumable, Contract!Next, Contract!vars,
       Contract!Submit, Contract!Start, Contract!Checkpoint, Contract!Complete, Contract!GiveUp,
       Contract!Interrupt, Contract!Resume, Contract!Move, Contract!Active, Contract!Resumable
  <2>2. Jobs \ Scheduled = Jobs
    OBVIOUS
  <2> QED BY <2>1, <2>2, FaithfulStep, AnnotatedStep, OnlyScheduled
<1> HIDE DEF Inv
<1> QED BY <1>1, <1>2, PTL DEF Spec, ImplementsContract, Contract!Spec
===============================================================================
