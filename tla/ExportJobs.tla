------------------------------ MODULE ExportJobs ------------------------------
(***************************************************************************)
(* Remote (S3 or SFTP) export jobs in the default detached mode: the API   *)
(* process (app/main.py), one worker process per launch of a job           *)
(* (app/job_worker.py), one reaper thread of the API per worker, and the   *)
(* SQLite table that is all they share (app/job_store.py).                 *)
(*                                                                         *)
(* Every JobStore call is one transaction, hence one step.  A handler of   *)
(* the API keeps the event loop until it returns (none awaits in detached  *)
(* mode), so handlers do not interleave with each other, but workers and   *)
(* reapers interleave with every transaction of a handler.                 *)
(***************************************************************************)
EXTENDS Naturals, FiniteSets

CONSTANTS
  Jobs,             \* job identifiers
  Workers,          \* worker processes; each is launched at most once
  NumParts,         \* files one export produces
  Split,            \* max_file_size_bytes is set: finished parts are checkpointed
  AtomicUpload,     \* TRUE for S3, FALSE for SFTP, which writes in place
  Scheduled,        \* jobs created by the schedule loop, annotated after launch
  ResumeAfterExit,  \* environment: no resume while an ended worker is still reaped
  MaxApiCrashes,    \* bound on losses of the API process alone
  MaxServiceStops,  \* bound on stops of the whole service, workers included
  NoJob, NoWorker

ASSUME ConstantsAssumption ==
  /\ NumParts \in Nat \ {0}
  /\ Split \in BOOLEAN /\ (~Split => NumParts = 1)
  /\ AtomicUpload \in BOOLEAN
  /\ Scheduled \subseteq Jobs
  /\ ResumeAfterExit \in BOOLEAN
  /\ MaxApiCrashes \in Nat /\ MaxServiceStops \in Nat
  /\ NoJob \notin Jobs /\ NoWorker \notin Workers

VARIABLES
  row,          \* export_jobs: one record per job
  remote,       \* parts that are complete at the destination, per job
  pc, work,     \* per worker: where it is and the job it was launched for
  mem,          \* per worker: its ExportJob object
  done,         \* per worker: generated_parts it has dealt with
  uploading,    \* per worker: a part is being sent
  reaper,       \* per worker: its _reap_detached_worker thread
  apc,          \* what the API process is doing
  ajob, aworker, amem,  \* job, Popen handle and ExportJob object of its handler
  bySchedule,   \* the handler runs inside execute_schedule
  stale,        \* jobs recover_orphaned_export_jobs found orphaned
  crashes, stops

workerVars == <<pc, work, mem, done, uploading>>
apiVars == <<ajob, aworker, amem, bySchedule, stale, crashes, stops>>
vars == <<row, remote, workerVars, reaper, apc, apiVars>>

Parts == 1..NumParts
Active == {"pending", "running"}
Resumable == {"failed", "cancelled", "interrupted"}
Terminal == Resumable \cup {"completed"}

Record == [status : {"absent"} \cup Active \cup Terminal,
           cancel : BOOLEAN,               \* cancel_requested
           pid    : Workers \cup {NoWorker},
           parts  : 0..NumParts,           \* length of completed_parts
           ann    : BOOLEAN]               \* metadata carries schedule_id/name

Absent == [status |-> "absent", cancel |-> FALSE, pid |-> NoWorker,
           parts |-> 0, ann |-> FALSE]
\* A new ExportJob, with the checkpoints it starts from.
NewJob(n) == [Absent EXCEPT !.status = "pending", !.parts = n]

WorkerPC == {"unused", "stdin", "boot", "loaded", "registered", "merge",
             "save", "run", "final", "exiting", "dead"}
ApiPC == {"down", "recover", "idle", "spawn", "pid", "payload",
          "clear", "resume", "annotate", "annotated"}

Init ==
  /\ row = [j \in Jobs |-> Absent]
  /\ remote = [j \in Jobs |-> {}]
  /\ pc = [w \in Workers |-> "unused"]
  /\ work = [w \in Workers |-> NoJob]
  /\ mem = [w \in Workers |-> Absent]
  /\ done = [w \in Workers |-> 0]
  /\ uploading = [w \in Workers |-> FALSE]
  /\ reaper = [w \in Workers |-> "off"]
  /\ apc = "idle"
  /\ ajob = NoJob /\ aworker = NoWorker /\ amem = Absent
  /\ bySchedule = FALSE
  /\ stale = {}
  /\ crashes = 0 /\ stops = 0

(***************************************************************************)
(* The store                                                               *)
(***************************************************************************)
\* Mutant: the upsert without the CASE that keeps cancel_requested.
SaveOverwritingCancel(j, rec) == row' = [row EXCEPT ![j] = rec]

\* JobStore.save: a full-row upsert, except that cancel_requested is sticky.
Save(j, rec) == row' = [row EXCEPT ![j] = [rec EXCEPT !.cancel = @ \/ row[j].cancel]]

\* JobStore.recover_interrupted: one guarded UPDATE.
Recover(js) ==
  row' = [j \in Jobs |->
            IF j \in js /\ row[j].status \in Active
            THEN [row[j] EXCEPT !.status = "interrupted", !.pid = NoWorker]
            ELSE row[j]]

Live(w) == pc[w] \notin {"unused", "dead"}

\* Mutant: the command line never matches, so every worker is taken for dead.
NoWorkerAlive(j) == FALSE

\* detached_worker_alive: the stored pid is a live worker of this job.
WorkerAlive(j) ==
  \E w \in Workers : row[j].pid = w /\ Live(w) /\ work[w] = j

(***************************************************************************)
(* API process: create, resume, launch                                     *)
(***************************************************************************)
\* create_export_job up to its first persist_job.
CreateJob(j) ==
  /\ apc = "idle"
  /\ row[j].status = "absent"
  /\ Save(j, NewJob(0))
  /\ amem' = NewJob(0)
  /\ ajob' = j
  /\ bySchedule' = (j \in Scheduled)
  /\ apc' = "spawn"
  /\ UNCHANGED <<remote, workerVars, reaper, aworker, stale, crashes, stops>>

\* No worker of j is on its way out, and none that is gone awaits its reaper: what
\* an operator leaves time for before resuming when ResumeAfterExit holds.
Reaped(j) ==
  \A w \in Workers : work[w] = j =>
    pc[w] # "exiting" /\ (pc[w] = "dead" => reaper[w] = "off")

\* resume_export_job reads the record; execute_schedule may be the caller.
ResumeRead(j) ==
  /\ apc = "idle"
  /\ row[j].status \in Resumable
  /\ ResumeAfterExit => Reaped(j)
  /\ amem' = NewJob(row[j].parts)
  /\ ajob' = j
  /\ bySchedule' \in BOOLEAN /\ (bySchedule' => j \in Scheduled)
  /\ apc' = "clear"
  /\ UNCHANGED <<row, remote, workerVars, reaper, aworker, stale, crashes, stops>>

ResumeClearCancel ==
  /\ apc = "clear"
  /\ row' = [row EXCEPT ![ajob].cancel = FALSE]
  /\ apc' = "resume"
  /\ UNCHANGED <<remote, workerVars, reaper, apiVars>>

ResumeSave ==
  /\ apc = "resume"
  /\ Save(ajob, amem)
  /\ apc' = "spawn"
  /\ UNCHANGED <<remote, workerVars, reaper, apiVars>>

\* launch_detached_worker: Popen, then the read half of persist_job's merge.
SpawnWorker(w) ==
  /\ apc = "spawn"
  /\ pc[w] = "unused"
  /\ pc' = [pc EXCEPT ![w] = "stdin"]
  /\ work' = [work EXCEPT ![w] = ajob]
  /\ aworker' = w
  /\ amem' = [amem EXCEPT !.pid = w, !.ann = @ \/ row[ajob].ann]
  /\ apc' = "pid"
  /\ UNCHANGED <<row, remote, mem, done, uploading, reaper, ajob, bySchedule,
                 stale, crashes, stops>>

\* The launch failed: mark_job_terminal(job, "failed"), answered with a 503.
LaunchFailed ==
  /\ Save(ajob, [amem EXCEPT !.status = "failed", !.pid = NoWorker])
  /\ apc' = "idle"

SpawnFails ==
  /\ apc = "spawn"
  /\ LaunchFailed
  /\ UNCHANGED <<remote, workerVars, reaper, apiVars>>

PersistPid ==
  /\ apc = "pid"
  /\ Save(ajob, amem)
  /\ apc' = "payload"
  /\ UNCHANGED <<remote, workerVars, reaper, apiVars>>

\* The payload reaches the worker and its reaper thread starts; execute_schedule
\* goes on to annotate_job_metadata without giving up the event loop.
SendPayload ==
  /\ apc = "payload"
  /\ pc[aworker] = "stdin"
  /\ pc' = [pc EXCEPT ![aworker] = "boot"]
  /\ reaper' = [reaper EXCEPT ![aworker] = "waiting"]
  /\ apc' = IF bySchedule THEN "annotate" ELSE "idle"
  /\ UNCHANGED <<row, remote, work, mem, done, uploading, apiVars>>

\* The worker died before reading: the write fails, no reaper is started.
SendPayloadFails ==
  /\ apc = "payload"
  /\ ~Live(aworker)
  /\ LaunchFailed
  /\ UNCHANGED <<remote, workerVars, reaper, apiVars>>

\* annotate_job_metadata: JobStore.get, then JobStore.save of the whole record.
AnnotateRead ==
  /\ apc = "annotate"
  /\ amem' = [row[ajob] EXCEPT !.ann = TRUE]
  /\ apc' = "annotated"
  /\ UNCHANGED <<row, remote, workerVars, reaper, ajob, aworker, bySchedule,
                 stale, crashes, stops>>

AnnotateSave ==
  /\ apc = "annotated"
  /\ Save(ajob, amem)
  /\ apc' = "idle"
  /\ UNCHANGED <<remote, workerVars, reaper, apiVars>>

\* cancel_export_job: JobStore.request_cancel is a guarded UPDATE.
Cancel(j) ==
  /\ apc = "idle"
  /\ row[j].status \in Active
  /\ row' = [row EXCEPT ![j].cancel = TRUE]
  /\ UNCHANGED <<remote, workerVars, reaper, apc, apiVars>>

(***************************************************************************)
(* API process: loss, restart, reapers                                     *)
(***************************************************************************)
\* Threads die with the process; workers live in sessions of their own.
ApiCrash ==
  /\ apc # "down" /\ crashes < MaxApiCrashes
  /\ apc' = "down"
  /\ reaper' = [w \in Workers |-> "off"]
  /\ crashes' = crashes + 1
  /\ UNCHANGED <<row, remote, workerVars, ajob, aworker, amem, bySchedule, stale, stops>>

\* systemctl stop: KillMode=control-group takes the workers as well.
ServiceStop ==
  /\ apc # "down" /\ stops < MaxServiceStops
  /\ apc' = "down"
  /\ reaper' = [w \in Workers |-> "off"]
  /\ pc' = [w \in Workers |-> IF Live(w) THEN "dead" ELSE pc[w]]
  /\ stops' = stops + 1
  /\ UNCHANGED <<row, remote, work, mem, done, uploading, ajob, aworker, amem,
                 bySchedule, stale, crashes>>

\* lifespan: recover_orphaned_export_jobs lists the orphans, then updates them.
ApiStart ==
  /\ apc = "down"
  /\ stale' = {j \in Jobs : row[j].status \in Active /\ ~WorkerAlive(j)}
  /\ apc' = "recover"
  /\ UNCHANGED <<row, remote, workerVars, reaper, ajob, aworker, amem, bySchedule,
                 crashes, stops>>

RecoverOrphans ==
  /\ apc = "recover"
  /\ Recover(stale)
  /\ apc' = "idle"
  /\ UNCHANGED <<remote, workerVars, reaper, apiVars>>

\* Mutant: only a running job is recovered, a worker lost before it started is not.
ReaperReadRunningOnly(w) ==
  /\ reaper[w] = "waiting"
  /\ ~Live(w)
  /\ reaper' = [reaper EXCEPT ![w] = IF row[work[w]].status = "running"
                                     THEN "recover" ELSE "off"]
  /\ UNCHANGED <<row, remote, workerVars, apc, apiVars>>

\* _reap_detached_worker: wait, look at the record, recover it if it is active.
ReaperRead(w) ==
  /\ reaper[w] = "waiting"
  /\ ~Live(w)
  /\ reaper' = [reaper EXCEPT ![w] = IF row[work[w]].status \in Active
                                     THEN "recover" ELSE "off"]
  /\ UNCHANGED <<row, remote, workerVars, apc, apiVars>>

ReaperRecover(w) ==
  /\ reaper[w] = "recover"
  /\ Recover({work[w]})
  /\ reaper' = [reaper EXCEPT ![w] = "off"]
  /\ UNCHANGED <<remote, workerVars, apc, apiVars>>

(***************************************************************************)
(* Worker process                                                          *)
(***************************************************************************)
\* The API end of the pipe is gone: empty stdin, exit code 2, row untouched.
StdinEOF(w) ==
  /\ pc[w] = "stdin"
  /\ ~(apc \in {"pid", "payload"} /\ aworker = w)
  /\ pc' = [pc EXCEPT ![w] = "dead"]
  /\ UNCHANGED <<row, remote, work, mem, done, uploading, reaper, apc, apiVars>>

\* Mutant: the saved checkpoints are not copied.
BuildJobWithoutCheckpoints(w) ==
  /\ pc[w] = "boot"
  /\ mem' = [mem EXCEPT ![w] = [row[work[w]] EXCEPT !.pid = w, !.parts = 0]]
  /\ pc' = [pc EXCEPT ![w] = "loaded"]
  /\ UNCHANGED <<row, remote, work, done, uploading, reaper, apc, apiVars>>

\* build_job copies the record.
BuildJob(w) ==
  /\ pc[w] = "boot"
  /\ mem' = [mem EXCEPT ![w] = [row[work[w]] EXCEPT !.pid = w]]
  /\ pc' = [pc EXCEPT ![w] = "loaded"]
  /\ UNCHANGED <<row, remote, work, done, uploading, reaper, apc, apiVars>>

\* execute: JobStore.set_worker_pid.
SetWorkerPid(w) ==
  /\ pc[w] = "loaded"
  /\ row' = [row EXCEPT ![work[w]].pid = w]
  /\ pc' = [pc EXCEPT ![w] = "registered"]
  /\ UNCHANGED <<remote, work, mem, done, uploading, reaper, apc, apiVars>>

\* mark_job_started, up to its persist_job.
MarkStarted(w) ==
  /\ pc[w] = "registered"
  /\ mem' = [mem EXCEPT ![w].status = "running"]
  /\ pc' = [pc EXCEPT ![w] = "merge"]
  /\ UNCHANGED <<row, remote, work, done, uploading, reaper, apc, apiVars>>

\* persist_job: durable metadata is read back ...
PersistMerge(w) ==
  /\ pc[w] = "merge"
  /\ mem' = [mem EXCEPT ![w].ann = @ \/ row[work[w]].ann]
  /\ pc' = [pc EXCEPT ![w] = "save"]
  /\ UNCHANGED <<row, remote, work, done, uploading, reaper, apc, apiVars>>

\* ... and the whole record is written in a second transaction.
PersistSave(w) ==
  /\ pc[w] = "save"
  /\ Save(work[w], mem[w])
  /\ pc' = [pc EXCEPT ![w] = "run"]
  /\ UNCHANGED <<remote, work, mem, done, uploading, reaper, apc, apiVars>>

\* persist_job from add_bytes and the exporter's progress callbacks.
Progress(w) ==
  /\ pc[w] = "run"
  /\ ~mem[w].cancel
  /\ pc' = [pc EXCEPT ![w] = "merge"]
  /\ UNCHANGED <<row, remote, work, mem, done, uploading, reaper, apc, apiVars>>

\* run_destination_job: a regenerated part that matches its checkpoint.
SkipPart(w) ==
  /\ pc[w] = "run" /\ ~mem[w].cancel
  /\ ~uploading[w]
  /\ done[w] < mem[w].parts
  /\ done' = [done EXCEPT ![w] = @ + 1]
  /\ pc' = [pc EXCEPT ![w] = "merge"]
  /\ UNCHANGED <<row, remote, work, mem, uploading, reaper, apc, apiVars>>

\* Mutant: one more part is uploaded than the export has.
BeginUploadPastEnd(w) ==
  /\ pc[w] = "run" /\ ~mem[w].cancel
  /\ ~uploading[w]
  /\ mem[w].parts <= done[w] /\ done[w] <= NumParts
  /\ uploading' = [uploading EXCEPT ![w] = TRUE]
  /\ UNCHANGED <<row, remote, pc, work, mem, done, reaper, apc, apiVars>>

\* Mutant: the checkpoint is appended and persisted before the upload.
BeginUploadCheckpointed(w) ==
  /\ pc[w] = "run" /\ ~mem[w].cancel
  /\ ~uploading[w]
  /\ mem[w].parts <= done[w] /\ done[w] < NumParts
  /\ uploading' = [uploading EXCEPT ![w] = TRUE]
  /\ mem' = [mem EXCEPT ![w].parts = done[w] + 1]
  /\ pc' = [pc EXCEPT ![w] = "merge"]
  /\ UNCHANGED <<row, remote, work, done, reaper, apc, apiVars>>

\* upload_one starts; SFTP opens the final path with mode "wb".
BeginUpload(w) ==
  /\ pc[w] = "run" /\ ~mem[w].cancel
  /\ ~uploading[w]
  /\ mem[w].parts <= done[w] /\ done[w] < NumParts
  /\ uploading' = [uploading EXCEPT ![w] = TRUE]
  /\ remote' = IF AtomicUpload THEN remote
               ELSE [remote EXCEPT ![work[w]] = @ \ {done[w] + 1}]
  /\ UNCHANGED <<row, pc, work, mem, done, reaper, apc, apiVars>>

\* The part is at the destination; a split export appends its checkpoint and
\* persists, a single file goes straight to the final cancellation check.
FinishUpload(w) ==
  /\ pc[w] = "run" /\ ~mem[w].cancel
  /\ uploading[w]
  /\ remote' = [remote EXCEPT ![work[w]] = @ \cup {done[w] + 1}]
  /\ uploading' = [uploading EXCEPT ![w] = FALSE]
  /\ done' = [done EXCEPT ![w] = @ + 1]
  /\ mem' = [mem EXCEPT ![w].parts = IF Split THEN done[w] + 1 ELSE @]
  /\ pc' = [pc EXCEPT ![w] = IF Split THEN "merge" ELSE "run"]
  /\ UNCHANGED <<row, work, reaper, apc, apiVars>>

\* mark_job_terminal; an upload that is cut short aborts the multipart upload
\* (S3) or removes the remote file (SFTP).
Finish(w, status, cancel) ==
  /\ mem' = [mem EXCEPT ![w] = [@ EXCEPT !.status = status, !.pid = NoWorker,
                                      !.cancel = cancel]]
  /\ remote' = IF uploading[w] /\ ~AtomicUpload
               THEN [remote EXCEPT ![work[w]] = @ \ {done[w] + 1}] ELSE remote
  /\ uploading' = [uploading EXCEPT ![w] = FALSE]
  /\ pc' = [pc EXCEPT ![w] = "final"]
  /\ UNCHANGED <<row, work, done, reaper, apc, apiVars>>

\* A query, an upload or a checkpoint comparison raises.
Fail(w) ==
  /\ pc[w] = "run"
  /\ Finish(w, "failed", mem[w].cancel)

\* job_cancel_requested; it may look at the record at most every 0.5 s, so a
\* requested cancellation is noticed at some later check, or never.
CancelObserved(w) ==
  /\ pc[w] = "run"
  /\ mem[w].cancel \/ row[work[w]].cancel
  /\ Finish(w, "cancelled", TRUE)

\* Mutant: the part stream may end early without anyone noticing.
CompleteEarly(w) ==
  /\ pc[w] = "run" /\ ~mem[w].cancel
  /\ ~uploading[w] /\ done[w] >= mem[w].parts
  /\ Finish(w, "completed", FALSE)

Complete(w) ==
  /\ pc[w] = "run" /\ ~mem[w].cancel
  /\ ~uploading[w] /\ done[w] = NumParts
  /\ Finish(w, "completed", FALSE)

\* worker_pid is None by now: persist_job saves without the merge.
FinalSave(w) ==
  /\ pc[w] = "final"
  /\ Save(work[w], mem[w])
  /\ pc' = [pc EXCEPT ![w] = "exiting"]
  /\ UNCHANGED <<remote, work, mem, done, uploading, reaper, apc, apiVars>>

Exit(w) ==
  /\ pc[w] = "exiting"
  /\ pc' = [pc EXCEPT ![w] = "dead"]
  /\ UNCHANGED <<row, remote, work, mem, done, uploading, reaper, apc, apiVars>>

\* The process is killed or dies of an unhandled error (a locked database).
WorkerCrash(w) ==
  /\ Live(w)
  /\ pc' = [pc EXCEPT ![w] = "dead"]
  /\ UNCHANGED <<row, remote, work, mem, done, uploading, reaper, apc, apiVars>>

-----------------------------------------------------------------------------
Handler ==
  \/ ResumeClearCancel \/ ResumeSave
  \/ \E w \in Workers : SpawnWorker(w)
  \/ SpawnFails \/ PersistPid \/ SendPayload \/ SendPayloadFails
  \/ AnnotateRead \/ AnnotateSave

Request(j) == CreateJob(j) \/ ResumeRead(j) \/ Cancel(j)

Restart == ApiStart \/ RecoverOrphans

Reaper(w) == ReaperRead(w) \/ ReaperRecover(w)

Advance(w) ==
  \/ SkipPart(w) \/ BeginUpload(w) \/ FinishUpload(w)
  \/ Fail(w) \/ CancelObserved(w) \/ Complete(w)

Worker(w) ==
  \/ StdinEOF(w) \/ BuildJob(w) \/ SetWorkerPid(w) \/ MarkStarted(w)
  \/ PersistMerge(w) \/ PersistSave(w) \/ Progress(w) \/ Advance(w)
  \/ FinalSave(w) \/ Exit(w)

Next ==
  \/ \E j \in Jobs : Request(j)
  \/ Handler \/ Restart \/ ApiCrash \/ ServiceStop
  \/ \E w \in Workers : Worker(w) \/ Reaper(w) \/ WorkerCrash(w)

Spec == Init /\ [][Next]_vars

\* Handlers run to their end, a lost service is started again, threads and
\* processes are scheduled; a worker that keeps reporting progress also advances,
\* since the bytes of an export are finite.  Requests and crashes are not fair.
Fairness ==
  /\ WF_vars(Handler) /\ WF_vars(Restart)
  /\ \A w \in Workers :
       WF_vars(Reaper(w)) /\ WF_vars(Worker(w)) /\ SF_vars(Advance(w))

FairSpec == Spec /\ Fairness

-----------------------------------------------------------------------------
TypeOK ==
  /\ row \in [Jobs -> Record]
  /\ remote \in [Jobs -> SUBSET Parts]
  /\ pc \in [Workers -> WorkerPC]
  /\ work \in [Workers -> Jobs \cup {NoJob}]
  /\ mem \in [Workers -> Record]
  /\ done \in [Workers -> 0..NumParts]
  /\ uploading \in [Workers -> BOOLEAN]
  /\ reaper \in [Workers -> {"off", "waiting", "recover"}]
  /\ apc \in ApiPC
  /\ ajob \in Jobs \cup {NoJob} /\ aworker \in Workers \cup {NoWorker}
  /\ amem \in Record
  /\ bySchedule \in BOOLEAN
  /\ stale \in SUBSET Jobs
  /\ crashes \in 0..MaxApiCrashes /\ stops \in 0..MaxServiceStops

\* A completed export is whole at the destination: mark_job_terminal("completed")
\* is reached only after every part was uploaded or matched its checkpoint, and
\* nothing takes a part of a completed export away again.
CompletedExportIsRemote ==
  \A j \in Jobs : row[j].status = "completed" => remote[j] = Parts

\* Whatever the store calls a completed part is complete at the destination, so a
\* resume that skips it (run_destination_job) leaves no hole in the export.
CheckpointsAreRemote ==
  \A j \in Jobs : 1..row[j].parts \subseteq remote[j]

\* Workers that have their payload and may still write their job's record.
Writers(j) ==
  {w \in Workers : work[w] = j /\ Live(w) /\ pc[w] \notin {"stdin", "exiting"}}

\* No two processes ever run the same job: launches, resumes and recoveries never
\* hand a job to a second worker while the first may still write its record.
AtMostOneWriter == \A j \in Jobs : Cardinality(Writers(j)) <= 1

\* 'interrupted' is recorded with the error "Export worker stopped before this job
\* completed": then no worker of the job is still exporting.
InterruptedMeansStopped ==
  \A j \in Jobs : row[j].status = "interrupted" => Writers(j) = {}

\* Only the resume handler withdraws a cancellation: a worker that saves the record
\* it read before the request arrived does not (the CASE in JobStore.save).
CancelIsSticky ==
  [][\A j \in Jobs : row[j].cancel /\ ~row'[j].cancel =>
       apc = "clear" /\ apc' = "resume" /\ ajob = j]_vars

\* Nobody is left to notice that j's worker is gone: the API process that launched it
\* was lost alone, the next one found the worker alive, took no thread for it, and the
\* worker died with the job unfinished.  Only another start-up would recover the job.
Forsaken(j) ==
  /\ crashes > 0
  /\ \A w \in Workers : work[w] = j => ~Live(w) /\ reaper[w] = "off"
  /\ apc \notin {"down", "recover"} /\ (apc = "idle" \/ ajob # j)

\* A job a user creates reaches a terminal status, whatever happens to its worker and
\* when the whole service is stopped, because a reaper or the next start-up notices.
\* The exception is named: after a loss of the API process alone a job may end up
\* Forsaken, active for ever.  Nothing is claimed of a scheduled job, which
\* annotate_job_metadata can turn active again after its recovery.
JobsSettle ==
  \A j \in Jobs \ Scheduled :
    row[j].status \in Active ~> (row[j].status \in Terminal \/ Forsaken(j))

\* The processes together implement the contract of a job: its record goes through
\* the transitions of JobContract, one at a time, whatever the interleaving; only
\* recover_interrupted moves several jobs in one UPDATE.
Contract == INSTANCE JobContract WITH
  status <- [j \in Jobs |-> row[j].status],
  parts <- [j \in Jobs |-> row[j].parts]

ImplementsContract == Contract!Spec
===============================================================================
