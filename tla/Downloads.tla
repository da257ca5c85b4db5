------------------------------ MODULE Downloads ------------------------------
(***************************************************************************)
(* Browser downloads: the task that prepares a file (run_download_job, and *)
(* the part writer under it), the API handlers that create, cancel, poll   *)
(* and hand it out, and the retention sweep every handler begins with.     *)
(* In inline mode the tasks share the event loop and the EXPORT_JOBS       *)
(* entries with the handlers; in detached mode each is a process of its    *)
(* own that shares only its row of the store.                              *)
(***************************************************************************)
EXTENDS Naturals, FiniteSets

CONSTANTS
  NumJobs,       \* jobs are created in the order 1..NumJobs
  MaxParts,      \* most parts one export is split into
  DownloadTTL,   \* DOWNLOAD_JOB_TTL_SECONDS: a job may stay unstarted so long
  HistoryTTL,    \* HISTORY_JOB_TTL_SECONDS: a finished file is kept so long
  ListLimit,     \* rows JOB_STORE.list hands to the sweep, the newest first
  MaxClock,      \* bound on time.time()
  MaxStops       \* bound on losses of processes

ASSUME DownloadsAssumption ==
  /\ NumJobs \in Nat /\ MaxClock \in Nat /\ MaxStops \in Nat
  /\ MaxParts \in Nat \ {0}
  /\ DownloadTTL \in Nat /\ HistoryTTL \in Nat /\ ListLimit \in Nat \ {0}

VARIABLES
  detached,  \* STELLAR_EXPORTER_DETACHED_JOBS
  clock,
  row,       \* export_jobs
  mem,       \* the ExportJob object of the task
  listed,    \* inline mode: jobs with an entry in EXPORT_JOBS
  pc,        \* where the task of each job is
  parts,     \* parts the task has got from iter_export_part_files
  disk,      \* temporary files of the job that exist
  swept,     \* when cleanup_jobs last ran
  lost,      \* files of a job its task let go of, neither named nor to be removed
  stops

vars == <<detached, clock, row, mem, listed, pc, parts, disk, swept, lost, stops>>

Jobs == 1..NumJobs
Active == {"pending", "running"}
Terminal == {"completed", "failed", "cancelled", "expired", "interrupted"}
\* Temporary files of a job: its numbered parts, the file of an unsplit export,
\* and the archive of several parts.
NoFile == 0
Stream == MaxParts + 1
Zip == MaxParts + 2
File == 1..Zip
Times == 0..MaxClock
Never == MaxClock + 1      \* completed_at IS NULL

\* path is download_path, payload holds until the job object lets go of it.
ExportJob == [status : {"absent"} \cup Active \cup Terminal, split : BOOLEAN,
              made : Times, ended : Times \cup {Never}, cancel : BOOLEAN,
              path : File \cup {NoFile}, payload : BOOLEAN]

Absent == [status |-> "absent", split |-> FALSE, made |-> 0, ended |-> Never,
           cancel |-> FALSE, path |-> NoFile, payload |-> FALSE]

Init ==
  /\ detached \in BOOLEAN
  /\ clock = 0 /\ swept = 0 /\ stops = 0
  /\ row = [j \in Jobs |-> Absent] /\ mem = row
  /\ listed = {}
  /\ pc = [j \in Jobs |-> "none"]
  /\ parts = [j \in Jobs |-> 0]
  /\ disk = [j \in Jobs |-> {}] /\ lost = disk

\* JobStore.save of a job object: cancel_requested is sticky, and the payload
\* with its credentials is never stored.
Upsert(rows, j, job) ==
  [rows EXCEPT ![j] = [job EXCEPT !.cancel = @ \/ rows[j].cancel, !.payload = FALSE]]
Ended(job, status) == [job EXCEPT !.status = status, !.ended = clock]

\* In inline mode a task that does not await keeps the event loop.
LoopBusy == ~detached /\ \E j \in Jobs : pc[j] \in {"ready", "named"}

(***************************************************************************)
(* Retention                                                               *)
(***************************************************************************)
\* Mutant: the age of a file counted from the creation of its job.
AnchorAtCreation(job) == job.made

\* terminal_anchor: completed_at, or created_at when there is none.
Anchor(job) == IF job.ended = Never THEN job.made ELSE job.ended
PastHistory(job) == job.status \in Terminal /\ clock > Anchor(job) + HistoryTTL

\* Jobs of EXPORT_JOBS whose one-shot payload was never taken up.
Unclaimed == {j \in listed : /\ mem[j].status = "pending" /\ mem[j].payload
                             /\ clock > mem[j].made + DownloadTTL}
Forgotten == {j \in listed : PastHistory(mem[j])}

Expire(job) == [Ended(job, "expired") EXCEPT !.payload = FALSE, !.cancel = TRUE]

\* JOB_STORE.list(200): the rows created last.
Newest(rows) ==
  {j \in Jobs : /\ rows[j].status # "absent"
                /\ Cardinality({k \in Jobs : k > j /\ rows[k].status # "absent"}) < ListLimit}

\* Rows of the store whose file is past the history TTL.
StaleRows(rows) == {j \in Newest(rows) : PastHistory(rows[j]) /\ rows[j].path # NoFile}

\* cleanup_jobs, as what it makes of the job objects, the table and the disk.
Cleanup ==
  LET m == [j \in Jobs |-> IF j \in Unclaimed THEN Expire(mem[j]) ELSE mem[j]]
      r == [j \in Jobs |-> IF j \in Unclaimed THEN Upsert(row, j, m[j])[j] ELSE row[j]]
      old == StaleRows(r)
      gone == Unclaimed \cup Forgotten
  IN [mem    |-> [j \in Jobs |-> IF j \in gone THEN Absent ELSE m[j]],
      listed |-> listed \ gone,
      row    |-> [j \in Jobs |-> IF j \in old THEN [r[j] EXCEPT !.path = NoFile] ELSE r[j]],
      disk   |-> [j \in Jobs |-> disk[j] \ ((IF j \in Forgotten THEN {mem[j].path} ELSE {})
                                       \cup (IF j \in old THEN {r[j].path} ELSE {}))]]

(***************************************************************************)
(* Handlers of the API                                                     *)
(***************************************************************************)
\* What the API process keeps of a job object: a worker has its own.
Left(job) == IF detached THEN Absent ELSE job

\* Entries of EXPORT_JOBS: the tasks of this process.
Enlist(jobs, j) == IF detached THEN jobs ELSE jobs \cup {j}

\* create_export_job with a download destination; a worker that can not be
\* launched leaves a failed row.
Create(j, split) ==
  /\ ~LoopBusy
  /\ row[j].status = "absent" /\ (j > 1 => row[j - 1].status # "absent")
  /\ LET c == Cleanup
         job == [Absent EXCEPT !.status = "pending", !.split = split, !.made = clock,
                               !.payload = TRUE]
     IN \E launched \in (IF detached THEN BOOLEAN ELSE {TRUE}) :
          /\ mem' = [c.mem EXCEPT ![j] = Left(job)]
          /\ row' = Upsert(c.row, j, IF launched THEN job ELSE Ended(job, "failed"))
          /\ pc' = [pc EXCEPT ![j] = IF launched THEN "start" ELSE "none"]
          /\ listed' = Enlist(c.listed, j)
          /\ disk' = c.disk
  /\ swept' = clock
  /\ UNCHANGED <<detached, clock, parts, lost, stops>>

\* Mutant: the payload is left for the task to find.
WithdrawnStatusOnly(job) == [Ended(job, "cancelled") EXCEPT !.cancel = TRUE]

\* A pending job that is cancelled: its task finds no payload.
Withdrawn(job) == [Ended(job, "cancelled") EXCEPT !.cancel = TRUE, !.payload = FALSE]

\* cancel_export_job, which raises 404 after the sweep when there is no row.
Cancel(j) ==
  /\ ~LoopBusy
  /\ LET c == Cleanup
         job == c.mem[j]
         stopped == IF job.status = "pending" THEN Withdrawn(job) ELSE [job EXCEPT !.cancel = TRUE]
     IN /\ IF j \in c.listed
           THEN IF job.status \in Terminal
                THEN mem' = c.mem /\ row' = c.row
                ELSE mem' = [c.mem EXCEPT ![j] = stopped] /\ row' = Upsert(c.row, j, stopped)
           ELSE /\ mem' = c.mem
                /\ row' = [c.row EXCEPT ![j].cancel = @ \/ c.row[j].status \in Active]
        /\ listed' = c.listed /\ disk' = c.disk
  /\ swept' = clock
  /\ UNCHANGED <<detached, clock, pc, parts, lost, stops>>

\* What download_export answers for a job object or a row.
Answer(job, files) ==
  CASE job.status = "absent" -> "not found"
    [] job.status = "cancelled" -> "cancelled"
    [] job.status \in {"failed", "interrupted"} -> "failed"
    [] job.status \in Active \cup {"expired"} -> "preparing"
    [] job.status = "completed" -> IF job.path \in files THEN "file" ELSE "gone"

\* export_history, export_job_status and download_export, which answers by
\* Answer: the sweep, and job objects persisted as they are.
Poll ==
  /\ ~LoopBusy
  /\ LET c == Cleanup
     IN /\ mem' = c.mem /\ listed' = c.listed /\ disk' = c.disk
        /\ row' = [j \in Jobs |-> IF j \in c.listed THEN Upsert(c.row, j, c.mem[j])[j] ELSE c.row[j]]
  /\ swept' = clock
  /\ UNCHANGED <<detached, clock, pc, parts, lost, stops>>

(***************************************************************************)
(* The task of a job                                                       *)
(***************************************************************************)
TaskOnly == UNCHANGED <<detached, clock, listed, swept, stops>>

\* job_cancel_requested: a worker looks at its row at most twice a second, so
\* either answer is possible while only the row carries the request.
CancelSeen(j) ==
  {mem[j].cancel} \cup (IF detached THEN {mem[j].cancel \/ row[j].cancel} ELSE {})

\* Both run_download_job and mark_job_started; a worker has built its job
\* object from the row before.  The file of an unsplit export is opened here.
Start(j) ==
  /\ pc[j] = "start" /\ ~LoopBusy
  /\ LET job == IF detached THEN [row[j] EXCEPT !.payload = TRUE] ELSE mem[j]
         running == [job EXCEPT !.status = "running"]
     IN IF (~detached /\ j \notin listed) \/ ~job.payload
        THEN /\ pc' = [pc EXCEPT ![j] = "none"]
             /\ UNCHANGED <<row, mem, disk>>
        ELSE /\ mem' = [mem EXCEPT ![j] = running]
             /\ row' = Upsert(row, j, running)
             /\ pc' = [pc EXCEPT ![j] = "write"]
             /\ disk' = [disk EXCEPT ![j] = IF job.split THEN @ ELSE @ \cup {Stream}]
  /\ UNCHANGED <<parts, lost>> /\ TaskOnly

\* Mutant: the file that was named already is not among those removed.
RemovedParts(j, n) == IF pc[j] = "write" /\ ~mem[j].split THEN {Stream} ELSE 1..n

\* What an exception makes the task remove: the n paths of temporary_paths,
\* what write_stream_to_temp_file has opened, and download_path.
Removed(j, n) ==
  (IF pc[j] = "write" /\ ~mem[j].split THEN {Stream} ELSE 1..n) \cup {mem[j].path}

\* mark_job_terminal and the end of the task.
EndTask(j, job) ==
  /\ mem' = [mem EXCEPT ![j] = Left([job EXCEPT !.payload = FALSE])]
  /\ row' = Upsert(row, j, job)
  /\ pc' = [pc EXCEPT ![j] = "none"]
  /\ parts' = [parts EXCEPT ![j] = 0]

\* The except branches of run_download_job: n parts were taken over so far,
\* and of the files there are it has nowhere noted those in unnoted.
Abort(j, status, n, files, unnoted) ==
  /\ EndTask(j, [Ended(mem[j], status) EXCEPT !.path = NoFile])
  /\ disk' = [disk EXCEPT ![j] = files \ Removed(j, n)]
  /\ lost' = [lost EXCEPT ![j] = unnoted]

\* The next record opens a part.
OpenPart(j) ==
  /\ pc[j] = "write" /\ mem[j].split /\ ~LoopBusy
  /\ parts[j] < MaxParts /\ parts[j] + 1 \notin disk[j]
  /\ disk' = [disk EXCEPT ![j] = @ \cup {parts[j] + 1}]
  /\ UNCHANGED <<row, mem, pc, parts, lost>> /\ TaskOnly

\* A part is full, or the last one is written: the task takes it over, and
\* looks for a cancel request.
YieldPart(j) ==
  /\ pc[j] = "write" /\ parts[j] + 1 \in disk[j] /\ ~LoopBusy
  /\ \E seen \in CancelSeen(j) :
       IF seen THEN Abort(j, "cancelled", parts[j] + 1, disk[j], {})
       ELSE /\ parts' = [parts EXCEPT ![j] = @ + 1]
            /\ UNCHANGED <<row, mem, disk, pc, lost>>
  /\ TaskOnly

\* A part that is being written is known to iter_export_part_files only.
OpenFile(j) == IF mem[j].split THEN disk[j] \ 1..parts[j] ELSE {}

\* The stream raises: the server or the disk failed, or the engine saw a
\* cancel request.
StreamRaises(j) ==
  /\ pc[j] = "write" /\ ~LoopBusy
  /\ \/ Abort(j, "failed", parts[j], disk[j], OpenFile(j))
     \/ TRUE \in CancelSeen(j) /\ Abort(j, "cancelled", parts[j], disk[j], OpenFile(j))
  /\ TaskOnly

\* The stream has ended; its file is flushed, or its last part was yielded.
StreamEnds(j) ==
  /\ pc[j] = "write" /\ ~LoopBusy
  /\ mem[j].split => parts[j] > 0 /\ disk[j] = 1..parts[j]
  /\ pc' = [pc EXCEPT ![j] = "ready"]
  /\ UNCHANGED <<row, mem, parts, disk, lost>> /\ TaskOnly

\* The prepared file gets its name: one part as it is, several in an archive.
Name(j) ==
  LET file == IF ~mem[j].split THEN Stream ELSE IF parts[j] = 1 THEN 1 ELSE Zip
  IN /\ mem' = [mem EXCEPT ![j].path = file]
     /\ disk' = [disk EXCEPT ![j] = {file}]
     /\ pc' = [pc EXCEPT ![j] = "named"]
     /\ UNCHANGED <<row, parts, lost>>

\* An unsplit export is checked for a cancel request before it has a name.
NameFile(j) ==
  /\ pc[j] = "ready"
  /\ \/ mem[j].split /\ Name(j)
     \/ ~mem[j].split /\ \E seen \in CancelSeen(j) :
          IF seen THEN Abort(j, "cancelled", parts[j], disk[j], {Stream}) ELSE Name(j)
     \/ mem[j].split /\ parts[j] > 1 /\ Abort(j, "failed", parts[j], disk[j] \cup {Zip}, {Zip})
  /\ TaskOnly

\* The last check, and mark_job_terminal.
Complete(j) ==
  /\ pc[j] = "named"
  /\ \E seen \in CancelSeen(j) :
       IF seen THEN Abort(j, "cancelled", parts[j], disk[j], {})
       ELSE EndTask(j, Ended(mem[j], "completed")) /\ UNCHANGED <<disk, lost>>
  /\ TaskOnly

(***************************************************************************)
(* Time, and the loss of processes                                         *)
(***************************************************************************)
Tick == /\ clock < MaxClock /\ clock' = clock + 1
        /\ UNCHANGED <<detached, row, mem, listed, pc, parts, disk, swept, lost, stops>>

\* JobStore.recover_interrupted.
Interrupt(rows, js) ==
  [j \in Jobs |-> IF j \in js /\ rows[j].status \in Active
                  THEN Ended(rows[j], "interrupted") ELSE rows[j]]

\* A worker is killed; its files stay.
KillWorker(j) ==
  /\ detached /\ pc[j] # "none" /\ stops < MaxStops
  /\ pc' = [pc EXCEPT ![j] = "none"] /\ mem' = [mem EXCEPT ![j] = Absent]
  /\ parts' = [parts EXCEPT ![j] = 0] /\ stops' = stops + 1
  /\ lost' = [lost EXCEPT ![j] = disk[j]]
  /\ UNCHANGED <<detached, clock, row, listed, disk, swept>>

\* The reaper, or the next start of the API, finds the worker gone; whether one of
\* them ever does is ExportJobs' matter.
Reap(j) ==
  /\ detached /\ pc[j] = "none" /\ row[j].status \in Active
  /\ row' = Interrupt(row, {j})
  /\ UNCHANGED <<detached, clock, mem, listed, pc, parts, disk, swept, lost, stops>>

\* Mutant: a start of the API leaves the table alone.
NoRecovery(rows) == rows

\* lifespan in inline mode: nothing can be running, so whatever is active was.
Recovered(rows) == Interrupt(rows, Jobs)

\* What is left of the memory of the API process.
NoTasks ==
  /\ listed' = {} /\ mem' = [j \in Jobs |-> Absent]
  /\ pc' = [j \in Jobs |-> "none"] /\ parts' = [j \in Jobs |-> 0]

\* The API process is killed and started again; inline tasks die with it.
ApiKilled ==
  /\ ~detached /\ stops < MaxStops
  /\ stops' = stops + 1
  /\ row' = Recovered(row)
  /\ NoTasks
  /\ lost' = [j \in Jobs |-> IF pc[j] = "none" THEN lost[j] ELSE disk[j]]
  /\ UNCHANGED <<detached, clock, disk, swept>>

\* It is stopped in an orderly way: every task that awaits is cancelled first,
\* and what has not begun is found interrupted by the next start.
ApiStopped ==
  /\ ~detached /\ ~LoopBusy /\ stops < MaxStops
  /\ stops' = stops + 1
  /\ LET writing == {j \in Jobs : pc[j] = "write"}
     IN /\ row' = Recovered([j \in Jobs |-> IF j \in writing
                     THEN Ended(row[j], "cancelled") ELSE row[j]])
        /\ disk' = [j \in Jobs |-> IF j \in writing
                     THEN disk[j] \ Removed(j, parts[j]) ELSE disk[j]]
        /\ lost' = [j \in Jobs |-> IF j \in writing THEN OpenFile(j) ELSE lost[j]]
  /\ NoTasks
  /\ UNCHANGED <<detached, clock, swept>>

Task(j) == Start(j) \/ OpenPart(j) \/ YieldPart(j) \/ StreamRaises(j) \/ StreamEnds(j)
             \/ NameFile(j) \/ Complete(j)

Next ==
  \/ \E j \in Jobs, split \in BOOLEAN : Create(j, split)
  \/ \E j \in Jobs : Cancel(j) \/ Task(j) \/ KillWorker(j) \/ Reap(j)
  \/ Poll \/ ApiKilled \/ ApiStopped \/ Tick

\* Tasks go on: a query ends, at the latest by its retries.  Nobody has to reap,
\* poll, cancel, download, or wait.
Spec == Init /\ [][Next]_vars /\ \A j \in Jobs : WF_vars(Task(j))

(***************************************************************************)
(* Properties                                                              *)
(***************************************************************************)
TypeOK ==
  /\ detached \in BOOLEAN /\ clock \in Times /\ swept \in Times
  /\ row \in [Jobs -> ExportJob] /\ mem \in [Jobs -> ExportJob]
  /\ listed \subseteq Jobs /\ (detached => listed = {})
  /\ pc \in [Jobs -> {"none", "start", "write", "ready", "named"}]
  /\ parts \in [Jobs -> 0..MaxParts] /\ disk \in [Jobs -> SUBSET File]
  /\ lost \in [Jobs -> SUBSET File] /\ stops \in 0..MaxStops

\* A prepared download is on disk for the whole history TTL after it was
\* finished, however long it took to prepare, whatever is swept, cancelled or
\* restarted meanwhile (cleanup_jobs, run_download_job).
ReadyIsServed ==
  \A j \in Jobs : row[j].status = "completed" /\ clock <= row[j].ended + HistoryTTL
                    => Answer(row[j], disk[j]) = "file"

\* A job that has ended stays as it ended: a task that starts late does not
\* revive a job that was withdrawn, expired or recovered.
EndedStays ==
  [][\A j \in Jobs : row[j].status \in Terminal => row'[j].status = row[j].status]_vars

\* A temporary file belongs to a running task or is named by its row, except
\* for what its task let go of: sweeps and error paths leave nothing else.
FilesHaveOwners ==
  \A j \in Jobs : pc[j] = "none" =>
    disk[j] \subseteq lost[j] \cup (IF row[j].status = "completed" THEN {row[j].path} ELSE {})

\* What was past its TTL when the sweep last ran and is still on disk had as
\* many newer rows above it as one listing returns.
OldFilesAreHidden ==
  \A j \in Jobs : row[j].path \in disk[j] /\ swept > row[j].ended + HistoryTTL
                    => j \notin Newest(row)

\* The TTL of a file counts from the end of its job and from nothing else: it is
\* served so long, and no sweep that can see its row leaves it longer.
FilesFollowTTL == ReadyIsServed /\ OldFilesAreHidden

\* Every job that is accepted inline ends, whether its task runs to an end, finds its
\* payload withdrawn, or is lost or cancelled with the process.  Nothing is claimed of
\* detached jobs: no one may be left to notice that a worker died (ExportJobs!Forsaken).
InlineJobsEnd ==
  \A j \in Jobs :
    ~detached /\ row[j].status \in Active ~> row[j].status \in Terminal

\* "Clear the persisted path after expiry so large CSV/JSON exports do not
\* accumulate forever on the server" (main.py:631): no file is left that no
\* task works on and no row names.
NoFileIsForgotten ==
  stops = 0 => \A j \in Jobs : disk[j] # {} => pc[j] # "none" \/ row[j].path \in disk[j]
=============================================================================
