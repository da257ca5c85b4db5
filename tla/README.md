# Verification of stellar-data-exporter

TLA+ models of the export service in `app/` and of the coordination tools in
`tools/`, the TLC configurations that check them, and TLAPS proofs of what matters
most. Paths below are relative to the repository's root.

## The system

| component | where | state | operations |
| --- | --- | --- | --- |
| API process | `app/main.py` | event loop, `EXPORT_JOBS` (inline mode), `ACTIVE_SCHEDULE_RUNS` | create, resume, cancel, annotate, download, history; schedule loop; start-up recovery |
| reaper threads | `app/main.py` `_reap_detached_worker` | one `Popen` each | wait for a worker, mark its job interrupted if the record is still active |
| worker process | `app/job_worker.py`, `run_*_job` | an `ExportJob` object | read payload from stdin, build the job, export, upload, persist |
| job store | `app/job_store.py` | SQLite table `export_jobs` | full-row upsert with a sticky cancel flag, guarded updates, overlap search |
| schedules | `app/schedule_store.py`, `execute_schedule` | SQLite table `export_schedules` | due loop, run-now, windows, resume of the last job, result recording |
| export engine | `app/exporter.py` | slice stack, seen identities, open part file | adaptive slicing, deduplication, part files |
| Stellar client | `app/stellar.py` | JWT and its age | token refresh under a lock, retries, read-timeout escape |
| destinations | `app/destinations.py` | multipart upload, remote file | S3 multipart, SFTP in place |
| web page | `app/static/app.js` | form lock, current job | preflight, polling, reconnect |
| downloads | `app/main.py` `run_download_job`, `cleanup_jobs` | temporary files, `export_jobs`, `EXPORT_JOBS` | prepare, cancel, poll, hand out, expire |
| planner and watch | `tools/coordinator.py`, `tools/coordinator_watch.py` | durable state of a watch | one decision from one set of facts; evaluation of a watch over time |
| watch host | `tools/coordinator_watch_host.py`, `_collect.py`, `_effects.py` | lock, watch state, ledger, journal | run once: collect, evaluate, authorize, send, record |
| skills contract | `tools/skills-contract.py`, `tools/worker_adapter.py` | dispatch markers | authorize, reserve, finalize, consume |
| work sessions | `tools/work_admission.py`, `context_epoch.py`, `execution_profile.py`, `handoff_contract.py`, `implementation_preflight.py` | none: verdicts on claims, packets, worktrees | eligible, admit, project, preflight, epoch, hand off, release, clean up |

How they meet: the API process, its reapers and the workers share nothing but
the row of a job, each `JobStore` call being one transaction. A handler runs to
its end without giving up the event loop in detached mode; the schedule loop is a
task on the same loop. A worker gets its payload over a pipe that the API closes,
and reads it only after its pid was saved. It writes the whole row from its own
copy. The hard behaviour is therefore: full-row writes from stale copies, recovery
that decides from a pid whether a worker lives, resumes that race the previous
worker's end, losses of either process between any two transactions, and uploads
that stop half way.

The tools are programs that are started, read their inputs, answer and end. What
lasts is in files: the watch host renames its watch state, ledger and journal into
place under a lock that the operating system drops with the process, while dispatch
markers are created exclusively and rewritten in place. The admission, epoch and
preflight tools keep nothing; whoever calls them holds the claims. The hard behaviour
is: a run that dies between a send and its record, a send whose outcome is unknown,
two programs that use one dispatch, observations that are evaluated late or lack a
section, and facts (an Issue, a worktree path, a HEAD) that change between the call
that reads them and the act that relies on them.

## Modules

`ExportJobs` models remote (S3 or SFTP) jobs in detached mode. `row` is the table;
`pc`, `work`, `mem`, `done` and `uploading` are a worker's position, its job, its
`ExportJob` object, its `generated_parts` and whether a part is being sent;
`reaper` is the worker's reaper thread; `apc`, `ajob`, `aworker`, `amem` are the
handler under way in the API process, its job, its `Popen` handle and its
`ExportJob` object. One action is one transaction, one upload boundary or one
process event:

| action | code |
| --- | --- |
| `CreateJob`, `ResumeRead`, `ResumeClearCancel`, `ResumeSave` | `create_export_job`, `resume_export_job` |
| `SpawnWorker`, `PersistPid`, `SendPayload`, `SpawnFails`, `SendPayloadFails` | `launch_detached_worker` and the 503 path of its callers |
| `AnnotateRead`, `AnnotateSave` | `annotate_job_metadata` called by `execute_schedule` |
| `Cancel` | `cancel_export_job`, `JobStore.request_cancel` |
| `ApiStart`, `RecoverOrphans` | `lifespan`, `recover_orphaned_export_jobs` |
| `ReaperRead`, `ReaperRecover` | `_reap_detached_worker` |
| `StdinEOF`, `BuildJob`, `SetWorkerPid` | `job_worker.run`, `build_job`, `execute` |
| `MarkStarted`, `PersistMerge`, `PersistSave`, `Progress` | `mark_job_started`, `persist_job` |
| `SkipPart`, `BeginUpload`, `FinishUpload`, `Complete`, `Fail`, `CancelObserved`, `FinalSave` | `run_destination_job`, `mark_job_terminal` |
| `ApiCrash`, `ServiceStop`, `WorkerCrash` | environment: loss of the API process, of the whole control group, of a worker |

`JobContract` is the abstract specification: a job is submitted, runs, gains
checkpoints one at a time, ends once per attempt, completes only when whole and is
resumed from the checkpoints it has; a start-up interrupts the jobs of all lost workers
in one step. `ExportJobs!ImplementsContract` is the refinement (status and parts of the
row).

Abstractions: an export has a fixed number of parts; a checkpoint is a prefix
length; metadata is reduced to whether it carries the schedule's annotation; pids
are not reused (the liveness probe also compares the command line, which names the
job); a locked database is a worker crash; the 0.5 s throttle of the cancellation
check makes noticing a request nondeterministic.

`Schedules` models scheduled exports over `JobContract`: its jobs move by the
contract's own actions (`Job!Submit`, `Job!Resume`, `Job!Start`, ...), so what it shows
holds for the jobs of `ExportJobs` wherever those implement the contract (the run
`RemoteSftp`). `sched` is `export_schedules`; `task` is `ACTIVE_SCHEDULE_RUNS` with the
job a run waits for; `status`, `parts`, `export` are columns of `export_jobs`. The
handlers and `execute_schedule` up to its wait are one action each because in detached
mode they never give up the event loop before it; `ApiRestart` drops the tasks and
leaves the jobs to their workers. `MaxTime` bounds the clock, `Jobs` the number of
exports, `HandResumes` what users resume. When no job id is left only the failure
branches of a run remain. `PATCH` of the interval or window lengths is a free choice
from `Intervals` and `Windows` wherever one is used. `last_status` and `last_error` are
left out: no decision reads them.

`SliceEngine` models the reading of one export: `export_partitions` and the loop of
`build_export_source` (`BeginPartition`, `AllRead`, `NextPartition`), and
`ExportEngine.iter_documents` on a partition: `Count` seeds the stack, `Probe` reads a
slice that fits, `SplitSlice` halves one that holds too much or timed out, `DenseSlice`
and `Fail` give up, `Emit`, `SkipDuplicate` and `LimitReached` deal with what a probe
returned. Bounds are rounded down to milliseconds as the User Scope client does it, and
daily indices are searched only for the UTC days a window reaches into. The server
ingests or re-dates documents between any two steps (`Redate`). All documents have a
stable identity. `ExportIsComplete` leaves out re-dated documents and exports that
reached their limit; `YieldedOnce` allows one repetition, which the code does allow: a
document re-dated across two windows is yielded in both, because each partition has an
engine, and so a set of seen identities, of its own.

`Checkpoints` models a split export over several attempts: what
`iter_export_part_files` writes (columns read ahead, part boundaries, names), what
`run_destination_job` compares, uploads and checkpoints, and every place where an
attempt stops. `Digest` says which parts have equal bytes: the records, the columns,
and for compressed parts the attempt, whose time and temporary name go into the gzip
header. `DataChanges` is a query that answers differently from the last one, in
records or in their order. The projection to selected fields and the size of the
header are abstracted to `Fields` and `Overhead`.

`Downloads` models browser downloads in both modes. `pc`, `mem`, `parts` and `disk` are
the task of a job, its object, the parts it was given and its temporary files; `row` is
the store, `listed` the inline entries of `EXPORT_JOBS`. `Create`, `Cancel` and `Poll`
are handlers, each with the `cleanup_jobs` it begins with; `Start`, `OpenPart`,
`YieldPart`, `StreamRaises`, `StreamEnds`, `NameFile` and `Complete` are what
`run_download_job` and the part writer do between two awaits; `KillWorker`, `Reap`,
`ApiKilled` and `ApiStopped` are losses. `lost` remembers files a task let go of, so that
`FilesHaveOwners` says nothing else is left over; that such files exist at all is the
finding below.

`StellarClient` models one client and its three uses: tenants, the probes of an export,
and concurrent counts behind a semaphore. A call is at the lock (`GetToken`), exchanging
a token, sent, asleep before a retry, or done; `Answer` is the handler's answer, after
which `gather`'s other calls go on with a closed client. Ages count from the event, so
that time has no bound; ages from `MaxAge` on are not told apart. The server may refuse
any token at any time, and a request takes at most `MaxWait`, about which nothing is
assumed: `httpx` bounds single operations and the environment sets the timeouts. `since`
remembers the age of the refusal that a call has to answer.

`Planner` is the decision procedure of `coordinator.py` as functions on facts, `Watch`
the evaluator of `coordinator_watch.py` on top of it, and `WatchLoop` one watch over
time: `EvaluateNow` and `EvaluateLate` apply the evaluator to what the world shows now
or showed an observer that was overtaken.

`WatchHost` composes the host with `Collector` (facts of a world), `Skills` (who may do
what) and `DispatchStore` (the markers). A process goes through `Start`, `EvaluateLocked`,
`Recollect`, the branches of `_finish_typed` and `_execute_authorized`, and one action for
every write of a file: `Commit`s of the journal, `Reserve` (create) and `Reserved` (write),
`SendEffect`, `Finalize` (truncate) and `Finalized` (write), `RecordApplied`, `Deliver`.
`Crash` may come between any two. `ConsumeElsewhere` is the worker adapter, `Expire` the
clock. A crash between the creation or truncation of a marker and its write leaves a
blank file, which every reader takes for consumed; such an effect stays ambiguous and
waits for the owner. The journal of a watch is never cleared, so a watch sends one effect
in its life. `EffectContract` is the abstract specification (sent at most once, reported
at most once and later); `AtMostOnce` is the refinement. Policy digests and signatures
are folded into whether an assertion was signed; assertion files do not change; the
branch name, the ledger's bound of 32 entries and the receipts of informational notices
are left out; all observations carry one second; that a boundary or a dispatch is missing
is a free choice (`Denied`).

`WorkAdmission` and `ContextEpoch` are the verdicts of the admission, packet, profile,
handoff and epoch tools, `Preflight` the capture and check of a worktree, one Git call an
action, and `WorkSessions` composes them: `Select` (eligible), `Admit`, `Project`,
`Identify`, `CheckStep`, `Start`, then `Edit`, `Commit`, `Push`, `Epoch`, `Yield`, `Resume`,
`Finish`, `Reconcile`, `Release` and `Cleanup`. A context that `Epoch` clears or `Yield`
hands on loses its packet and reads it again by `Project`, from the Issue as it is then.
`Project` compares what `packet-project` is given to compare (`bound`): the whole binding of
`packet-identity` or some of its keys, possibly none (`require_identity` skips a key without
an expected value). `EditIssue`, `ChangeProfile`, `HostChanges`, `Swap`, `Touch` and `Doubt`
are the others. Assumed of the callers, which are not in the repository: the verdicts are
asked in this order; one coordinator records a claim with the verdict on it; a worker does
with its context what `decide_epoch` answers. What a cleanup is told of a worktree is what
its claim says: it was reconciled at some time, with changes that index flags hide among
them, or never. The operating system finds the same directory under `//` as under `/`,
although the tools tell the two spellings apart. A directory renamed over a worktree is
always the one decoy: two worktrees are never exchanged, which preflight could not notice
once a worker has started. A packet's repository and profile are read from one root, and
preflight is given the canonical spelling of a claim's path. Blockers, waits and the next
action are Booleans.

## Runs

| run | instance | shows |
| --- | --- | --- |
| `RemoteSftp` | 1 job, 3 workers, 2 parts, SFTP, 1 loss of the API | what is checkpointed is there, one writer, interrupted means stopped, cancellations stick, the contract is implemented |
| `RacingS3` | 1 scheduled job, 2 workers, 2 parts, S3, resumes race reapers | completed S3 exports are whole even then |
| `Settle` | 1 job, 2 workers, 2 parts, 1 loss of the API, 1 service stop | every accepted job ends, unless nobody is left to notice the loss of its worker |
| `Slicing` | 3 documents, 2 sources, 2 windows, 1 change at the server, limit 3 | complete, each document once and in order, halving ends |
| `PlainParts` | up to 4 records, 3 attempts, 2 changes of the data | a completed export is one stream, its record, result and files agree, unchanged data resumes |
| `Scheduled` | 1 schedule, 2 jobs, 3 instants, 1 restart, an export and a resume by hand | windows disjoint and contiguous, a due run starts unless the one before it waits for ever |
| `Downloads` | 2 downloads of up to 2 parts, both modes, listing of 1, 2 ticks, 1 loss | files are served for their TTL and no longer, ended jobs stay so, only hidden or lost files remain, inline jobs end |
| `Queries` | 2 calls, 2 slots, 4 attempts | a token in use is of bounded age, a refused one is replaced, every call ends |
| `WatchLoop` | 8 kinds of worlds, 3 watches, 3 instants, 3 failures | gates open on bound evidence only, late news changes nothing, failures escalate |
| `WatchDelivery` | 2 hosts, 2 dispatches, 3 runs, 1 crash, 1 move of the world | effects and reports at most once, a dispatch serves once, each record is borne out by the one before it |
| `WorkSessions` | 2 workers, 3 workstreams, 2 worktrees, 1 decoy, 2 bindings, 1 commit, 2 moves | workers stay independent, start on evidence of their own directory, agree with their claims in what they compared |
| `DownloadLeak` | as `Downloads` | violation: a file that no task and no row has |

A property that is a conjunction names its parts: `YieldsInOrder` is `YieldedOnce` and
`OldestFirst`, `RecordAgrees` is `CheckpointsAreTheResult` and `NoLeftovers`,
`FilesFollowTTL` is `ReadyIsServed` and `OldFilesAreHidden`, `RecordsAreBorneOut` is
`NoSilentWake` and `AppliedIsFinal`. The type invariants of `WatchHost`, `WatchLoop`,
`StellarClient`, `Downloads` and `WorkSessions` are in no run of their own; they hold in the
instances of their runs and are proved. `RemoteSftp` leaves `CompletedExportIsRemote` to the
theorem `CompletedDurable`, `RacingS3` checks it.

Bounds. Three workers are a launch and two resumes, enough for a race to produce two writers
and a later attempt to build on the damage; two parts give a checkpointed and an unfinished
part; the crash bounds are per behaviour, worker crashes are bounded only by the number of
workers. Three documents with a target of one record per slice force nested halving, slices
of the minimum length and a re-dated document read twice; the times include both sides of a
window, a day and a millisecond. Four records of two sizes give parts of one and two
records, a part filled exactly by the last record, and a remainder. Two jobs and three
instants give a schedule a first and a following window, or a failed job and its successor;
more jobs are left to the proofs. Two downloads and a listing of one row put one job outside
the listing; its TTL of one tick has a before and an after. Two calls race for one token,
and four attempts are those of the code, enough for a refusal, a failed exchange and a
refusal of the new token in one call; that calls wait for a slot is left to the proofs,
which hold for any number of both. The worlds of `WatchLoop` vary two or three facts each,
those that one decision turns on, because evidence of another head or revision is what could
open a gate; three instants hold a newest, an older and an oldest observation. Three runs
are one that is interrupted, one that recovers, and one more that must find nothing to do;
two dispatches let a renewed one take the place of a spent one. The three workstreams
conflict with each other in one way each: the same file in another spelling, a shared
runtime, and another repository's claim to the same worktree. Two moves rename a directory
and rename it back, or edit an Issue twice; every other change of the surroundings costs
both. One edit and one commit; what others leave in a worktree is `Touch`. The two bindings
are the whole one and the workstream alone.

`ResumeAfterExit` is an assumption about the operator, not the code: no resume while
an ended worker is still exiting or unreaped. The runs without it show what the code
does when it fails. Once two workers share an SFTP job, one removes or truncates a
part the other has checkpointed (`upload_sftp` writes the final path in place and
removes it on failure); that is why `CheckpointsAreRemote` is claimed for SFTP only
under the assumption, and for S3 without it.

Fairness. `ExportJobs!FairSpec`: handlers run on, a lost service is started again,
threads and processes are scheduled (weak fairness). Reporting progress cannot starve
the export itself because it has finitely many bytes: strong fairness of `Advance`.
`SliceEngine!FairSpec`: the consumer keeps iterating. `Schedules!FairSpec`: the loop
polls and tasks run on; nothing is assumed of jobs, which findings 2 and 3 below leave active
for ever, and `DueIsServed` names the run that waits for such a job as its exception.
`Downloads!Spec`: tasks go on; nobody has to reap, and `InlineJobsEnd` claims nothing of
detached jobs.
`StellarClient!Spec`: the event loop runs what is ready, and `asyncio.Lock` wakes its
waiters in turn, hence strong fairness of each call. No request, crash, stop or change
of the data is fair. The tools' models state none: nothing in the repository starts a
host or a worker again, and a lock is released by the operating system.

## Proofs

All are safety properties of `Spec`, for every value of the constants that the named
assumptions of each module allow. Each module states an inductive invariant, shows that
the first state has it and that each action keeps it, and derives the properties.

- `ExportJobsProofs`. `TypeOK` is not inductive; `TypeInv` adds that a part being sent
  is one of the export's and that a handler, worker or reaper has a job. `OneWriter` and
  `InterruptedStopped` assume `ResumeAfterExit`; `OwnerInv` says that a launch is
  exclusive from the moment its handler reads the record, and that the record of a job
  with a writer names that writer, so neither a reaper nor a start-up takes it for
  dead. `CheckpointsDurable` and `CompletedDurable` go by cases: with S3 the parts at the
  destination only accumulate (`DurableInv`: every copy of a record claims no more than
  is there); SFTP takes away the part it is about to write, so there `CoverInv` adds that
  no record claims more parts than the job's only writer has dealt with. `CancelSticks`
  needs types alone: every write of a row is one of two transactions that both keep the
  flag, and only the resume handler clears it. `Implements` is the refinement of
  `JobContract`, action by action: `StageInv` says how far a worker's object is ahead of
  its record (one transition or one checkpoint, never both) and that a worker has dealt
  with no more parts than its object records. It assumes `ResumeAfterExit`. The
  annotation of a scheduled job saves the whole row from a copy read earlier and may take
  it back from running to pending, which the contract does not allow (finding 2), so the
  refinement is stated per set of jobs: `UnlessTakenBack` says that the records of any set
  of jobs follow the contract, whatever happens to the others, in every behaviour where no
  annotation takes one of them back. Two consequences need no such condition:
  `UnscheduledImplement` for the jobs that the schedule loop does not run (`AnnotatedInv`:
  a handler that annotates has one of `Scheduled`), and `Implements` for all jobs when
  there are no schedules, which is what `RemoteSftp` checks. `NeverSetBack` reads off the
  contract that a completed export stays completed and no checkpoint is lost. So what
  `Schedules` shows rests, for the moment of an annotation that takes a record back, on the
  worker writing again.
- `SchedulesProofs`. `CursorInv`: the job a run waits for, and the last job as long as
  it is not completed, begin where the last success ended; hence `Contiguous`.
  `DisjointInv`: two jobs of a schedule that may still deliver (active, completed, with
  checkpoints, or the one the schedule would resume) do not overlap; a job that falls
  out of that set comes back only by a user's resume, hence `WindowsDisjoint`.
- `SliceEngineProofs`. `ReadInv`: every document that stayed put and is due in the
  current partition has been yielded, is in hand, or lies in a slice on the stack;
  those of earlier partitions have been yielded. The lemmas show that seeds and halves
  cover what they replace after rounding to milliseconds, and that a document's day is
  among the searched indices. Hence `NothingLost`. For `StreamInOrder`, `OrderInv`: an
  entry of the stream comes from this partition or from one before it, where partitions
  follow each other by window and by the first use of a source; the stack is sorted, what
  is in hand is older than all of it, and what this partition has yielded is older still.
- `CheckpointsProofs`. `CheckpointInv`: the parts of the attempt tile what it has
  written and the checkpoints describe exactly those parts as far as both go. Hence
  `CheckpointsKept` and `OneStream`, also for compressed parts. That a second attempt cuts
  the same data at the same places is a statement about a recursion over the data, which
  cannot be proved by induction here. `ReplayInv` replaces it by traces: an attempt has a
  trace of its cuts, every other trace agrees with it as far as both go, and whatever is
  checkpointed or at the destination was closed by some trace. Extending the attempt by a
  record extends the agreement. Hence `Agreement`, and `Resumes` for parts that are not
  compressed (the time stamp in a gzip header makes two equal parts differ, finding 4).
- `DownloadsProofs`. The invariant is one predicate per job, on its row, its object, its
  inline entry, its task and its files (`JobOK`): entry and row agree unless a task is
  between two writes, a running row has a task, every file on disk is one the task knows,
  a completed row names a file that is there while it may still be served, and what has
  no task is named or was let go of. `FilesFollow` adds what the last sweep could see:
  rows only get older in the listing, so a row that was out of its sight stays out.
  `HaveOwners` and `EndedStay` follow.
- `StellarClientProofs`. A token is at most one wait older than its receipt tells, a call
  takes it when its receipt is younger than the refresh age and holds it for one wait: hence
  `AgeBound`, the refresh age and two waits, whatever the wait is. Whether a token lives that
  long is the server's affair, so nothing is claimed of it; what the code does instead is to
  replace a token that was refused. For `Replaced` the invariant says that a call with a refusal
  to answer has `force_refresh` set, through failed exchanges and sleeps, until it exchanges a
  token itself; that exchange began after the refusal, so what it sends was issued after it.
- `WatchProofs`, about one watch over time (`WatchLoop`). The planner and the evaluator are
  lists of rules of which the first that applies answers; `FirstRule` turns such a list into
  alternatives (a rule applies, and none before it does). From them `PlanOpens`, `PRMerges`
  and `PathOpens` collect what an answer that goes ahead entails, and `MapSays` what the
  evaluator passes on: hence `ActsEarned`. `GateStaysShut` compares the answers with and
  without a section: where the planner goes ahead without it, the rules that look at it
  answer the same with it; hence `NoGateOnSilence`. `LoopInv` is the environment (a late
  observation is one that was made), a well-formed watch state whose times the clock has
  reached (`KeptAt`), and `TransientEscalates`: what an evaluation leaves open it has
  decided by the counter it found. Hence `Escalates`, `LoopTypes` and `OldNews`. Of the
  constants it is assumed that every world is a nonempty set of facts.
  `TransientEscalates` speaks of facts that show nothing but the failure (`OnlyTransient`):
  a paused packet, an ambiguous mutation, a stale worker or a blocked resource comes first.
- `WatchProofs`, about the host (`WatchHost`). A run past its evaluation holds the lock
  of its identity, so there is one delivering run per journal. The journal keeps its
  effect and its attempt once they are written; a marker goes from absent to blank,
  reserved, blank, consumed, and a consumed one that names its owner is never written
  again; a used dispatch is never found reserved under a journal that has not left its
  intent; what was sent has a journal past its intent; an applied entry of the ledger
  has that journal and such a marker. Hence `ServesOnce`, `BorneOut`, `NotWidened`, and
  `SendsOnce`, the refinement of `EffectContract`.
- `WorkSessionsProofs`. A session's selection and claim agree from admission on, its
  packet agrees with them in what its last reading compared, a claim's status says where its
  session is, what a preflight has read is about the one directory of its descriptor, and
  the live claims are pairwise compatible whichever came first. Hence `OnItsClaim`
  and `EvidenceIsBound`. `Independent` needs `DistinctBranches`, that no branch
  is that of two workstreams of one repository: two started workers in one directory would
  have packets of the same repository and branch, so one workstream, and two live claims
  never share one. The assumption is about Git (a branch is checked out in one worktree
  only) and not about the tools: with two workstreams on one branch and three renames TLC
  finds a directory that is renamed over one worktree, back, and over the other, with both
  preflights passed.

Model-checked only: the liveness properties (`JobsSettle`, `ExportEnds`, `DueIsServed`,
`InlineJobsEnd`, `CallsEnd`), because the proof system does not reason about fairness. Every
safety property of a passing run is a theorem, under the assumptions named above.

## Findings

`DownloadLeak`: a cancel request seen between the end of `write_stream_to_temp_file` and
the assignment of `download_path` (`app/main.py:982`), an error inside an open part
(`app/exporter.py:493`) or while zipping leaves a temporary file that no row names, and
`cleanup_jobs` never removes it, although `app/main.py:631` promises that exports "do not
accumulate forever on the server".

Other divergences that the models contain, each visible when an assumption of a run is
lifted or the property is stated without its exception:

1. `_reap_detached_worker` (`app/main.py:564`) acts on a job id, not on an attempt, and
   interrupts a job that was resumed meanwhile (`ExportJobs` with `ResumeAfterExit` off
   and `InterruptedMeansStopped`).
2. `persist_job` (`app/main.py:398`) reads and saves in two transactions; an annotation
   in between is lost. `annotate_job_metadata` does the same, and the copy it saves may take
   a job that has started back to pending (`RemoteSftp` with a scheduled job and
   `ImplementsContract`) until its worker writes again. Saved after the reaper has
   recorded a dead worker's job as interrupted, it leaves that job active for ever (`Settle`
   with `Scheduled = {j1}` and `ResumeAfterExit` off: `WorkerCrash`, `AnnotateRead`,
   `ReaperRead`, `ReaperRecover`, `AnnotateSave`).
3. A worker that outlives a restart of the API and dies later leaves its job active for
   ever (`app/main.py:196`; `Settle` with `JobsSettle` stated without `Forsaken`). A schedule
   whose run waits for such a job is passed over from then on (`app/main.py:1258`, `1424`).
4. A compressed part never equals its checkpoint (`app/exporter.py:399`), so a resume of
   a compressed split export always fails (`PlainParts` with `Compress`).
5. A run lost with the API process leaves `last_success_end` behind its own completed
   export, which blocks every later run (`app/main.py:1369`).
6. `resume_export_job` (`app/main.py:1834`) does not look for overlaps, and `find_overlaps`
   passes over failed jobs without checkpoints.
7. A busy token endpoint ends a call at its first attempt (`app/stellar.py:201`), though
   the README has transient statuses retried.
8. The docstring of `plan` (`tools/coordinator.py:706`) says that missing facts cannot open
   a gate. A section that is left out is read as its default (no ambiguous mutation, no
   failure, no worker), so leaving one of those out may open a gate that the full facts
   keep shut; `UnknownOpensNoGate` claims it for Git, the publication, CI and the review.
9. An older observation of another intent revision or subject closes the watch as stale
   before its age is looked at (`CLOSE_WATCH`); `OldNewsChangesNothing` therefore speaks of
   the same identity.
10. `evaluate_release` allows the cleanup of an ended claim's worktree while a later live
    claim works in it.
11. A host run that finds a receipt finalizes the dispatch of its own request
    (`tools/coordinator_watch_host.py:881`) and not the one the journal names. When one run
    reserved a dispatch and died, a second sent under another and died, and a third recovers
    with the first, the effect is recorded as applied while the dispatch it was sent under
    stays reserved, although line 849 promises "Reserve the dispatch, send once, then
    finalize". `AppliedIsFinal` therefore asks for some dispatch consumed by that attempt.
12. `parse_claim` reads a claim that says nothing of `dirty` and `unpushed` as a clean one
    (`tools/work_admission.py:209`), so a cleanup is allowed on missing facts, although the
    docstring (line 17) promises that they block. `WorkSessions` has such claims, and claims
    that were reconciled before the last change, so no property says that a cleanup loses
    nothing: the verdict looks at the claim alone.
13. `canonicalize_worktree` keeps two leading slashes (`posixpath.normpath`,
    `tools/work_admission.py:143`), so claims on `//wt/one` and `/wt/one` do not conflict.
    `ws2` of `WorkSessions` is spelled so; that two workers are not in one directory rests on
    the preflight.
14. `packet-project` compares only the keys it is given an expectation for
    (`tools/context_epoch.py:393`): without the binding of `packet-identity` a packet that was
    edited after its selection passes. `WorksOnItsClaim` therefore claims what was compared.

## Plan

Done: all modules above, and the proofs of `ExportJobs`, `Schedules`, `SliceEngine`,
`Checkpoints`, `Downloads`, `StellarClient`, `WatchLoop`, `WatchHost` and `WorkSessions`.
Next: the bookkeeping of S3 multipart uploads, for which `ExportJobs` has one step, and how
far a scheduled job is from its contract after an annotation has taken its record back,
until its worker writes again.

## Not modelled

Query compilation beyond time bounds and indices, record formatting, credentials and their
encryption, the remaining checkers under `tools/` and the shell scripts: pure functions or
I/O without state to interleave. The CSV columns that records after the first hundred would
add, and times without a zone, are conversions of single values. The web page:
single-threaded callbacks around one request at a time. `app.worker_daemon` is not in the
repository. The sizing advice of `work_admission.py`, the sanitizing of hook events and the
walk of preflight through submodules decide nothing the properties speak of. Preflight reads
branch, HEAD, index flags and status by separate Git calls, which `Preflight` keeps apart,
but the code promises nothing about a commit between two of them.
