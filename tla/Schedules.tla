------------------------------- MODULE Schedules ------------------------------
(***************************************************************************)
(* Scheduled exports (app/main.py, app/schedule_store.py): saved exports   *)
(* that the schedule loop, or Run now, starts again and again.  Each run   *)
(* resumes the schedule's last job if that can be resumed, and otherwise   *)
(* exports from the end of the last successful window up to now, unless    *)
(* JobStore.find_overlaps finds a matching export in the way.              *)
(*                                                                         *)
(* The jobs themselves obey JobContract, which ExportJobs implements.      *)
(* A run is a task of the API process: it gives up the event loop only     *)
(* while it waits for its job, and is lost with the process, while the     *)
(* detached job goes on.                                                   *)
(***************************************************************************)
EXTENDS Integers, FiniteSets

CONSTANTS
  Schedules,    \* schedule ids
  User,         \* the owner of an interactive export
  Keys,         \* overlap fingerprints
  Key,          \* that of each schedule's saved export
  UserExports,  \* the exports users start themselves
  Jobs, NoJob,  \* job ids
  NumParts,     \* parts of an export
  Intervals,    \* interval_minutes a schedule may have
  Windows,      \* window_minutes a schedule may have
  MaxTime,      \* bound on the clock
  MaxRestarts,  \* bound on restarts of the API process
  HandResumes   \* the jobs users may resume, each once (bound)

ASSUME SchedulesAssumption ==
  /\ User \notin Schedules /\ NoJob \notin Jobs
  /\ Intervals \subseteq Nat \ {0} /\ Windows \subseteq Nat \ {0}
  /\ MaxTime \in Nat /\ MaxRestarts \in Nat
  /\ NumParts \in Nat
  /\ HandResumes \subseteq Jobs
  /\ Key \in [Schedules -> Keys]
  /\ UserExports \subseteq [owner : {User}, key : Keys, policy : {"reject", "allow"},
                            start : Int, end : Nat]

VARIABLES
  clock,
  sched,     \* the export_schedules table
  task,      \* ACTIVE_SCHEDULE_RUNS: "idle", "begin", or "wait" for a job
  status, parts,   \* of the export_jobs table, see JobContract
  export,    \* metadata of each job: schedule_id, fingerprint, policy, start, end
  byHand,    \* jobs a user has resumed (history)
  restarts

vars == <<clock, sched, task, status, parts, export, byHand, restarts>>
jobVars == <<status, parts, export, byHand>>

Job == INSTANCE JobContract WITH Split <- TRUE

Never == 0   \* last_success_end of a schedule that has not succeeded yet

Unsaved == [state |-> "unsaved", due |-> 0, lastEnd |-> Never, lastJob |-> NoJob]
Idle == [pc |-> "idle", job |-> NoJob]
NoExport == [owner |-> User, key |-> NoJob, policy |-> "reject", start |-> 0, end |-> 0]

Saved(s) == sched[s].state \in {"on", "off"}

Owned(s, j) == status[j] # "absent" /\ export[j].owner = s

Overlap(e, f) == e.start < f.end /\ f.start < e.end

\* Mutant: jobs that are still running are not in the way.
ConflictsFinishedOnly(e) ==
  {j \in Jobs :
     /\ status[j] \notin {"absent"} \cup Job!Active
     /\ status[j] \in Job!Resumable => parts[j] > 0
     /\ export[j].key = e.key
     /\ Overlap(export[j], e)}

\* find_overlaps: matching jobs, except those that ended without a checkpoint.
Conflicts(e) ==
  {j \in Jobs :
     /\ status[j] # "absent"
     /\ status[j] \in Job!Resumable => parts[j] > 0
     /\ export[j].key = e.key
     /\ Overlap(export[j], e)}

\* A job id that is not in use; all are in use when the bound on jobs is reached.
NewJob ==
  IF \E j \in Jobs : status[j] = "absent"
  THEN CHOOSE j \in Jobs : status[j] = "absent"
  ELSE NoJob

\* create_export_job, once the overlap check has passed.
Submit(e) ==
  /\ NewJob \in Jobs
  /\ Job!Submit(NewJob)
  /\ export' = [export EXCEPT ![NewJob] = e]

Init ==
  /\ clock = 1
  /\ sched = [s \in Schedules |-> Unsaved]
  /\ task = [s \in Schedules |-> Idle]
  /\ Job!Init
  /\ export = [j \in Jobs |-> NoExport]
  /\ byHand = {}
  /\ restarts = 0

(***************************************************************************)
(* Requests about schedules                                                *)
(***************************************************************************)
CreateSchedule(s) ==
  /\ sched[s].state = "unsaved"
  /\ \E enabled \in {"on", "off"}, interval \in Intervals :
       sched' = [sched EXCEPT ![s] =
                   [@ EXCEPT !.state = enabled, !.due = clock + interval]]
  /\ UNCHANGED <<clock, task, jobVars, restarts>>

\* Enabling, or giving an interval, sets the next run; pausing alone keeps it.
UpdateSchedule(s) ==
  /\ Saved(s)
  /\ \/ \E enabled \in {"on", "off"}, interval \in Intervals :
          sched' = [sched EXCEPT ![s] =
                      [@ EXCEPT !.state = enabled, !.due = clock + interval]]
     \/ sched' = [sched EXCEPT ![s] = [@ EXCEPT !.state = "off"]]
  /\ UNCHANGED <<clock, task, jobVars, restarts>>

DeleteSchedule(s) ==
  /\ Saved(s) /\ task[s] = Idle
  /\ sched' = [sched EXCEPT ![s] = [@ EXCEPT !.state = "deleted"]]
  /\ UNCHANGED <<clock, task, jobVars, restarts>>

\* reserve_next_run comes before start_schedule_run refuses a second run.
RunNow(s) ==
  /\ Saved(s)
  /\ \E interval \in Intervals :
       sched' = [sched EXCEPT ![s] = [@ EXCEPT !.due = clock + interval]]
  /\ task' = [task EXCEPT ![s] = IF @ = Idle THEN [@ EXCEPT !.pc = "begin"] ELSE @]
  /\ UNCHANGED <<clock, jobVars, restarts>>

\* Mutant: the next run is counted from the last one due, not reserved.
StartDueUnreserved(s) ==
  /\ sched[s].state = "on" /\ sched[s].due <= clock
  /\ task[s] = Idle
  /\ task' = [task EXCEPT ![s] = [@ EXCEPT !.pc = "begin"]]
  /\ UNCHANGED <<clock, sched, jobVars, restarts>>

\* run_due_schedules_once, for one of the schedules that are due.
StartDue(s) ==
  /\ sched[s].state = "on" /\ sched[s].due <= clock
  /\ task[s] = Idle
  /\ \E interval \in Intervals :
       sched' = [sched EXCEPT ![s] = [@ EXCEPT !.due = clock + interval]]
  /\ task' = [task EXCEPT ![s] = [@ EXCEPT !.pc = "begin"]]
  /\ UNCHANGED <<clock, jobVars, restarts>>

(***************************************************************************)
(* execute_schedule                                                        *)
(***************************************************************************)
Begun(s) == Saved(s) /\ task[s].pc = "begin"

LastJobResumable(s) ==
  sched[s].lastJob # NoJob /\ status[sched[s].lastJob] \in Job!Resumable

\* record_result, after which the task ends.
Record(s, j) ==
  /\ sched' = [sched EXCEPT ![s] = [@ EXCEPT !.lastJob = j]]
  /\ task' = [task EXCEPT ![s] = Idle]

WaitFor(s, j) == task' = [task EXCEPT ![s] = [pc |-> "wait", job |-> j]]

ResumeLast(s) ==
  /\ Begun(s) /\ LastJobResumable(s)
  /\ Job!Resume(sched[s].lastJob)
  /\ WaitFor(s, sched[s].lastJob)
  /\ UNCHANGED <<clock, sched, export, byHand, restarts>>

\* The resume is refused, or its worker can not be started (503).
ResumeFails(s) ==
  /\ Begun(s) /\ LastJobResumable(s)
  /\ \/ UNCHANGED status
     \/ status' = [status EXCEPT ![sched[s].lastJob] = "failed"]
  /\ Record(s, sched[s].lastJob)
  /\ UNCHANGED <<clock, parts, export, byHand, restarts>>

\* The export of a new run: from the last success on, or else the last window_minutes.
NewWindow(s) ==
  {[owner |-> s, key |-> Key[s], policy |-> "reject",
    start |-> IF sched[s].lastEnd # Never THEN sched[s].lastEnd ELSE clock - window,
    end |-> clock] : window \in Windows}

NoNewWindow(s) ==
  /\ Begun(s) /\ ~LastJobResumable(s)
  /\ sched[s].lastEnd # Never /\ sched[s].lastEnd >= clock
  /\ task' = [task EXCEPT ![s] = Idle]
  /\ UNCHANGED <<clock, sched, jobVars, restarts>>

\* create_export_job is called.
Creates(s) ==
  /\ Begun(s) /\ ~LastJobResumable(s)
  /\ sched[s].lastEnd # Never => sched[s].lastEnd < clock

\* The 409 of create_export_job.
Blocked(s) ==
  /\ Creates(s)
  /\ \E e \in NewWindow(s) : Conflicts(e) # {}
  /\ Record(s, NoJob)
  /\ UNCHANGED <<clock, jobVars, restarts>>

CreateRun(s) ==
  /\ Creates(s)
  /\ \E e \in NewWindow(s) : Conflicts(e) = {} /\ Submit(e)
  /\ WaitFor(s, NewJob)
  /\ UNCHANGED <<clock, sched, byHand, restarts>>

\* No worker could be started for the new job, or it could not be saved.
CreateFails(s) ==
  /\ Creates(s)
  /\ Record(s, NoJob)
  /\ \/ \E e \in NewWindow(s) :
          /\ NewJob \in Jobs /\ Conflicts(e) = {}
          /\ status' = [status EXCEPT ![NewJob] = "failed"]
          /\ export' = [export EXCEPT ![NewJob] = e]
     \/ UNCHANGED <<status, export>>
  /\ UNCHANGED <<clock, parts, byHand, restarts>>

\* Mutant: a run counts as a success whatever became of its job.
CollectAsSuccess(s) ==
  LET j == task[s].job IN
  /\ task[s].pc = "wait" /\ status[j] \notin Job!Active
  /\ sched' = [sched EXCEPT ![s] =
                 [@ EXCEPT !.lastJob = j, !.lastEnd = export[j].end]]
  /\ task' = [task EXCEPT ![s] = Idle]
  /\ UNCHANGED <<clock, jobVars, restarts>>

\* Mutant: the start of the window is recorded.
CollectStart(s) ==
  LET j == task[s].job IN
  /\ task[s].pc = "wait" /\ status[j] \notin Job!Active
  /\ sched' = [sched EXCEPT ![s] =
                 [@ EXCEPT !.lastJob = j,
                           !.lastEnd = IF status[j] = "completed" THEN export[j].start
                                        ELSE sched[s].lastEnd]]
  /\ task' = [task EXCEPT ![s] = Idle]
  /\ UNCHANGED <<clock, jobVars, restarts>>

\* wait_for_export_terminal sees the end of the job; record_result.
Collect(s) ==
  LET j == task[s].job IN
  /\ task[s].pc = "wait" /\ status[j] \notin Job!Active
  /\ sched' = [sched EXCEPT ![s] =
                 [@ EXCEPT !.lastJob = j,
                           !.lastEnd = IF status[j] = "completed" THEN export[j].end
                                        ELSE sched[s].lastEnd]]
  /\ task' = [task EXCEPT ![s] = Idle]
  /\ UNCHANGED <<clock, jobVars, restarts>>

RunStep(s) ==
  \/ ResumeLast(s) \/ ResumeFails(s) \/ NoNewWindow(s)
  \/ Blocked(s) \/ CreateRun(s) \/ CreateFails(s)
  \/ Collect(s)

(***************************************************************************)
(* Users, workers and the API process                                      *)
(***************************************************************************)
UserExport ==
  /\ \E e \in UserExports :
       /\ e.policy = "reject" => Conflicts(e) = {}
       /\ Submit(e)
  /\ UNCHANGED <<clock, sched, task, byHand, restarts>>

UserResume(j) ==
  /\ j \in HandResumes \ byHand
  /\ Job!Resume(j)
  /\ byHand' = byHand \cup {j}
  /\ UNCHANGED <<clock, sched, task, export, restarts>>

\* A worker, its reaper, start-up recovery or a cancellation moves a job on.
JobStep(j) ==
  /\ Job!Start(j) \/ Job!Checkpoint(j) \/ Job!Complete(j) \/ Job!GiveUp(j)
  /\ UNCHANGED <<clock, sched, task, export, byHand, restarts>>

\* The tasks go with the process; what detached workers do goes on.
ApiRestart ==
  /\ restarts < MaxRestarts
  /\ restarts' = restarts + 1
  /\ task' = [s \in Schedules |-> Idle]
  /\ UNCHANGED <<clock, sched, jobVars>>

Tick ==
  /\ clock < MaxTime
  /\ clock' = clock + 1
  /\ UNCHANGED <<sched, task, jobVars, restarts>>

Next ==
  \/ \E s \in Schedules :
       \/ CreateSchedule(s) \/ UpdateSchedule(s) \/ DeleteSchedule(s)
       \/ RunNow(s) \/ StartDue(s) \/ RunStep(s)
  \/ UserExport
  \/ \E j \in Jobs : UserResume(j) \/ JobStep(j)
  \/ ApiRestart \/ Tick

Spec == Init /\ [][Next]_vars

\* The loop polls and tasks are run.  Nothing is assumed of the jobs: one whose end
\* nobody notices stays active for ever (ExportJobs!Forsaken, and a late annotation).
FairSpec ==
  Spec /\ \A s \in Schedules : WF_vars(StartDue(s)) /\ WF_vars(RunStep(s))

-----------------------------------------------------------------------------
TypeOK ==
  /\ clock \in Nat /\ restarts \in 0..MaxRestarts
  /\ sched \in [Schedules -> [state : {"unsaved", "on", "off", "deleted"}, due : Nat,
                              lastEnd : Nat, lastJob : Jobs \cup {NoJob}]]
  /\ task \in [Schedules -> [pc : {"idle", "begin"}, job : {NoJob}] \cup [pc : {"wait"}, job : Jobs]]
  /\ status \in [Jobs -> {"absent", "completed"} \cup Job!Active \cup Job!Resumable]
  /\ parts \in [Jobs -> 0..NumParts]
  /\ export \in [Jobs -> [owner : Schedules \cup {User}, key : Keys \cup {NoJob},
                          policy : {"reject", "allow"}, start : Int, end : Nat]]
  /\ byHand \subseteq HandResumes

\* A schedule's record of success only grows by whole windows that were exported: it
\* moves from one instant to another only over a completed run that began at the one
\* and ended at the other, whatever was resumed, lost, blocked or exported by hand.
AdvancesAreContiguous ==
  [][\A s \in Schedules :
       sched'[s].lastEnd # sched[s].lastEnd =>
         \E j \in Jobs :
           /\ Owned(s, j) /\ status[j] = "completed"
           /\ export[j].end = sched'[s].lastEnd
           /\ sched[s].lastEnd \in {Never, export[j].start}]_vars

\* No record is exported twice by a schedule: the windows of its completed runs do not
\* overlap, with restarts of the API process, resumes and exports by hand in between,
\* as long as no user resumes one of them.
OwnWindowsDisjoint ==
  \A s \in Schedules, j, k \in Jobs \ byHand :
    /\ Owned(s, j) /\ Owned(s, k) /\ j # k
    /\ status[j] = "completed" /\ status[k] = "completed"
    => ~Overlap(export[j], export[k])

Due(s) == sched[s].state = "on" /\ sched[s].due <= clock

\* wait_for_export_terminal polls a job that has not ended; while it does,
\* run_due_schedules_once passes the schedule over.
HeldUp(s) == task[s].pc = "wait" /\ status[task[s].job] \in Job!Active

\* A schedule that is due is started, moved or paused, however long a run takes, unless
\* its run waits from some point on for a job that never ends: there is no time limit
\* on the wait, and only the job itself (or a restart of the API) ends it.
DueIsServed == \A s \in Schedules : (Due(s) ~> ~Due(s)) \/ <>[]HeldUp(s)

===============================================================================
