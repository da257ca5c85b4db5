---------------------------- MODULE SchedulesProofs ---------------------------
(***************************************************************************)
(* What a schedule records and exports, for any number of schedules and    *)
(* jobs, any times and however often the API process is restarted.         *)
(***************************************************************************)
EXTENDS Schedules, TLAPS

Rows == [state : {"unsaved", "on", "off", "deleted"}, due : Nat,
         lastEnd : Nat, lastJob : Jobs \cup {NoJob}]
Tasks == [pc : {"idle", "begin"}, job : {NoJob}] \cup [pc : {"wait"}, job : Jobs]
Exports == [owner : Schedules \cup {User}, key : Keys \cup {NoJob},
            policy : {"reject", "allow"}, start : Int, end : Nat]
Statuses == {"absent", "completed"} \cup Job!Active \cup Job!Resumable

-----------------------------------------------------------------------------
(***************************************************************************)
(* Types                                                                   *)
(***************************************************************************)
LEMMA TypeInit == Init => TypeOK
<1> SUFFICES ASSUME Init PROVE TypeOK
  OBVIOUS
<1>1. Unsaved \in Rows
  BY DEF Unsaved, Rows, Never
<1>2. Idle \in Tasks
  BY DEF Idle, Tasks
<1>3. NoExport \in Exports
  BY DEF NoExport, Exports
<1>4. status \in [Jobs -> Statuses] /\ parts \in [Jobs -> 0..NumParts]
  BY SchedulesAssumption DEF Init, Job!Init, Statuses
<1>5. QED
  BY <1>1, <1>2, <1>3, <1>4, SchedulesAssumption
     DEF Init, TypeOK, Rows, Tasks, Exports, Statuses

\* A new run's export is well formed.
LEMMA WindowType ==
  ASSUME TypeOK, NEW s \in Schedules, NEW e \in NewWindow(s)
  PROVE  e \in Exports /\ e.owner = s /\ e.key = Key[s]
                       /\ sched[s].lastEnd \in {Never, e.start}
<1>1. PICK window \in Windows :
        e = [owner |-> s, key |-> Key[s], policy |-> "reject",
             start |-> IF sched[s].lastEnd # Never THEN sched[s].lastEnd ELSE clock - window,
             end |-> clock]
  BY DEF NewWindow
<1>2. sched[s].lastEnd \in Nat /\ clock \in Nat /\ window \in Nat /\ Key[s] \in Keys
  BY SchedulesAssumption DEF TypeOK
<1>3. e.start \in Int
  BY <1>1, <1>2
<1>4. QED
  BY <1>1, <1>2, <1>3 DEF Exports, Never

\* Row updates keep the table's type.
LEMMA RowUpdate ==
  ASSUME TypeOK, NEW s \in Schedules, NEW row \in Rows,
         sched' = [sched EXCEPT ![s] = row]
  PROVE  sched' \in [Schedules -> Rows]
BY DEF TypeOK, Rows

LEMMA RowTypes ==
  ASSUME TypeOK, NEW s \in Schedules
  PROVE  /\ \A st \in {"on", "off", "deleted"} : [sched[s] EXCEPT !.state = st] \in Rows
         /\ \A due \in Nat : [sched[s] EXCEPT !.due = due] \in Rows
         /\ \A st \in {"on", "off"}, due \in Nat :
              [sched[s] EXCEPT !.state = st, !.due = due] \in Rows
         /\ \A j \in Jobs \cup {NoJob} : [sched[s] EXCEPT !.lastJob = j] \in Rows
         /\ \A j \in Jobs \cup {NoJob}, n \in Nat :
              [sched[s] EXCEPT !.lastJob = j, !.lastEnd = n] \in Rows
         /\ \A interval \in Intervals : clock + interval \in Nat
<1>1. sched[s] \in Rows
  BY DEF TypeOK, Rows
<1>2. \A interval \in Intervals : clock + interval \in Nat
  BY SchedulesAssumption DEF TypeOK
<1>3. \A r \in Rows :
        /\ \A st \in {"on", "off", "deleted"} : [r EXCEPT !.state = st] \in Rows
        /\ \A due \in Nat : [r EXCEPT !.due = due] \in Rows
  BY DEF Rows
<1>4. \A r \in Rows : \A st \in {"on", "off"}, due \in Nat :
        [r EXCEPT !.state = st, !.due = due] \in Rows
  BY DEF Rows
<1>5. \A r \in Rows : \A j \in Jobs \cup {NoJob} :
        /\ [r EXCEPT !.lastJob = j] \in Rows
        /\ \A n \in Nat : [r EXCEPT !.lastJob = j, !.lastEnd = n] \in Rows
  BY DEF Rows
<1>6. QED
  BY <1>1, <1>2, <1>3, <1>4, <1>5

\* The job actions of the contract keep statuses and part counts in range.
LEMMA JobTypes ==
  ASSUME TypeOK, NEW j \in Jobs
  PROVE  /\ Job!Start(j) \/ Job!Complete(j) \/ Job!GiveUp(j) \/ Job!Checkpoint(j)
              \/ Job!Resume(j) \/ Job!Submit(j)
              => status' \in [Jobs -> Statuses] /\ parts' \in [Jobs -> 0..NumParts]
         /\ status' = [status EXCEPT ![j] = "failed"] => status' \in [Jobs -> Statuses]
<1>1. status \in [Jobs -> Statuses] /\ parts \in [Jobs -> 0..NumParts]
  BY DEF TypeOK, Statuses
<1>2. {"absent", "pending", "running", "completed", "failed", "cancelled", "interrupted"}
        \subseteq Statuses
  BY DEF Statuses, Job!Active, Job!Resumable
<1>3. ASSUME NEW to \in Statuses, status' = [status EXCEPT ![j] = to]
      PROVE  status' \in [Jobs -> Statuses]
  BY <1>1, <1>3
<1>4. ASSUME Job!Checkpoint(j) PROVE parts' \in [Jobs -> 0..NumParts]
  <2>1. NumParts \in Nat /\ parts[j] \in 0..NumParts /\ parts[j] < NumParts
    BY <1>1, <1>4, SchedulesAssumption DEF Job!Checkpoint
  <2>2. parts[j] + 1 \in 0..NumParts
    BY <2>1
  <2>3. QED
    BY <1>1, <1>4, <2>2 DEF Job!Checkpoint
<1>5. QED
  BY <1>1, <1>2, <1>3, <1>4
     DEF Job!Start, Job!Complete, Job!GiveUp, Job!Checkpoint, Job!Resume, Job!Submit, Job!Move

LEMMA TypeStep == TypeOK /\ [Next]_vars => TypeOK'
<1> SUFFICES ASSUME TypeOK, [Next]_vars PROVE TypeOK'
  OBVIOUS
<1> DEFINE TableOK == sched' \in [Schedules -> Rows] /\ task' \in [Schedules -> Tasks]
           JobsOK == /\ status' \in [Jobs -> Statuses] /\ parts' \in [Jobs -> 0..NumParts]
                     /\ export' \in [Jobs -> Exports] /\ byHand' \subseteq HandResumes
           ClockOK == clock' \in Nat /\ restarts' \in 0..MaxRestarts
<1>a. /\ sched \in [Schedules -> Rows] /\ task \in [Schedules -> Tasks]
      /\ status \in [Jobs -> Statuses] /\ parts \in [Jobs -> 0..NumParts]
      /\ export \in [Jobs -> Exports] /\ byHand \subseteq HandResumes
      /\ clock \in Nat /\ restarts \in 0..MaxRestarts
  BY DEF TypeOK, Rows, Tasks, Statuses, Exports
<1>b. SUFFICES TableOK /\ JobsOK /\ ClockOK
  BY DEF TypeOK, Rows, Tasks, Statuses, Exports
<1>c. UNCHANGED jobVars => JobsOK
  BY <1>a DEF jobVars
<1>d. ASSUME NEW s \in Schedules, NEW j \in Jobs, WaitFor(s, j)
      PROVE  task' \in [Schedules -> Tasks]
  BY <1>a, <1>d DEF WaitFor, Tasks
<1>e. ASSUME NEW s \in Schedules, task' = [task EXCEPT ![s] = Idle]
      PROVE  task' \in [Schedules -> Tasks]
  BY <1>a, <1>e DEF Idle, Tasks
<1>f. ASSUME NEW s \in Schedules, NEW j \in Jobs \cup {NoJob}, Record(s, j)
      PROVE  TableOK
  BY <1>e, <1>f, RowTypes, RowUpdate DEF Record
<1>g. ASSUME NEW e \in Exports, Submit(e) PROVE
        /\ status' \in [Jobs -> Statuses] /\ parts' \in [Jobs -> 0..NumParts]
        /\ export' \in [Jobs -> Exports]
  BY <1>a, <1>g, JobTypes DEF Submit
<1>1. ASSUME NEW s \in Schedules, CreateSchedule(s) PROVE TableOK /\ JobsOK /\ ClockOK
  BY <1>1, <1>a, <1>c, RowTypes, RowUpdate DEF CreateSchedule
<1>2. ASSUME NEW s \in Schedules, UpdateSchedule(s) PROVE TableOK /\ JobsOK /\ ClockOK
  BY <1>2, <1>a, <1>c, RowTypes, RowUpdate DEF UpdateSchedule
<1>3. ASSUME NEW s \in Schedules, DeleteSchedule(s) PROVE TableOK /\ JobsOK /\ ClockOK
  BY <1>3, <1>a, <1>c, RowTypes, RowUpdate DEF DeleteSchedule
<1>4. ASSUME NEW s \in Schedules, RunNow(s) PROVE TableOK /\ JobsOK /\ ClockOK
  <2>1. sched' \in [Schedules -> Rows]
    BY <1>4, RowTypes, RowUpdate DEF RunNow
  <2>2. task' \in [Schedules -> Tasks]
    BY <1>4, <1>a DEF RunNow, Tasks, Idle
  <2>3. QED
    BY <1>4, <1>a, <1>c, <2>1, <2>2 DEF RunNow
<1>5. ASSUME NEW s \in Schedules, StartDue(s) PROVE TableOK /\ JobsOK /\ ClockOK
  <2>1. sched' \in [Schedules -> Rows]
    BY <1>5, RowTypes, RowUpdate DEF StartDue
  <2>2. task' \in [Schedules -> Tasks]
    BY <1>5, <1>a DEF StartDue, Tasks, Idle
  <2>3. QED
    BY <1>5, <1>a, <1>c, <2>1, <2>2 DEF StartDue
<1>6. ASSUME NEW s \in Schedules, ResumeLast(s) PROVE TableOK /\ JobsOK /\ ClockOK
  <2>1. sched[s].lastJob \in Jobs
    BY <1>6, <1>a DEF ResumeLast, LastJobResumable, Rows
  <2>2. task' \in [Schedules -> Tasks]
    BY <1>6, <1>d, <2>1 DEF ResumeLast
  <2>3. QED
    BY <1>6, <1>a, <2>1, <2>2, JobTypes DEF ResumeLast
<1>7. ASSUME NEW s \in Schedules, ResumeFails(s) PROVE TableOK /\ JobsOK /\ ClockOK
  <2>1. sched[s].lastJob \in Jobs
    BY <1>7, <1>a DEF ResumeFails, LastJobResumable, Rows
  <2>2. QED
    BY <1>7, <1>a, <1>f, <2>1, JobTypes DEF ResumeFails
<1>8. ASSUME NEW s \in Schedules, NoNewWindow(s) PROVE TableOK /\ JobsOK /\ ClockOK
  BY <1>8, <1>a, <1>c, <1>e DEF NoNewWindow
<1>9. ASSUME NEW s \in Schedules, Blocked(s) PROVE TableOK /\ JobsOK /\ ClockOK
  BY <1>9, <1>a, <1>c, <1>f DEF Blocked
<1>10. ASSUME NEW s \in Schedules, CreateRun(s) PROVE TableOK /\ JobsOK /\ ClockOK
  <2>1. PICK e \in NewWindow(s) : Submit(e)
    BY <1>10 DEF CreateRun
  <2>2. e \in Exports
    BY WindowType
  <2>3. task' \in [Schedules -> Tasks]
    BY <1>10, <1>d, <2>1 DEF CreateRun, Submit
  <2>4. QED
    BY <1>10, <1>a, <1>g, <2>1, <2>2, <2>3 DEF CreateRun
<1>11. ASSUME NEW s \in Schedules, CreateFails(s) PROVE TableOK /\ JobsOK /\ ClockOK
  <2>1. status' \in [Jobs -> Statuses] /\ export' \in [Jobs -> Exports]
    BY <1>11, <1>a, WindowType, JobTypes DEF CreateFails
  <2>2. QED
    BY <1>11, <1>a, <1>f, <2>1 DEF CreateFails
<1>12. ASSUME NEW s \in Schedules, Collect(s) PROVE TableOK /\ JobsOK /\ ClockOK
  <2> DEFINE j == task[s].job
             n == IF status[j] = "completed" THEN export[j].end ELSE sched[s].lastEnd
  <2>1. task[s] \in Tasks /\ sched[s] \in Rows
    BY <1>a
  <2>2. j \in Jobs
    BY <1>12, <2>1 DEF Collect, Tasks
  <2>3. export[j] \in Exports
    BY <1>a, <2>2
  <2>4. n \in Nat
    BY <2>1, <2>3 DEF Rows, Exports
  <2>5. sched' = [sched EXCEPT ![s] = [sched[s] EXCEPT !.lastJob = j, !.lastEnd = n]]
    BY <1>12, <1>a DEF Collect
  <2>6. QED
    BY <1>12, <1>a, <1>c, <1>e, <2>2, <2>4, <2>5, RowTypes, RowUpdate DEF Collect
<1>13. ASSUME UserExport PROVE TableOK /\ JobsOK /\ ClockOK
  <2>1. PICK e \in UserExports : Submit(e)
    BY <1>13 DEF UserExport
  <2>2. e \in Exports
    BY SchedulesAssumption DEF Exports
  <2>3. QED
    BY <1>13, <1>a, <1>g, <2>1, <2>2 DEF UserExport
<1>14. ASSUME NEW j \in Jobs, UserResume(j) PROVE TableOK /\ JobsOK /\ ClockOK
  BY <1>14, <1>a, JobTypes DEF UserResume
<1>15. ASSUME NEW j \in Jobs, JobStep(j) PROVE TableOK /\ JobsOK /\ ClockOK
  BY <1>15, <1>a, JobTypes DEF JobStep
<1>16. ASSUME ApiRestart PROVE TableOK /\ JobsOK /\ ClockOK
  <2>1. Idle \in Tasks
    BY DEF Idle, Tasks
  <2>2. restarts' \in 0..MaxRestarts
    BY <1>16, <1>a, SchedulesAssumption DEF ApiRestart
  <2>3. QED
    BY <1>16, <1>a, <1>c, <2>1, <2>2 DEF ApiRestart
<1>17. ASSUME Tick PROVE TableOK /\ JobsOK /\ ClockOK
  BY <1>17, <1>a, <1>c DEF Tick
<1>18. ASSUME UNCHANGED vars PROVE TableOK /\ JobsOK /\ ClockOK
  BY <1>18, <1>a, <1>c DEF vars, jobVars
<1>19. QED
  BY <1>1, <1>2, <1>3, <1>4, <1>5, <1>6, <1>7, <1>8, <1>9, <1>10, <1>11, <1>12, <1>13,
     <1>14, <1>15, <1>16, <1>17, <1>18 DEF Next, RunStep

\* The tables of schedules, tasks and jobs hold only what their columns can hold,
\* whatever handlers, runs, workers and restarts do: what the code reads back as times,
\* states and job ids are such.
THEOREM ScheduleTypes == Spec => []TypeOK
BY TypeInit, TypeStep, PTL DEF Spec

-----------------------------------------------------------------------------
(***************************************************************************)
(* What a schedule is waiting for, and what it did last, begins where its  *)
(* last success ended                                                      *)
(***************************************************************************)
Follows(s, j) == Owned(s, j) /\ sched[s].lastEnd \in {Never, export[j].start}

CursorInv ==
  \A s \in Schedules :
    /\ task[s].pc = "wait" => Follows(s, task[s].job)
    /\ LET j == sched[s].lastJob IN
       j # NoJob => Owned(s, j) /\ (status[j] = "completed" \/ Follows(s, j))

\* Jobs keep their export, and a completed job stays completed.
JobKept(j) ==
  status[j] # "absent" =>
    /\ export'[j] = export[j] /\ status'[j] # "absent"
    /\ status[j] = "completed" => status'[j] = "completed"

LEMMA ContractKeeps ==
  ASSUME TypeOK, NEW i \in Jobs, UNCHANGED export,
         Job!Start(i) \/ Job!Complete(i) \/ Job!GiveUp(i) \/ Job!Checkpoint(i) \/ Job!Resume(i)
  PROVE  \A j \in Jobs : JobKept(j)
BY DEF TypeOK, JobKept, Job!Start, Job!Complete, Job!GiveUp, Job!Checkpoint, Job!Resume,
       Job!Move, Job!Active, Job!Resumable

LEMMA SubmitKeeps ==
  ASSUME TypeOK, NEW e, Submit(e)
  PROVE  \A j \in Jobs : JobKept(j)
BY DEF TypeOK, JobKept, Submit, Job!Submit, Job!Move

LEMMA JobsKept ==
  ASSUME TypeOK, [Next]_vars
  PROVE  \A j \in Jobs : JobKept(j)
<1>1. ASSUME UNCHANGED jobVars PROVE \A j \in Jobs : JobKept(j)
  BY <1>1 DEF jobVars, JobKept
<1>2. ASSUME NEW s \in Schedules,
             \/ CreateSchedule(s) \/ UpdateSchedule(s) \/ DeleteSchedule(s) \/ RunNow(s)
             \/ StartDue(s) \/ NoNewWindow(s) \/ Blocked(s) \/ Collect(s)
      PROVE  UNCHANGED jobVars
  BY <1>2 DEF CreateSchedule, UpdateSchedule, DeleteSchedule, RunNow, StartDue,
              NoNewWindow, Blocked, Collect
<1>3. ASSUME NEW s \in Schedules, ResumeLast(s) PROVE \A j \in Jobs : JobKept(j)
  <2>1. sched[s].lastJob \in Jobs
    BY <1>3 DEF TypeOK, ResumeLast, LastJobResumable
  <2>2. QED
    BY <1>3, <2>1, ContractKeeps DEF ResumeLast
<1>4. ASSUME NEW s \in Schedules, ResumeFails(s) PROVE \A j \in Jobs : JobKept(j)
  BY <1>4 DEF TypeOK, ResumeFails, LastJobResumable, JobKept, Job!Resumable
<1>5. ASSUME NEW s \in Schedules, CreateRun(s) PROVE \A j \in Jobs : JobKept(j)
  BY <1>5, SubmitKeeps DEF CreateRun
<1>6. ASSUME NEW s \in Schedules, CreateFails(s) PROVE \A j \in Jobs : JobKept(j)
  <2>1. NewJob \in Jobs => status[NewJob] = "absent"
    BY SchedulesAssumption DEF NewJob
  <2>2. QED
    BY <1>6, <2>1 DEF TypeOK, CreateFails, JobKept
<1>7. ASSUME UserExport PROVE \A j \in Jobs : JobKept(j)
  BY <1>7, SubmitKeeps DEF UserExport
<1>8. ASSUME NEW i \in Jobs, UserResume(i) \/ JobStep(i) PROVE \A j \in Jobs : JobKept(j)
  BY <1>8, ContractKeeps DEF UserResume, JobStep
<1>9. ASSUME ApiRestart \/ Tick \/ UNCHANGED vars PROVE UNCHANGED jobVars
  BY <1>9 DEF ApiRestart, Tick, vars, jobVars
<1>10. QED
  BY <1>1, <1>2, <1>3, <1>4, <1>5, <1>6, <1>7, <1>8, <1>9 DEF Next, RunStep

\* A schedule whose cursor a step leaves alone, or that only stops waiting, keeps its part.
LEMMA CursorKept ==
  ASSUME TypeOK, CursorInv, [Next]_vars, NEW s \in Schedules,
         sched'[s].lastEnd = sched[s].lastEnd,
         sched'[s].lastJob \in {sched[s].lastJob, NoJob},
         task'[s] = task[s] \/ task'[s].pc # "wait"
  PROVE  /\ (task[s].pc = "wait" => Follows(s, task[s].job))'
         /\ (sched[s].lastJob # NoJob =>
               /\ Owned(s, sched[s].lastJob)
               /\ status[sched[s].lastJob] = "completed" \/ Follows(s, sched[s].lastJob))'
<1>1. \A j \in Jobs : Owned(s, j) => Owned(s, j)'
  BY JobsKept DEF JobKept, Owned
<1>2. \A j \in Jobs : Follows(s, j) => Follows(s, j)'
  BY <1>1, JobsKept DEF JobKept, Owned, Follows
<1>3. \A j \in Jobs : Owned(s, j) /\ status[j] = "completed" => status'[j] = "completed"
  BY JobsKept DEF JobKept, Owned
<1>4. (task[s].pc = "wait" => task[s].job \in Jobs)
      /\ (sched[s].lastJob # NoJob => sched[s].lastJob \in Jobs)
  BY DEF TypeOK
<1>5. task'[s].pc = "wait" => Follows(s, task[s].job) /\ task'[s].job = task[s].job
  BY DEF CursorInv
<1>6. (task[s].pc = "wait" => Follows(s, task[s].job))'
  <2> SUFFICES ASSUME task'[s].pc = "wait" PROVE Follows(s, task[s].job)'
    OBVIOUS
  <2>1. PICK j \in Jobs : j = task[s].job
    BY <1>4
  <2>2. Follows(s, j)'
    BY <1>2, <1>5, <2>1
  <2>3. QED
    BY <1>5, <2>1, <2>2
<1>7. (sched[s].lastJob # NoJob =>
         /\ Owned(s, sched[s].lastJob)
         /\ status[sched[s].lastJob] = "completed" \/ Follows(s, sched[s].lastJob))'
  <2> SUFFICES ASSUME sched'[s].lastJob # NoJob
      PROVE (/\ Owned(s, sched[s].lastJob)
             /\ status[sched[s].lastJob] = "completed" \/ Follows(s, sched[s].lastJob))'
    OBVIOUS
  <2>1. PICK j \in Jobs : j = sched[s].lastJob
    BY <1>4
  <2>2. Owned(s, j) /\ (status[j] = "completed" \/ Follows(s, j))
    BY <2>1 DEF CursorInv
  <2>3. Owned(s, j)' /\ (status'[j] = "completed" \/ Follows(s, j)')
    BY <1>1, <1>2, <1>3, <2>2
  <2>4. sched'[s].lastJob = j
    BY <2>1
  <2>5. QED
    BY <2>3, <2>4
<1>8. QED
  BY <1>6, <1>7

LEMMA CursorInit == Init => CursorInv
BY DEF Init, CursorInv, Unsaved, Idle

\* The steps that make a schedule wait for a job or record one.
Claiming(s) == ResumeLast(s) \/ CreateRun(s) \/ Collect(s)

LEMMA CursorFrame ==
  ASSUME TypeOK, [Next]_vars, NEW s \in Schedules, ~Claiming(s)
  PROVE  /\ sched'[s].lastEnd = sched[s].lastEnd
         /\ sched'[s].lastJob \in {sched[s].lastJob, NoJob}
         /\ task'[s] = task[s] \/ task'[s].pc # "wait"
<1> DEFINE Kept == /\ sched'[s].lastEnd = sched[s].lastEnd
                   /\ sched'[s].lastJob \in {sched[s].lastJob, NoJob}
                   /\ task'[s] = task[s] \/ task'[s].pc # "wait"
<1>a. /\ sched \in [Schedules -> Rows] /\ task \in [Schedules -> Tasks]
      /\ sched[s] \in Rows
  BY DEF TypeOK, Rows, Tasks
<1>b. Idle.pc # "wait"
  BY DEF Idle
<1>c. UNCHANGED <<sched, task>> => Kept
  OBVIOUS
<1>d. ASSUME NEW i \in Schedules, NEW j, j \in {sched[i].lastJob, NoJob}, Record(i, j)
      PROVE  Kept
  <2>1. sched' = [sched EXCEPT ![i] = [sched[i] EXCEPT !.lastJob = j]]
    BY <1>d DEF Record
  <2>2. CASE i = s
    <3>1. sched'[s] = [sched[s] EXCEPT !.lastJob = j]
      BY <1>a, <2>1, <2>2
    <3>2. sched'[s].lastEnd = sched[s].lastEnd /\ sched'[s].lastJob = j
      BY <1>a, <3>1 DEF Rows
    <3>3. QED
      BY <1>a, <1>b, <1>d, <2>2, <3>2 DEF Record
  <2>3. CASE i # s
    BY <1>a, <1>d, <2>1, <2>3 DEF Record
  <2>4. QED
    BY <2>2, <2>3
<1>e. ASSUME NEW i \in Schedules,
             CreateSchedule(i) \/ UpdateSchedule(i) \/ DeleteSchedule(i)
      PROVE  Kept
  <2>1. UNCHANGED task
    BY <1>e DEF CreateSchedule, UpdateSchedule, DeleteSchedule
  <2>2. PICK st, due :
          \/ sched' = [sched EXCEPT ![i] = [sched[i] EXCEPT !.state = st, !.due = due]]
          \/ sched' = [sched EXCEPT ![i] = [sched[i] EXCEPT !.state = st]]
    BY <1>e DEF CreateSchedule, UpdateSchedule, DeleteSchedule
  <2>3. \A r \in Rows :
          /\ [r EXCEPT !.state = st].lastEnd = r.lastEnd
          /\ [r EXCEPT !.state = st].lastJob = r.lastJob
          /\ [r EXCEPT !.state = st, !.due = due].lastEnd = r.lastEnd
          /\ [r EXCEPT !.state = st, !.due = due].lastJob = r.lastJob
    BY DEF Rows
  <2>4. sched'[s] \in {sched[s], [sched[s] EXCEPT !.state = st],
                       [sched[s] EXCEPT !.state = st, !.due = due]}
    BY <1>a, <2>2
  <2>5. QED
    BY <1>a, <2>1, <2>3, <2>4
<1>f. ASSUME NEW i \in Schedules, RunNow(i) \/ StartDue(i) PROVE Kept
  <2>1. PICK due : sched' = [sched EXCEPT ![i] = [sched[i] EXCEPT !.due = due]]
    BY <1>f DEF RunNow, StartDue
  <2>2. sched'[s].lastEnd = sched[s].lastEnd /\ sched'[s].lastJob = sched[s].lastJob
    BY <1>a, <2>1 DEF Rows
  <2>3. task'[s] = task[s] \/ task'[s].pc # "wait"
    BY <1>f, <1>a DEF RunNow, StartDue, Tasks
  <2>4. QED
    BY <2>2, <2>3
<1>1. ASSUME NEW i \in Schedules, i # s, Claiming(i) PROVE Kept
  BY <1>1, <1>a DEF Claiming, ResumeLast, CreateRun, Collect, WaitFor
<1>2. ASSUME NEW i \in Schedules, ResumeFails(i) PROVE Kept
  BY <1>2, <1>d DEF ResumeFails
<1>3. ASSUME NEW i \in Schedules, Blocked(i) \/ CreateFails(i) PROVE Kept
  BY <1>3, <1>d DEF Blocked, CreateFails
<1>4. ASSUME NEW i \in Schedules, NoNewWindow(i) PROVE Kept
  BY <1>4, <1>a, <1>b DEF NoNewWindow
<1>5. ASSUME UserExport \/ (\E j \in Jobs : UserResume(j) \/ JobStep(j)) \/ Tick \/ UNCHANGED vars
      PROVE  Kept
  BY <1>5, <1>c DEF UserExport, UserResume, JobStep, Tick, vars
<1>6. ASSUME ApiRestart PROVE Kept
  BY <1>6, <1>b DEF ApiRestart
<1>7. QED
  BY <1>e, <1>f, <1>1, <1>2, <1>3, <1>4, <1>5, <1>6 DEF Next, RunStep, Claiming

LEMMA CursorStep == TypeOK /\ CursorInv /\ [Next]_vars => CursorInv'
<1> SUFFICES ASSUME TypeOK, CursorInv, [Next]_vars, NEW s \in Schedules
             PROVE  /\ (task[s].pc = "wait" => Follows(s, task[s].job))'
                    /\ (sched[s].lastJob # NoJob =>
                          /\ Owned(s, sched[s].lastJob)
                          /\ \/ status[sched[s].lastJob] = "completed"
                             \/ Follows(s, sched[s].lastJob))'
  BY DEF CursorInv
<1>a. sched \in [Schedules -> Rows] /\ task \in [Schedules -> Tasks]
  BY DEF TypeOK, Rows, Tasks
<1>1. CASE ~Claiming(s)
  BY <1>1, CursorFrame, CursorKept
<1>2. CASE ResumeLast(s)
  <2>1. PICK j \in Jobs : j = sched[s].lastJob /\ status[j] \in Job!Resumable
    BY <1>2, <1>a DEF ResumeLast, LastJobResumable, Rows
  <2>2. Follows(s, j)
    BY <2>1, SchedulesAssumption DEF CursorInv, Job!Resumable
  <2>3. status'[j] = "pending" /\ UNCHANGED <<export, sched>>
    BY <1>2, <2>1 DEF ResumeLast, Job!Resume, Job!Move, TypeOK
  <2>4. Follows(s, j)'
    BY <2>2, <2>3 DEF Follows, Owned
  <2>5. task'[s].job = j /\ sched'[s].lastJob = j
    BY <1>2, <1>a, <2>1, <2>3 DEF ResumeLast, WaitFor
  <2>6. QED
    BY <2>4, <2>5 DEF Follows
<1>3. CASE CreateRun(s)
  <2>1. PICK e \in NewWindow(s) : Submit(e)
    BY <1>3 DEF CreateRun
  <2>2. e.owner = s /\ sched[s].lastEnd \in {Never, e.start}
    BY <2>1, WindowType
  <2>3. PICK j \in Jobs : j = NewJob
    BY <2>1 DEF Submit
  <2>4. status'[j] = "pending" /\ export'[j] = e /\ UNCHANGED sched
    BY <1>3, <2>1, <2>3 DEF CreateRun, Submit, Job!Submit, Job!Move, TypeOK
  <2>5. Follows(s, j)'
    BY <2>2, <2>4 DEF Follows, Owned
  <2>6. task'[s].job = j
    BY <1>3, <1>a, <2>3 DEF CreateRun, WaitFor
  <2>7. sched[s].lastJob # NoJob =>
          (Owned(s, sched[s].lastJob)
           /\ (status[sched[s].lastJob] = "completed" \/ Follows(s, sched[s].lastJob)))'
    <3> SUFFICES ASSUME sched[s].lastJob # NoJob
        PROVE (Owned(s, sched[s].lastJob)
               /\ (status[sched[s].lastJob] = "completed" \/ Follows(s, sched[s].lastJob)))'
      OBVIOUS
    <3>1. PICK k \in Jobs : k = sched[s].lastJob
      BY <1>a DEF Rows
    <3>2. Owned(s, k) /\ (status[k] = "completed" \/ Follows(s, k))
      BY <3>1 DEF CursorInv
    <3>3. Owned(s, k)' /\ (status'[k] = "completed" \/ Follows(s, k)')
      BY <2>4, <3>2, JobsKept DEF JobKept, Owned, Follows
    <3>4. QED
      BY <2>4, <3>1, <3>3
  <2>8. QED
    BY <2>4, <2>5, <2>6, <2>7
<1>4. CASE Collect(s)
  <2>1. PICK j \in Jobs : j = task[s].job
    BY <1>4, <1>a DEF Collect, Tasks
  <2>2. Follows(s, j)
    BY <1>4, <2>1 DEF Collect, CursorInv
  <2>3. UNCHANGED <<status, export>>
    BY <1>4 DEF Collect, jobVars
  <2>4. sched'[s].lastJob = j
        /\ (status[j] # "completed" => sched'[s].lastEnd = sched[s].lastEnd)
    BY <1>4, <1>a, <2>1 DEF Collect, Rows
  <2>5. task'[s].pc # "wait"
    BY <1>4, <1>a DEF Collect, Idle
  <2>6. Owned(s, j)' /\ (status'[j] = "completed" \/ Follows(s, j)')
    BY <2>2, <2>3, <2>4 DEF Follows, Owned
  <2>7. QED
    BY <2>4, <2>5, <2>6
<1>5. QED
  BY <1>1, <1>2, <1>3, <1>4 DEF Claiming

LEMMA ContiguousStep ==
  TypeOK /\ CursorInv /\ [Next]_vars =>
    \A s \in Schedules :
      sched'[s].lastEnd # sched[s].lastEnd =>
        \E j \in Jobs :
          /\ Owned(s, j) /\ status[j] = "completed"
          /\ export[j].end = sched'[s].lastEnd
          /\ sched[s].lastEnd \in {Never, export[j].start}
<1> SUFFICES ASSUME TypeOK, CursorInv, [Next]_vars, NEW s \in Schedules,
                    sched'[s].lastEnd # sched[s].lastEnd
             PROVE  \E j \in Jobs :
                      /\ Owned(s, j) /\ status[j] = "completed"
                      /\ export[j].end = sched'[s].lastEnd
                      /\ sched[s].lastEnd \in {Never, export[j].start}
  OBVIOUS
<1>a. sched \in [Schedules -> Rows] /\ task \in [Schedules -> Tasks]
  BY DEF TypeOK, Rows, Tasks
<1>1. Collect(s)
  BY CursorFrame DEF Claiming, ResumeLast, CreateRun
<1>2. PICK j \in Jobs : j = task[s].job
  BY <1>1, <1>a DEF Collect, Tasks
<1>3. Owned(s, j) /\ sched[s].lastEnd \in {Never, export[j].start}
  BY <1>1, <1>2 DEF Collect, CursorInv, Follows
<1>4. sched'[s].lastEnd = IF status[j] = "completed" THEN export[j].end ELSE sched[s].lastEnd
  BY <1>1, <1>a, <1>2 DEF Collect, Rows
<1>5. QED
  BY <1>3, <1>4

\* For any number of schedules, jobs and users: last_success_end moves only over a
\* completed run of the schedule that began where it stood.
THEOREM Contiguous == Spec => AdvancesAreContiguous
<1>1. Init => TypeOK /\ CursorInv
  BY TypeInit, CursorInit
<1>2. TypeOK /\ CursorInv /\ [Next]_vars => (TypeOK /\ CursorInv)'
  BY TypeStep, CursorStep
<1>3. QED
  BY <1>1, <1>2, ContiguousStep, PTL DEF Spec, AdvancesAreContiguous

-----------------------------------------------------------------------------
(***************************************************************************)
(* The windows of a schedule do not overlap                                *)
(***************************************************************************)
\* The jobs a schedule would resume by itself.
Claims(s, j) == sched[s].lastJob = j \/ (task[s].pc = "wait" /\ task[s].job = j)

\* The jobs of a schedule that may still deliver, or have delivered, their window.
Live(s, j) ==
  /\ Owned(s, j) /\ j \notin byHand
  /\ status[j] \notin Job!Resumable \/ parts[j] > 0 \/ Claims(s, j)

KeyInv == \A s \in Schedules, j \in Jobs : Owned(s, j) => export[j].key = Key[s]

DisjointInv ==
  \A s \in Schedules, j, k \in Jobs :
    Live(s, j) /\ Live(s, k) /\ j # k => ~Overlap(export[j], export[k])

LEMMA KeyStep ==
  ASSUME TypeOK, KeyInv, [Next]_vars
  PROVE  KeyInv'
<1> SUFFICES ASSUME NEW s \in Schedules, NEW j \in Jobs, Owned(s, j)'
             PROVE  export'[j].key = Key[s]
  BY DEF KeyInv
<1>1. CASE status[j] # "absent"
  <2>1. export'[j] = export[j]
    BY <1>1, JobsKept DEF JobKept
  <2>2. Owned(s, j)
    BY <1>1, <2>1 DEF Owned
  <2>3. QED
    BY <2>1, <2>2 DEF KeyInv
<1>2. CASE status[j] = "absent"
  <2>a. status'[j] # "absent" /\ export'[j].owner = s
    BY DEF Owned
  <2>1. ASSUME UNCHANGED status PROVE FALSE
    BY <1>2, <2>a, <2>1
  <2>2. ASSUME NEW i \in Jobs,
               Job!Start(i) \/ Job!Complete(i) \/ Job!GiveUp(i) \/ Job!Checkpoint(i) \/ Job!Resume(i)
        PROVE  FALSE
    BY <1>2, <2>a, <2>2
       DEF TypeOK, Job!Start, Job!Complete, Job!GiveUp, Job!Checkpoint, Job!Resume, Job!Move,
           Job!Active, Job!Resumable
  <2>3. ASSUME NEW e \in Exports, Submit(e) PROVE export'[j] = e
    BY <1>2, <2>a, <2>3 DEF TypeOK, Submit, Job!Submit, Job!Move
  <2>4. ASSUME NEW i \in Schedules, CreateRun(i) PROVE export'[j].key = Key[s]
    <3>1. PICK e \in NewWindow(i) : Submit(e)
      BY <2>4 DEF CreateRun
    <3>2. e \in Exports /\ e.owner = i /\ e.key = Key[i]
      BY WindowType
    <3>3. QED
      BY <2>a, <2>3, <3>1, <3>2
  <2>5. ASSUME NEW i \in Schedules, CreateFails(i) PROVE export'[j].key = Key[s]
    <3>1. PICK e \in NewWindow(i) : /\ status' = [status EXCEPT ![NewJob] = "failed"]
                                    /\ export' = [export EXCEPT ![NewJob] = e]
      BY <2>1, <2>5 DEF CreateFails
    <3>2. e.owner = i /\ e.key = Key[i]
      BY WindowType
    <3>3. export'[j] = e
      BY <1>2, <2>a, <3>1 DEF TypeOK
    <3>4. QED
      BY <2>a, <3>2, <3>3
  <2>6. ASSUME UserExport PROVE FALSE
    <3>1. PICK e \in UserExports : Submit(e)
      BY <2>6 DEF UserExport
    <3>2. e \in Exports /\ e.owner = User
      BY SchedulesAssumption DEF Exports
    <3>3. QED
      BY <2>a, <2>3, <3>1, <3>2, SchedulesAssumption
  <2>7. ASSUME NEW i \in Schedules, ResumeLast(i) PROVE FALSE
    BY <2>2, <2>7 DEF ResumeLast, LastJobResumable, TypeOK
  <2>8. ASSUME NEW i \in Schedules, ResumeFails(i) PROVE FALSE
    BY <1>2, <2>a, <2>8 DEF ResumeFails, LastJobResumable, TypeOK, Job!Resumable
  <2>9. ASSUME NEW i \in Schedules,
               \/ CreateSchedule(i) \/ UpdateSchedule(i) \/ DeleteSchedule(i) \/ RunNow(i)
               \/ StartDue(i) \/ NoNewWindow(i) \/ Blocked(i) \/ Collect(i)
        PROVE  FALSE
    BY <2>1, <2>9 DEF CreateSchedule, UpdateSchedule, DeleteSchedule, RunNow, StartDue,
                      NoNewWindow, Blocked, Collect, jobVars
  <2>10. ASSUME NEW i \in Jobs, UserResume(i) \/ JobStep(i) PROVE FALSE
    BY <2>2, <2>10 DEF UserResume, JobStep
  <2>11. ASSUME ApiRestart \/ Tick \/ UNCHANGED vars PROVE FALSE
    BY <2>1, <2>11 DEF ApiRestart, Tick, vars, jobVars
  <2>12. QED
    BY <2>4, <2>5, <2>6, <2>7, <2>8, <2>9, <2>10, <2>11 DEF Next, RunStep
<1>3. QED
  BY <1>1, <1>2

\* Only a new job comes to be claimed.
LEMMA ClaimsKept ==
  ASSUME TypeOK, [Next]_vars, NEW s \in Schedules, NEW j \in Jobs, status[j] # "absent"
  PROVE  Claims(s, j)' => Claims(s, j)
<1>a. sched \in [Schedules -> Rows] /\ task \in [Schedules -> Tasks]
  BY DEF TypeOK, Rows, Tasks
<1>1. CASE ~Claiming(s)
  BY <1>1, CursorFrame, SchedulesAssumption DEF Claims
<1>2. CASE ResumeLast(s)
  BY <1>2, <1>a DEF ResumeLast, WaitFor, Claims
<1>3. CASE CreateRun(s)
  <2>1. status[NewJob] = "absent" /\ UNCHANGED sched /\ task'[s].job = NewJob
    BY <1>3, <1>a DEF CreateRun, Submit, Job!Submit, Job!Move, WaitFor
  <2>2. QED
    BY <2>1 DEF Claims
<1>4. CASE Collect(s)
  <2>1. sched'[s].lastJob = task[s].job
    BY <1>4, <1>a DEF Collect, Rows
  <2>2. task'[s].pc # "wait"
    BY <1>4, <1>a DEF Collect, Idle
  <2>3. QED
    BY <1>4, <2>1, <2>2 DEF Collect, Claims
<1>5. QED
  BY <1>1, <1>2, <1>3, <1>4 DEF Claiming

\* A job that ended without a checkpoint and that its schedule has forgotten stays so,
\* unless a user resumes it.
LEMMA LiveKept ==
  ASSUME TypeOK, CursorInv, [Next]_vars, NEW s \in Schedules, NEW j \in Jobs,
         status[j] # "absent", Live(s, j)'
  PROVE  Live(s, j)
<1>a. export'[j] = export[j]
  BY JobsKept DEF JobKept
<1>b. Owned(s, j) /\ j \notin byHand'
  BY <1>a DEF Live, Owned
<1>c. Claims(s, j)' => Claims(s, j)
  BY ClaimsKept
<1>d. ASSUME status'[j] = status[j], parts'[j] = parts[j], byHand \subseteq byHand'
      PROVE  Live(s, j)
  BY <1>b, <1>c, <1>d DEF Live
<1>e. ASSUME status[j] \in Job!Active, UNCHANGED byHand PROVE Live(s, j)
  BY <1>b, <1>e DEF Live, Job!Active, Job!Resumable
<1>f. ASSUME NEW i \in Schedules, sched[i].lastJob = j, UNCHANGED byHand PROVE Live(s, j)
  <2>1. Owned(i, j)
    BY <1>f, SchedulesAssumption DEF CursorInv
  <2>2. i = s
    BY <1>b, <2>1 DEF Owned
  <2>3. QED
    BY <1>b, <1>f, <2>2 DEF Live, Claims
<1>1. ASSUME UNCHANGED jobVars PROVE Live(s, j)
  BY <1>1, <1>d DEF jobVars
<1>2. ASSUME NEW e, Submit(e), UNCHANGED byHand PROVE Live(s, j)
  BY <1>2, <1>d DEF TypeOK, Submit, Job!Submit, Job!Move
<1>3. ASSUME NEW i \in Schedules, CreateFails(i) PROVE Live(s, j)
  <2>1. NewJob \in Jobs => status[NewJob] = "absent"
    BY SchedulesAssumption DEF NewJob
  <2>2. status'[j] = status[j]
    BY <1>3, <2>1 DEF TypeOK, CreateFails
  <2>3. QED
    BY <1>3, <1>d, <2>2 DEF CreateFails
<1>4. ASSUME NEW i \in Schedules, ResumeLast(i) \/ ResumeFails(i) PROVE Live(s, j)
  <2>1. CASE sched[i].lastJob = j
    BY <1>4, <1>f, <2>1 DEF ResumeLast, ResumeFails
  <2>2. CASE sched[i].lastJob # j
    BY <1>4, <1>d, <2>2 DEF TypeOK, ResumeLast, ResumeFails, Job!Resume, Job!Move
  <2>3. QED
    BY <2>1, <2>2
<1>5. ASSUME NEW i \in Jobs, UserResume(i) PROVE Live(s, j)
  <2>1. i # j
    BY <1>5, <1>b DEF UserResume
  <2>2. QED
    BY <1>5, <1>d, <2>1 DEF TypeOK, UserResume, Job!Resume, Job!Move
<1>6. ASSUME NEW i \in Jobs, JobStep(i) PROVE Live(s, j)
  <2>1. CASE i = j
    BY <1>6, <1>e, <2>1 DEF JobStep, Job!Start, Job!Checkpoint, Job!Complete, Job!GiveUp,
                            Job!Move, Job!Active
  <2>2. CASE i # j
    <3>1. status'[j] = status[j] /\ parts'[j] = parts[j]
      BY <1>6, <2>2 DEF TypeOK, JobStep, Job!Start, Job!Checkpoint, Job!Complete, Job!GiveUp,
                        Job!Move
    <3>2. QED
      BY <1>6, <1>d, <3>1 DEF JobStep
  <2>3. QED
    BY <2>1, <2>2
<1>7. ASSUME NEW i \in Schedules,
             \/ CreateSchedule(i) \/ UpdateSchedule(i) \/ DeleteSchedule(i) \/ RunNow(i)
             \/ StartDue(i) \/ NoNewWindow(i) \/ Blocked(i) \/ Collect(i)
      PROVE  Live(s, j)
  BY <1>1, <1>7 DEF CreateSchedule, UpdateSchedule, DeleteSchedule, RunNow, StartDue,
                    NoNewWindow, Blocked, Collect
<1>8. ASSUME ApiRestart \/ Tick \/ UNCHANGED vars PROVE Live(s, j)
  BY <1>1, <1>8 DEF ApiRestart, Tick, vars, jobVars
<1>9. ASSUME UserExport PROVE Live(s, j)
  BY <1>2, <1>9 DEF UserExport
<1>10. ASSUME NEW i \in Schedules, CreateRun(i) PROVE Live(s, j)
  BY <1>2, <1>10 DEF CreateRun
<1>11. QED
  BY <1>3, <1>4, <1>5, <1>6, <1>7, <1>8, <1>9, <1>10 DEF Next, RunStep

\* Which job a step can bring into being, and for which export.
Created(s, n, e) ==
  /\ status' = [status EXCEPT ![n] = status'[n]] /\ status[n] = "absent"
  /\ export' = [export EXCEPT ![n] = e]
  /\ e \in NewWindow(s) /\ Conflicts(e) = {}
  /\ task[s].pc = "begin" /\ ~LastJobResumable(s)

LEMMA NewJobs ==
  ASSUME TypeOK, [Next]_vars, NEW s \in Schedules, NEW n \in Jobs,
         status[n] = "absent", Owned(s, n)'
  PROVE  \E e \in Exports : Created(s, n, e)
<1>a. status'[n] # "absent" /\ export'[n].owner = s
  BY DEF Owned
<1>1. ASSUME UNCHANGED status PROVE FALSE
  BY <1>a, <1>1
<1>2. ASSUME NEW i \in Jobs,
             Job!Start(i) \/ Job!Complete(i) \/ Job!GiveUp(i) \/ Job!Checkpoint(i) \/ Job!Resume(i)
      PROVE  FALSE
  BY <1>a, <1>2
     DEF TypeOK, Job!Start, Job!Complete, Job!GiveUp, Job!Checkpoint, Job!Resume, Job!Move,
         Job!Active, Job!Resumable
<1>3. ASSUME NEW i \in Schedules, NEW e \in NewWindow(i), Conflicts(e) = {}, Begun(i),
             ~LastJobResumable(i), NEW st, status' = [status EXCEPT ![NewJob] = st],
             status[NewJob] = "absent", export' = [export EXCEPT ![NewJob] = e]
      PROVE  \E f \in Exports : Created(s, n, f)
  <2>1. NewJob = n
    BY <1>a, <1>3 DEF TypeOK
  <2>2. e \in Exports /\ e.owner = i
    BY WindowType
  <2>3. export'[n] = e /\ status'[n] = st
    BY <1>3, <2>1 DEF TypeOK
  <2>4. i = s
    BY <1>a, <2>2, <2>3
  <2>5. QED
    BY <1>3, <2>1, <2>2, <2>3, <2>4 DEF Created, Begun
<1>4. ASSUME NEW i \in Schedules, CreateRun(i) PROVE \E e \in Exports : Created(s, n, e)
  <2>1. PICK e \in NewWindow(i) : Conflicts(e) = {} /\ Submit(e)
    BY <1>4 DEF CreateRun
  <2>2. QED
    BY <1>3, <1>4, <2>1 DEF CreateRun, Creates, Submit, Job!Submit, Job!Move
<1>5. ASSUME NEW i \in Schedules, CreateFails(i) PROVE \E e \in Exports : Created(s, n, e)
  <2>1. PICK e \in NewWindow(i) : /\ NewJob \in Jobs /\ Conflicts(e) = {}
                                  /\ status' = [status EXCEPT ![NewJob] = "failed"]
                                  /\ export' = [export EXCEPT ![NewJob] = e]
    BY <1>1, <1>5 DEF CreateFails
  <2>2. status[NewJob] = "absent"
    BY <2>1, SchedulesAssumption DEF NewJob
  <2>3. QED
    BY <1>3, <1>5, <2>1, <2>2 DEF CreateFails, Creates
<1>6. ASSUME UserExport PROVE FALSE
  <2>1. PICK e \in UserExports : Submit(e)
    BY <1>6 DEF UserExport
  <2>2. e.owner = User
    BY SchedulesAssumption
  <2>3. export'[n] = e
    BY <1>a, <2>1 DEF TypeOK, Submit, Job!Submit, Job!Move
  <2>4. QED
    BY <1>a, <2>2, <2>3, SchedulesAssumption
<1>7. ASSUME NEW i \in Schedules, ResumeLast(i) PROVE FALSE
  BY <1>2, <1>7 DEF ResumeLast, LastJobResumable, TypeOK
<1>8. ASSUME NEW i \in Schedules, ResumeFails(i) PROVE FALSE
  BY <1>a, <1>8 DEF ResumeFails, LastJobResumable, TypeOK, Job!Resumable
<1>9. ASSUME NEW i \in Schedules,
             \/ CreateSchedule(i) \/ UpdateSchedule(i) \/ DeleteSchedule(i) \/ RunNow(i)
             \/ StartDue(i) \/ NoNewWindow(i) \/ Blocked(i) \/ Collect(i)
      PROVE  FALSE
  BY <1>1, <1>9 DEF CreateSchedule, UpdateSchedule, DeleteSchedule, RunNow, StartDue,
                    NoNewWindow, Blocked, Collect, jobVars
<1>10. ASSUME NEW i \in Jobs, UserResume(i) \/ JobStep(i) PROVE FALSE
  BY <1>2, <1>10 DEF UserResume, JobStep
<1>11. ASSUME ApiRestart \/ Tick \/ UNCHANGED vars PROVE FALSE
  BY <1>1, <1>11 DEF ApiRestart, Tick, vars, jobVars
<1>12. QED
  BY <1>4, <1>5, <1>6, <1>7, <1>8, <1>9, <1>10, <1>11 DEF Next, RunStep

\* The overlap check looks at every other live job of the schedule.
LEMMA NewIsDisjoint ==
  ASSUME TypeOK, CursorInv, KeyInv, [Next]_vars, NEW s \in Schedules,
         NEW n \in Jobs, NEW k \in Jobs, k # n,
         status[n] = "absent", Live(s, n)', Live(s, k)'
  PROVE  ~Overlap(export'[n], export'[k])
<1>1. PICK e \in Exports : Created(s, n, e)
  BY NewJobs DEF Live
<1>2. export'[n] = e /\ export'[k] = export[k] /\ status'[k] = status[k]
  BY <1>1 DEF Created, TypeOK
<1>3. status[k] # "absent"
  BY <1>2 DEF Live, Owned
<1>4. Live(s, k)
  BY <1>3, LiveKept
<1>5. status[k] \in Job!Resumable => parts[k] > 0
  BY <1>1, <1>4, SchedulesAssumption DEF Live, Claims, Created, LastJobResumable
<1>6. export[k].key = e.key
  BY <1>1, <1>4, WindowType DEF Created, KeyInv, Live
<1>7. ~Overlap(export[k], e)
  BY <1>1, <1>3, <1>5, <1>6 DEF Created, Conflicts
<1>8. QED
  BY <1>2, <1>7 DEF Overlap

LEMMA DisjointStep ==
  ASSUME TypeOK, CursorInv, KeyInv, DisjointInv, [Next]_vars
  PROVE  DisjointInv'
<1> SUFFICES ASSUME NEW s \in Schedules, NEW j \in Jobs, NEW k \in Jobs,
                    Live(s, j)', Live(s, k)', j # k
             PROVE  ~Overlap(export'[j], export'[k])
  BY DEF DisjointInv, Overlap
<1>1. CASE status[j] = "absent"
  BY <1>1, NewIsDisjoint
<1>2. CASE status[k] = "absent"
  <2>1. ~Overlap(export'[k], export'[j])
    BY <1>2, NewIsDisjoint
  <2>2. QED
    BY <2>1 DEF Overlap
<1>3. CASE status[j] # "absent" /\ status[k] # "absent"
  <2>1. Live(s, j) /\ Live(s, k)
    BY <1>3, LiveKept
  <2>2. export'[j] = export[j] /\ export'[k] = export[k]
    BY <1>3, JobsKept DEF JobKept
  <2>3. QED
    BY <2>1, <2>2 DEF DisjointInv
<1>4. QED
  BY <1>1, <1>2, <1>3

\* For any number of schedules, jobs, users and restarts: the completed windows of a
\* schedule do not overlap unless a user resumed one of them.
THEOREM WindowsDisjoint == Spec => []OwnWindowsDisjoint
<1> DEFINE Inv == TypeOK /\ CursorInv /\ KeyInv /\ DisjointInv
<1>1. Init => Inv
  <2>1. Init => KeyInv /\ DisjointInv
    BY DEF Init, Job!Init, KeyInv, DisjointInv, Live, Owned
  <2>2. QED
    BY <2>1, TypeInit, CursorInit
<1>2. Inv /\ [Next]_vars => Inv'
  BY TypeStep, CursorStep, KeyStep, DisjointStep
<1>3. Inv => OwnWindowsDisjoint
  BY DEF OwnWindowsDisjoint, DisjointInv, Live, Job!Resumable
<1>4. QED
  BY <1>1, <1>2, <1>3, PTL DEF Spec
===============================================================================
