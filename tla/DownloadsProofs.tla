--------------------------- MODULE DownloadsProofs ---------------------------
(***************************************************************************)
(* The files of browser downloads, for any number of jobs and parts, any   *)
(* TTLs and listing limit, in inline and in detached mode.                 *)
(***************************************************************************)
EXTENDS Downloads, FiniteSetTheorems, TLAPS

-----------------------------------------------------------------------------
(***************************************************************************)
(* The inductive invariant, said of one job: its row, its job object, when *)
(* it has an entry in EXPORT_JOBS, where its task is, the parts taken over,*)
(* the files there are, those let go of, and the time.                     *)
(***************************************************************************)
AtWork == {"write", "ready", "named"}

\* An entry of EXPORT_JOBS says what the row says, but for a name just given.
EntryAgrees(r, m, entry, p) ==
  entry => /\ r.status = m.status /\ r.ended = m.ended
           /\ p # "named" => r.path = m.path

\* A task at work is that of a running job, which no sweep touches; one that
\* starts late finds its payload only if the job still waits for it.
TaskOwns(r, m, entry, p) ==
  /\ r.status = "absent" => p = "none"
  /\ p = "start" => /\ detached => r.status \in Active
                    /\ entry /\ m.payload => m.status = "pending"
  /\ p \in AtWork => m.status = "running" /\ r.status = "running" /\ (detached \/ entry)

\* The files a task has are those it will name or remove.
FilesKnown(r, m, p, n, d) ==
  /\ r.status = "absent" \/ p = "start" => d = {}
  /\ p \in {"none", "start"} => n = 0
  /\ p = "write" => IF m.split THEN d \subseteq 1..(n + 1) /\ d \subseteq 1..MaxParts
                    ELSE d = {Stream} /\ n = 0
  /\ p = "ready" => IF m.split THEN d = 1..n /\ n > 0 ELSE d = {Stream}
  /\ p = "named" => d = {m.path}

\* A row names a file when its job is completed, and the file is there until
\* its TTL has passed.
RowNames(r, p, d, now) ==
  /\ r.path # NoFile => r.status = "completed"
  /\ r.status = "completed" => /\ p = "none" /\ r.ended # Never
                               /\ r.path \in d \/ now > r.ended + HistoryTTL

Owned(r, p, d, t) ==
  p = "none" => d \subseteq t \cup (IF r.status = "completed" THEN {r.path} ELSE {})

JobOK(r, m, entry, p, n, d, t, now) ==
  /\ EntryAgrees(r, m, entry, p) /\ TaskOwns(r, m, entry, p) /\ FilesKnown(r, m, p, n, d)
  /\ RowNames(r, p, d, now) /\ Owned(r, p, d, t)

JobsOK ==
  \A j \in Jobs :
    JobOK(row[j], mem[j], j \in listed, pc[j], parts[j], disk[j], lost[j], clock)

IInv == TypeOK /\ swept <= clock /\ JobsOK /\ OldFilesAreHidden

-----------------------------------------------------------------------------
(***************************************************************************)
(* Records                                                                 *)
(***************************************************************************)
LEMMA Names ==
  /\ NoFile \notin File /\ Stream \in File /\ Zip \in File /\ 1..MaxParts \subseteq File
  /\ Stream \notin 1..MaxParts /\ Stream # 1 /\ 1 \in 1..MaxParts
  /\ Never \notin Times /\ Times \subseteq Nat
BY DownloadsAssumption DEF NoFile, File, Stream, Zip, Times, Never

Statuses == {"absent"} \cup Active \cup Terminal

\* The row that JobStore.save makes of a job object.
Stored(old, job) == [job EXCEPT !.cancel = @ \/ old.cancel, !.payload = FALSE]

LEMMA UpsertIs ==
  ASSUME NEW rows, NEW j, NEW job
  PROVE  Upsert(rows, j, job) = [rows EXCEPT ![j] = Stored(rows[j], job)]
BY DEF Upsert, Stored

\* A row written from a job object differs from it in what JobOK does not ask.
LEMMA StoredFields ==
  ASSUME NEW old \in ExportJob, NEW job \in ExportJob
  PROVE  /\ Stored(old, job) \in ExportJob
         /\ Stored(old, job).status = job.status /\ Stored(old, job).ended = job.ended
         /\ Stored(old, job).path = job.path /\ Stored(old, job).split = job.split
BY DEF Stored, ExportJob

LEMMA EndedFields ==
  ASSUME NEW job \in ExportJob, NEW status \in Statuses, clock \in Times
  PROVE  /\ Ended(job, status) \in ExportJob
         /\ Ended(job, status).status = status /\ Ended(job, status).ended = clock
         /\ Ended(job, status).path = job.path /\ Ended(job, status).split = job.split
         /\ Ended(job, status).payload = job.payload /\ Ended(job, status).made = job.made
BY DEF Ended, ExportJob, Statuses

LEMMA WithdrawnFields ==
  ASSUME NEW job \in ExportJob, clock \in Times
  PROVE  /\ Withdrawn(job) \in ExportJob
         /\ Withdrawn(job).status = "cancelled" /\ Withdrawn(job).ended = clock
         /\ Withdrawn(job).path = job.path /\ Withdrawn(job).payload = FALSE
BY EndedFields DEF Withdrawn, ExportJob, Statuses, Terminal

\* Setting one field that is not the status, the end or the path.
LEMMA FlagFields ==
  ASSUME NEW job \in ExportJob, NEW b \in BOOLEAN
  PROVE  /\ [job EXCEPT !.cancel = b] \in ExportJob
         /\ [job EXCEPT !.cancel = b].status = job.status
         /\ [job EXCEPT !.cancel = b].ended = job.ended
         /\ [job EXCEPT !.cancel = b].path = job.path
         /\ [job EXCEPT !.cancel = b].split = job.split
         /\ [job EXCEPT !.cancel = b].payload = job.payload
         /\ [job EXCEPT !.payload = b] \in ExportJob
         /\ [job EXCEPT !.payload = b].status = job.status
         /\ [job EXCEPT !.payload = b].ended = job.ended
         /\ [job EXCEPT !.payload = b].path = job.path
         /\ [job EXCEPT !.payload = b].split = job.split
         /\ [job EXCEPT !.payload = b].payload = b
BY DEF ExportJob

LEMMA ExpireFields ==
  ASSUME NEW job \in ExportJob, clock \in Times
  PROVE  /\ Expire(job) \in ExportJob
         /\ Expire(job).status = "expired" /\ Expire(job).ended = clock
         /\ Expire(job).path = job.path
<1>1. PICK over \in ExportJob : /\ over = Ended(job, "expired") /\ over.status = "expired"
                                /\ over.ended = clock /\ over.path = job.path
  BY EndedFields DEF Statuses, Terminal
<1>2. /\ [over EXCEPT !.payload = FALSE] \in ExportJob
      /\ [over EXCEPT !.payload = FALSE].status = "expired"
      /\ [over EXCEPT !.payload = FALSE].ended = clock
      /\ [over EXCEPT !.payload = FALSE].path = job.path
  BY <1>1 DEF ExportJob
<1>3. PICK spent \in ExportJob : /\ spent = [over EXCEPT !.payload = FALSE]
                                 /\ spent.status = "expired" /\ spent.ended = clock
                                 /\ spent.path = job.path
  BY <1>2
<1>4. Expire(job) = [spent EXCEPT !.cancel = TRUE]
  BY <1>1, <1>3 DEF Expire
<1> QED BY <1>3, <1>4 DEF ExportJob

LEMMA PathFields ==
  ASSUME NEW job \in ExportJob, NEW file \in File \cup {NoFile}
  PROVE  /\ [job EXCEPT !.path = file] \in ExportJob
         /\ [job EXCEPT !.path = file].status = job.status
         /\ [job EXCEPT !.path = file].ended = job.ended
         /\ [job EXCEPT !.path = file].path = file
         /\ [job EXCEPT !.path = file].split = job.split
BY DEF ExportJob

LEMMA RunningFields ==
  ASSUME NEW job \in ExportJob
  PROVE  /\ [job EXCEPT !.status = "running"] \in ExportJob
         /\ [job EXCEPT !.status = "running"].status = "running"
         /\ [job EXCEPT !.status = "running"].ended = job.ended
         /\ [job EXCEPT !.status = "running"].path = job.path
         /\ [job EXCEPT !.status = "running"].split = job.split
BY DEF ExportJob, Active

LEMMA AbsentFields ==
  /\ Absent \in ExportJob
  /\ Absent.status = "absent" /\ Absent.path = NoFile /\ Absent.ended = Never
BY DownloadsAssumption DEF Absent, ExportJob, Times, Never, NoFile, File

LEMMA LeftFields ==
  ASSUME NEW job \in ExportJob
  PROVE  Left(job) \in ExportJob /\ (~detached => Left(job) = job)
BY AbsentFields DEF Left

-----------------------------------------------------------------------------
(***************************************************************************)
(* The sweep                                                               *)
(***************************************************************************)
LEMMA JobTypes ==
  ASSUME TypeOK, NEW j \in Jobs
  PROVE  /\ row[j] \in ExportJob /\ mem[j] \in ExportJob /\ clock \in Times
         /\ clock \in Nat /\ disk[j] \subseteq File /\ lost[j] \subseteq File
         /\ parts[j] \in 0..MaxParts /\ (detached => j \notin listed)
         /\ row[j].path \in File \cup {NoFile} /\ mem[j].path \in File \cup {NoFile}
         /\ row[j].status \in Statuses /\ mem[j].status \in Statuses
         /\ row[j].ended \in Times \cup {Never} /\ row[j].ended \in Nat
<1>1. /\ row[j] \in ExportJob /\ mem[j] \in ExportJob /\ clock \in Times
      /\ disk[j] \subseteq File /\ lost[j] \subseteq File
      /\ parts[j] \in 0..MaxParts /\ (detached => j \notin listed)
  BY DEF TypeOK
<1>2. \A job \in ExportJob : /\ job.path \in File \cup {NoFile} /\ job.status \in Statuses
                             /\ job.ended \in Times \cup {Never}
  BY DEF ExportJob, Statuses
<1>3. Times \cup {Never} \subseteq Nat
  BY DownloadsAssumption DEF Times, Never
<1> QED BY <1>1, <1>2, <1>3

\* What the sweep leaves of a job: it forgets entries of jobs that ended long
\* ago or were never started, ends the latter, and deletes files only with
\* the name by which their row knows them.
Swept(j, m, entry, r, d) ==
  /\ r \in ExportJob /\ m \in ExportJob /\ d \subseteq disk[j]
  /\ entry => j \in listed /\ m = mem[j] /\ r = row[j] /\ d = disk[j]
  /\ r.status = "absent" <=> row[j].status = "absent"
  /\ row[j].status \in Terminal => r.status = row[j].status
  /\ JobOK(r, m, entry, pc[j], parts[j], d, lost[j], clock)
  /\ r.path \in d /\ clock > r.ended + HistoryTTL => j \notin Newest(row)

\* The rows of jobs that were never started, ended by the sweep.
SweptRows ==
  [j \in Jobs |-> IF j \in Unclaimed THEN Stored(row[j], Expire(mem[j])) ELSE row[j]]

LEMMA CleanupIs ==
  ASSUME TypeOK, NEW j \in Jobs
  PROVE  /\ Cleanup.mem[j] = IF j \in Unclaimed \cup Forgotten THEN Absent ELSE mem[j]
         /\ Cleanup.listed = listed \ (Unclaimed \cup Forgotten)
         /\ Cleanup.row[j] = IF j \in StaleRows(SweptRows)
                             THEN [SweptRows[j] EXCEPT !.path = NoFile] ELSE SweptRows[j]
         /\ Cleanup.disk[j] = disk[j] \ ((IF j \in Forgotten THEN {mem[j].path} ELSE {})
                \cup (IF j \in StaleRows(SweptRows) THEN {SweptRows[j].path} ELSE {}))
<1> DEFINE m == [k \in Jobs |-> IF k \in Unclaimed THEN Expire(mem[k]) ELSE mem[k]]
           r == [k \in Jobs |-> IF k \in Unclaimed THEN Upsert(row, k, m[k])[k] ELSE row[k]]
           old == StaleRows(r)
           gone == Unclaimed \cup Forgotten
<1>1. r = SweptRows
  <2>1. ASSUME NEW k \in Jobs, k \in Unclaimed
        PROVE  Upsert(row, k, m[k])[k] = Stored(row[k], Expire(mem[k]))
    BY <2>1, UpsertIs DEF TypeOK
  <2> QED BY <2>1 DEF SweptRows
<1>2. Cleanup =
        [mem    |-> [k \in Jobs |-> IF k \in gone THEN Absent ELSE m[k]],
         listed |-> listed \ gone,
         row    |-> [k \in Jobs |-> IF k \in old THEN [r[k] EXCEPT !.path = NoFile] ELSE r[k]],
         disk   |-> [k \in Jobs |-> disk[k] \ ((IF k \in Forgotten THEN {mem[k].path} ELSE {})
                                       \cup (IF k \in old THEN {r[k].path} ELSE {}))]]
  BY DEF Cleanup
<1>3. j \notin gone => m[j] = mem[j]
  OBVIOUS
<1> HIDE DEF m, r, gone
<1>4. /\ Cleanup.mem[j] = IF j \in gone THEN Absent ELSE m[j]
      /\ Cleanup.listed = listed \ gone
      /\ Cleanup.row[j] = IF j \in old THEN [r[j] EXCEPT !.path = NoFile] ELSE r[j]
      /\ Cleanup.disk[j] = disk[j] \ ((IF j \in Forgotten THEN {mem[j].path} ELSE {})
                                       \cup (IF j \in old THEN {r[j].path} ELSE {}))
  BY <1>2
<1> QED BY <1>1, <1>3, <1>4 DEF gone

\* Which rows a listing returns depends only on which rows there are.
LEMMA NewestDepends ==
  ASSUME NEW rows, NEW others,
         \A k \in Jobs : rows[k].status = "absent" <=> others[k].status = "absent"
  PROVE  Newest(rows) = Newest(others)
<1>1. ASSUME NEW j \in Jobs
      PROVE  {k \in Jobs : k > j /\ rows[k].status # "absent"}
               = {k \in Jobs : k > j /\ others[k].status # "absent"}
  OBVIOUS
<1> QED BY <1>1 DEF Newest

\* What is not past its TTL, or no longer there, is of no concern to the sweep.
LEMMA SweepHolds ==
  ASSUME IInv, ~LoopBusy, NEW j \in Jobs
  PROVE  Swept(j, Cleanup.mem[j], j \in Cleanup.listed, Cleanup.row[j], Cleanup.disk[j])
<1>1. JobOK(row[j], mem[j], j \in listed, pc[j], parts[j], disk[j], lost[j], clock)
  BY DEF IInv, JobsOK
<1>2. TypeOK
  BY DEF IInv
<1>3. j \in listed => pc[j] \notin {"ready", "named"} /\ ~detached
  BY <1>2 DEF LoopBusy, TypeOK
<1>4. /\ row[j] \in ExportJob /\ mem[j] \in ExportJob /\ clock \in Times
      /\ row[j].status \in Statuses
  BY <1>2, JobTypes
<1>5. Newest(SweptRows) = Newest(row)
  <2>1. ASSUME NEW k \in Jobs
        PROVE  SweptRows[k].status = "absent" <=> row[k].status = "absent"
    <3>1. CASE k \in Unclaimed
      <4>1. /\ row[k] \in ExportJob /\ Expire(mem[k]) \in ExportJob
            /\ Expire(mem[k]).status = "expired"
        BY <1>2, JobTypes, ExpireFields
      <4>2. SweptRows[k].status = "expired"
        BY <3>1, <4>1, StoredFields DEF SweptRows
      <4>3. row[k].status = mem[k].status /\ mem[k].status = "pending"
        BY <3>1 DEF Unclaimed, IInv, JobsOK, JobOK, EntryAgrees
      <4> QED BY <4>2, <4>3
    <3>2. CASE k \notin Unclaimed
      BY <3>2 DEF SweptRows
    <3> QED BY <3>1, <3>2
  <2> QED BY <2>1, NewestDepends
<1>6. CASE j \in Unclaimed
  <2>1. /\ j \in listed /\ mem[j].status = "pending" /\ row[j].status = "pending"
        /\ mem[j].path = row[j].path /\ row[j].path = NoFile
    BY <1>1, <1>3, <1>6 DEF Unclaimed, JobOK, EntryAgrees, RowNames
  <2>2. pc[j] \in {"none", "start"}
    BY <1>1, <1>2, <2>1 DEF JobOK, TaskOwns, AtWork, TypeOK
  <2>3. Expire(mem[j]) \in ExportJob
    BY <1>4, ExpireFields
  <2>4. /\ SweptRows[j] \in ExportJob /\ SweptRows[j].status = "expired"
        /\ SweptRows[j].path = NoFile
    BY <1>4, <1>6, <2>1, <2>3, ExpireFields, StoredFields DEF SweptRows
  <2>5. j \notin StaleRows(SweptRows) /\ j \notin Forgotten
    BY <2>1, <2>4 DEF StaleRows, Forgotten, PastHistory, Terminal
  <2>6. /\ Cleanup.mem[j] = Absent /\ j \notin Cleanup.listed
        /\ Cleanup.row[j] = SweptRows[j] /\ Cleanup.disk[j] = disk[j]
    BY <1>2, <1>6, <2>5, CleanupIs
  <2>7. JobOK(Cleanup.row[j], Cleanup.mem[j], j \in Cleanup.listed, pc[j], parts[j],
              Cleanup.disk[j], lost[j], clock)
    <3>1. Owned(Cleanup.row[j], pc[j], disk[j], lost[j])
      BY <1>1, <2>1 DEF JobOK, Owned
    <3>2. FilesKnown(Cleanup.row[j], Cleanup.mem[j], pc[j], parts[j], disk[j])
      BY <1>1, <2>2, <2>4, <2>6 DEF JobOK, FilesKnown
    <3>3. TaskOwns(Cleanup.row[j], Cleanup.mem[j], j \in Cleanup.listed, pc[j])
      BY <1>3, <2>1, <2>2, <2>4, <2>6 DEF TaskOwns, AtWork
    <3> QED BY <2>4, <2>6, <3>1, <3>2, <3>3 DEF JobOK, EntryAgrees, RowNames
  <2>8. NoFile \notin disk[j]
    BY <1>2, JobTypes, Names
  <2> QED BY <1>4, <2>1, <2>4, <2>6, <2>7, <2>8, AbsentFields DEF Swept, Terminal
<1>7. CASE j \notin Unclaimed
  <2>1. SweptRows[j] = row[j]
    BY <1>7 DEF SweptRows
  <2> DEFINE old == j \in StaleRows(SweptRows)
             r == Cleanup.row[j]
             m == Cleanup.mem[j]
             entry == j \in Cleanup.listed
             d == Cleanup.disk[j]
  <2>2. /\ NoFile \notin disk[j] /\ row[j].ended \in Nat /\ clock \in Nat
        /\ row[j].path \in File \cup {NoFile}
    BY <1>2, JobTypes, Names
  <2>3. row[j].path # NoFile =>
          /\ row[j].status = "completed" /\ pc[j] = "none"
          /\ PastHistory(row[j]) <=> clock > row[j].ended + HistoryTTL
    BY <1>1 DEF JobOK, RowNames, PastHistory, Anchor, Terminal
  <2>4. j \in Forgotten =>
          /\ j \in listed /\ mem[j].path = row[j].path /\ mem[j].status \in Terminal
          /\ row[j].path # NoFile => clock > row[j].ended + HistoryTTL
    BY <1>1, <1>3 DEF Forgotten, PastHistory, Anchor, JobOK, EntryAgrees, RowNames
  <2>5. old <=> j \in Newest(row) /\ PastHistory(row[j]) /\ row[j].path # NoFile
    BY <1>5, <2>1 DEF StaleRows
  <2>6. old /\ j \in listed => j \in Forgotten
    BY <1>1, <1>3, <2>3, <2>5 DEF Forgotten, PastHistory, Anchor, JobOK, EntryAgrees, RowNames
  <2>7. /\ m = (IF j \in Forgotten THEN Absent ELSE mem[j])
        /\ entry <=> j \in listed /\ j \notin Forgotten
        /\ r = (IF old THEN [row[j] EXCEPT !.path = NoFile] ELSE row[j])
        /\ d = disk[j] \ ((IF j \in Forgotten THEN {mem[j].path} ELSE {})
                             \cup (IF old THEN {row[j].path} ELSE {}))
    BY <1>2, <1>7, <2>1, CleanupIs
  <2> HIDE DEF old, r, m, entry, d
  <2>8. /\ r \in ExportJob /\ m \in ExportJob /\ r.status = row[j].status
        /\ r.ended = row[j].ended /\ r.path = IF old THEN NoFile ELSE row[j].path
    BY <1>4, <2>7, PathFields, AbsentFields
  <2>9. /\ d \subseteq disk[j] /\ disk[j] \ {row[j].path} \subseteq d
        /\ row[j].path \in d => ~old /\ j \notin Forgotten
        /\ row[j].path \in disk[j] \ d => clock > row[j].ended + HistoryTTL
    BY <2>2, <2>3, <2>4, <2>5, <2>7
  <2>10. entry => m = mem[j] /\ r = row[j] /\ d = disk[j]
    BY <2>6, <2>7
  <2>11. pc[j] \in AtWork => m = mem[j] /\ r = row[j] /\ d = disk[j] /\ (entry <=> j \in listed)
    <3>1. pc[j] \in AtWork => ~old /\ (j \in listed => j \notin Forgotten)
      BY <1>1, <2>3, <2>4, <2>5 DEF JobOK, TaskOwns, AtWork, Terminal
    <3>2. j \in Forgotten => j \in listed
      BY <2>4
    <3> QED BY <2>7, <3>1, <3>2
  <2>12. JobOK(r, m, entry, pc[j], parts[j], d, lost[j], clock)
    <3>1. CASE pc[j] \in AtWork
      BY <1>1, <2>11, <3>1 DEF JobOK, EntryAgrees, TaskOwns
    <3>2. CASE pc[j] \notin AtWork
      <4>1. EntryAgrees(r, m, entry, pc[j])
        BY <1>1, <2>7, <2>10 DEF JobOK, EntryAgrees
      <4>2. TaskOwns(r, m, entry, pc[j])
        BY <1>1, <2>7, <2>8, <2>10, <3>2 DEF JobOK, TaskOwns
      <4>3. FilesKnown(r, m, pc[j], parts[j], d)
        BY <1>1, <2>8, <2>9, <3>2 DEF JobOK, FilesKnown, AtWork
      <4>4. RowNames(r, pc[j], d, clock)
        <5>1. old => clock > row[j].ended + HistoryTTL
          BY <2>3, <2>5
        <5> QED BY <1>1, <2>8, <2>9, <5>1 DEF JobOK, RowNames
      <4>5. Owned(r, pc[j], d, lost[j])
        <5>1. old => row[j].path \notin d
          BY <2>9
        <5> QED BY <1>1, <2>8, <2>9, <5>1 DEF JobOK, Owned
      <4> QED BY <4>1, <4>2, <4>3, <4>4, <4>5 DEF JobOK
    <3> QED BY <3>1, <3>2
  <2>13. r.path \in d /\ clock > r.ended + HistoryTTL => j \notin Newest(row)
    BY <2>2, <2>3, <2>5, <2>8, <2>9
  <2>14. Swept(j, m, entry, r, d)
    BY <2>7, <2>8, <2>9, <2>10, <2>12, <2>13 DEF Swept
  <2> QED BY <2>14 DEF r, m, entry, d
<1> QED BY <1>6, <1>7

-----------------------------------------------------------------------------
(***************************************************************************)
(* What every step must do to every job                                    *)
(***************************************************************************)
Settles(j) == row[j].status \in Terminal => row'[j].status = row[j].status

JobStep(j) ==
  /\ JobOK(row[j], mem[j], j \in listed, pc[j], parts[j], disk[j], lost[j], clock)'
  /\ row'[j].status = "absent" => row[j].status = "absent"
  /\ Settles(j)
  /\ row'[j].path \in disk'[j] /\ swept' > row'[j].ended + HistoryTTL =>
       row[j].status # "absent" /\ j \notin Newest(row)

Good == IInv' /\ \A j \in Jobs : Settles(j)

\* A row out of the listing stays out of it: rows are never deleted.
LEMMA StaysHidden ==
  ASSUME NEW j \in Jobs, row[j].status # "absent", j \notin Newest(row),
         \A k \in Jobs : row'[k].status = "absent" => row[k].status = "absent"
  PROVE  j \notin Newest(row')
<1> DEFINE Above(rows) == {k \in Jobs : k > j /\ rows[k].status # "absent"}
<1>1. IsFiniteSet(Jobs)
  BY DownloadsAssumption, FS_Interval DEF Jobs
<1>2. IsFiniteSet(Above(row)) /\ IsFiniteSet(Above(row'))
  BY <1>1, FS_Subset
<1>3. Above(row) \subseteq Above(row')
  OBVIOUS
<1>4. Cardinality(Above(row)) <= Cardinality(Above(row'))
  BY <1>2, <1>3, FS_Subset
<1>5. Cardinality(Above(row)) \in Nat /\ Cardinality(Above(row')) \in Nat
  BY <1>2, FS_CardinalityType
<1>6. ~(Cardinality(Above(row)) < ListLimit)
  BY DEF Newest
<1>7. ~(Cardinality(Above(row')) < ListLimit)
  BY <1>4, <1>5, <1>6, DownloadsAssumption
<1> QED BY <1>7 DEF Newest

LEMMA Assemble ==
  ASSUME TypeOK', swept' <= clock', \A j \in Jobs : JobStep(j)
  PROVE  Good
<1>1. JobsOK'
  BY DEF JobStep, JobsOK
<1>2. OldFilesAreHidden'
  <2>1. ASSUME NEW j \in Jobs, row'[j].path \in disk'[j], swept' > row'[j].ended + HistoryTTL
        PROVE  j \notin Newest(row')
    BY <2>1, StaysHidden DEF JobStep
  <2>2. Newest(row)' = Newest(row')
    BY DEF Newest
  <2> QED BY <2>1, <2>2 DEF OldFilesAreHidden
<1> QED BY <1>1, <1>2 DEF IInv, Good, JobStep

\* A job that a step does not touch.
LEMMA Untouched ==
  ASSUME IInv, NEW j \in Jobs, UNCHANGED <<detached, clock, swept>>,
         row'[j] = row[j], mem'[j] = mem[j], j \in listed' <=> j \in listed,
         pc'[j] = pc[j], parts'[j] = parts[j], disk'[j] = disk[j], lost'[j] = lost[j]
  PROVE  JobStep(j)
<1>1. JobOK(row[j], mem[j], j \in listed, pc[j], parts[j], disk[j], lost[j], clock)
  BY DEF IInv, JobsOK
<1>2. JobOK(row[j], mem[j], j \in listed, pc[j], parts[j], disk[j], lost[j], clock)'
  BY <1>1 DEF JobOK, EntryAgrees, TaskOwns, FilesKnown, RowNames, Owned
<1>3. row[j].path \in disk[j] => row[j].status # "absent"
  BY <1>1 DEF JobOK, FilesKnown
<1> QED BY <1>2, <1>3 DEF JobStep, Settles, IInv, OldFilesAreHidden

\* A step of the task of a job changes that job alone, and leaves no file under
\* its name that a sweep could have seen.
LEMMA TaskMoves ==
  ASSUME IInv, NEW j \in Jobs, TaskOnly,
         NEW r \in ExportJob, row' = [row EXCEPT ![j] = r],
         NEW m \in ExportJob, mem' = [mem EXCEPT ![j] = m],
         NEW p \in {"none"} \cup AtWork, pc' = [pc EXCEPT ![j] = p],
         NEW n \in 0..MaxParts, parts' = [parts EXCEPT ![j] = n],
         NEW d \in SUBSET File, disk' = [disk EXCEPT ![j] = d],
         NEW t \in SUBSET File, lost' = [lost EXCEPT ![j] = t],
         JobOK(r, m, j \in listed, p, n, d, t, clock),
         r.status # "absent", row[j].status \in Terminal => r.status = row[j].status,
         ~(r.path \in d /\ swept > r.ended + HistoryTTL)
  PROVE  Good
<1>1. TypeOK
  BY DEF IInv
<1>2. TypeOK'
  BY <1>1 DEF TypeOK, TaskOnly, AtWork
<1>3. /\ row'[j] = r /\ mem'[j] = m /\ pc'[j] = p /\ parts'[j] = n /\ disk'[j] = d
      /\ lost'[j] = t
  BY <1>1 DEF TypeOK
<1>4. JobOK(row[j], mem[j], j \in listed, pc[j], parts[j], disk[j], lost[j], clock)'
  BY <1>3 DEF TaskOnly, JobOK, EntryAgrees, TaskOwns, FilesKnown, RowNames, Owned
<1>5. JobStep(j)
  BY <1>3, <1>4 DEF JobStep, Settles, TaskOnly
<1>6. ASSUME NEW k \in Jobs, k # j PROVE JobStep(k)
  <2>1. /\ row'[k] = row[k] /\ mem'[k] = mem[k] /\ pc'[k] = pc[k] /\ parts'[k] = parts[k]
        /\ disk'[k] = disk[k] /\ lost'[k] = lost[k]
    BY <1>1, <1>6 DEF TypeOK
  <2> QED BY <2>1, Untouched DEF TaskOnly
<1>7. swept' <= clock'
  BY DEF TaskOnly, IInv
<1> QED BY <1>2, <1>5, <1>6, <1>7, Assemble

-----------------------------------------------------------------------------
(***************************************************************************)
(* The task of a job                                                       *)
(***************************************************************************)
\* The task ends with its one file named and there, or with no name and
\* nothing left but what it let go of.
LEMMA EndTaskHolds ==
  ASSUME IInv, NEW j \in Jobs, TaskOnly, pc[j] \in AtWork,
         NEW job \in ExportJob, EndTask(j, job), job.ended = clock,
         NEW d \in SUBSET File, disk' = [disk EXCEPT ![j] = d],
         NEW t \in SUBSET File, lost' = [lost EXCEPT ![j] = t],
         \/ job.status = "completed" /\ d = {job.path}
         \/ job.status \in {"failed", "cancelled"} /\ job.path = NoFile /\ d \subseteq t
  PROVE  Good
<1> DEFINE r == Stored(row[j], job)
           m == Left([job EXCEPT !.payload = FALSE])
<1>1. TypeOK /\ JobOK(row[j], mem[j], j \in listed, pc[j], parts[j], disk[j], lost[j], clock)
  BY DEF IInv, JobsOK
<1>2. /\ r \in ExportJob /\ r.status = job.status /\ r.ended = job.ended /\ r.path = job.path
  BY <1>1, JobTypes, StoredFields
<1>3. /\ m \in ExportJob
      /\ ~detached => m.status = job.status /\ m.ended = job.ended /\ m.path = job.path
  <2> DEFINE over == [job EXCEPT !.payload = FALSE]
  <2>1. /\ over \in ExportJob /\ over.status = job.status /\ over.ended = job.ended
        /\ over.path = job.path
    BY DEF ExportJob
  <2> HIDE DEF over
  <2>2. Left(over) \in ExportJob /\ (~detached => Left(over) = over)
    BY <2>1, LeftFields
  <2> QED BY <2>1, <2>2 DEF over
<1>4. /\ row' = [row EXCEPT ![j] = r] /\ mem' = [mem EXCEPT ![j] = m]
      /\ pc' = [pc EXCEPT ![j] = "none"] /\ parts' = [parts EXCEPT ![j] = 0]
  BY UpsertIs DEF EndTask
<1> HIDE DEF r, m
<1>5. /\ row[j].status = "running" /\ (j \in listed => ~detached) /\ clock \in Times
      /\ clock \in Nat /\ swept \in Nat /\ swept <= clock
  BY <1>1, JobTypes, Names DEF JobOK, TaskOwns, IInv, TypeOK
<1>6. JobOK(r, m, j \in listed, "none", 0, d, t, clock)
  <2>1. EntryAgrees(r, m, j \in listed, "none")
    BY <1>2, <1>3, <1>5 DEF EntryAgrees
  <2>2. TaskOwns(r, m, j \in listed, "none")
    BY DEF TaskOwns, AtWork
  <2>3. FilesKnown(r, m, "none", 0, d)
    BY <1>2 DEF FilesKnown
  <2>4. RowNames(r, "none", d, clock)
    BY <1>2, <1>5, Names DEF RowNames
  <2>5. Owned(r, "none", d, t)
    BY <1>2 DEF Owned
  <2> QED BY <2>1, <2>2, <2>3, <2>4, <2>5 DEF JobOK
<1>7. r.status # "absent" /\ row[j].status \notin Terminal
  BY <1>2, <1>5 DEF Terminal
<1>8. ~(swept > r.ended + HistoryTTL)
  BY <1>2, <1>5, DownloadsAssumption
<1>9. 0 \in 0..MaxParts
  BY DownloadsAssumption
<1> QED BY <1>2, <1>3, <1>4, <1>6, <1>7, <1>8, <1>9, TaskMoves

LEMMA AbortHolds ==
  ASSUME IInv, NEW j \in Jobs, TaskOnly, pc[j] \in AtWork, NEW status \in {"failed", "cancelled"},
         NEW n \in Nat, NEW files \in SUBSET File, NEW unnoted \in SUBSET File,
         Abort(j, status, n, files, unnoted), files \ Removed(j, n) \subseteq unnoted
  PROVE  Good
<1> DEFINE job == [Ended(mem[j], status) EXCEPT !.path = NoFile]
<1>1. mem[j] \in ExportJob /\ clock \in Times
  BY JobTypes DEF IInv
<1>2. PICK over \in ExportJob : /\ over = Ended(mem[j], status) /\ over.status = status
                                /\ over.ended = clock
  BY <1>1, EndedFields DEF Statuses, Terminal
<1>3. job \in ExportJob /\ job.status = status /\ job.ended = clock /\ job.path = NoFile
  BY <1>2, PathFields
<1>4. /\ EndTask(j, job) /\ disk' = [disk EXCEPT ![j] = files \ Removed(j, n)]
      /\ lost' = [lost EXCEPT ![j] = unnoted]
  BY DEF Abort
<1>5. files \ Removed(j, n) \in SUBSET File
  OBVIOUS
<1> HIDE DEF job
<1> QED BY <1>3, <1>4, <1>5, EndTaskHolds

\* Where the job of a task at work stands.
LEMMA AtWorkFacts ==
  ASSUME IInv, NEW j \in Jobs, pc[j] \in AtWork
  PROVE  /\ row[j] \in ExportJob /\ mem[j] \in ExportJob
         /\ row[j].status = "running" /\ mem[j].status = "running" /\ row[j].path = NoFile
         /\ parts[j] \in 0..MaxParts /\ disk[j] \in SUBSET File /\ lost[j] \in SUBSET File
         /\ (pc[j] # "named" /\ j \in listed => mem[j].path = NoFile)
         /\ FilesKnown(row[j], mem[j], pc[j], parts[j], disk[j])
         /\ EntryAgrees(row[j], mem[j], j \in listed, pc[j])
         /\ TaskOwns(row[j], mem[j], j \in listed, pc[j])
<1>1. TypeOK /\ JobOK(row[j], mem[j], j \in listed, pc[j], parts[j], disk[j], lost[j], clock)
  BY DEF IInv, JobsOK
<1>2. /\ row[j].status = "running" /\ mem[j].status = "running" /\ row[j].path = NoFile
  BY <1>1 DEF JobOK, TaskOwns, RowNames
<1> QED BY <1>1, <1>2, JobTypes DEF JobOK, EntryAgrees

\* A step of a task at work that changes neither the row nor the job object.
LEMMA WorkMoves ==
  ASSUME IInv, NEW j \in Jobs, TaskOnly, pc[j] \in AtWork, UNCHANGED <<row, mem, lost>>,
         NEW p \in AtWork \ {"named"}, pc' = [pc EXCEPT ![j] = p],
         NEW n \in 0..MaxParts, parts' = [parts EXCEPT ![j] = n],
         NEW d \in SUBSET File, disk' = [disk EXCEPT ![j] = d],
         pc[j] # "named", FilesKnown(row[j], mem[j], p, n, d)
  PROVE  Good
<1>1. /\ row' = [row EXCEPT ![j] = row[j]] /\ mem' = [mem EXCEPT ![j] = mem[j]]
      /\ lost' = [lost EXCEPT ![j] = lost[j]]
  BY DEF IInv, TypeOK
<1>2. JobOK(row[j], mem[j], j \in listed, p, n, d, lost[j], clock)
  <2>1. /\ EntryAgrees(row[j], mem[j], j \in listed, p)
        /\ TaskOwns(row[j], mem[j], j \in listed, p)
    BY AtWorkFacts DEF EntryAgrees, TaskOwns, AtWork
  <2>2. RowNames(row[j], p, d, clock) /\ Owned(row[j], p, d, lost[j])
    BY AtWorkFacts DEF RowNames, Owned, AtWork
  <2> QED BY <2>1, <2>2 DEF JobOK
<1>3. row[j].path \notin d /\ row[j].status # "absent" /\ row[j].status \notin Terminal
  BY AtWorkFacts, Names DEF Terminal
<1> QED BY <1>1, <1>2, <1>3, AtWorkFacts, TaskMoves

LEMMA StartHolds ==
  ASSUME IInv, NEW j \in Jobs, Start(j)
  PROVE  Good
<1> DEFINE job == IF detached THEN [row[j] EXCEPT !.payload = TRUE] ELSE mem[j]
           running == [job EXCEPT !.status = "running"]
<1>1. /\ TypeOK /\ row[j] \in ExportJob /\ mem[j] \in ExportJob /\ pc[j] = "start"
      /\ JobOK(row[j], mem[j], j \in listed, pc[j], parts[j], disk[j], lost[j], clock)
      /\ disk[j] = {} /\ parts[j] = 0 /\ lost[j] \in SUBSET File /\ 0 \in 0..MaxParts
  BY JobTypes DEF IInv, JobsOK, Start, JobOK, FilesKnown
<1>2. UNCHANGED <<parts, lost>> /\ TaskOnly
  BY DEF Start
<1>3. parts' = [parts EXCEPT ![j] = 0] /\ lost' = [lost EXCEPT ![j] = lost[j]]
  BY <1>1, <1>2 DEF TypeOK
<1>4. /\ job \in ExportJob
      /\ detached => job.status = row[j].status /\ job.path = row[j].path
      /\ ~detached => job = mem[j]
  <2>1. CASE detached
    BY <1>1, <2>1 DEF ExportJob
  <2>2. CASE ~detached
    BY <1>1, <2>2
  <2> QED BY <2>1, <2>2
<1>5. CASE (~detached /\ j \notin listed) \/ ~job.payload
  <2>1. pc' = [pc EXCEPT ![j] = "none"] /\ UNCHANGED <<row, mem, disk>>
    BY <1>5 DEF Start
  <2>2. /\ row' = [row EXCEPT ![j] = row[j]] /\ mem' = [mem EXCEPT ![j] = mem[j]]
        /\ disk' = [disk EXCEPT ![j] = {}]
    BY <1>1, <2>1 DEF TypeOK
  <2>3. row[j].status # "absent"
    BY <1>1 DEF JobOK, TaskOwns
  <2>4. JobOK(row[j], mem[j], j \in listed, "none", 0, {}, lost[j], clock)
    BY <1>1 DEF JobOK, EntryAgrees, TaskOwns, FilesKnown, RowNames, Owned, AtWork
  <2>5. PICK d \in SUBSET File : d = {}
    OBVIOUS
  <2>6. PICK r \in ExportJob, m \in ExportJob, t \in SUBSET File :
          r = row[j] /\ m = mem[j] /\ t = lost[j]
    BY <1>1
  <2>7. /\ row' = [row EXCEPT ![j] = r] /\ mem' = [mem EXCEPT ![j] = m]
        /\ lost' = [lost EXCEPT ![j] = t] /\ r.status # "absent"
        /\ disk' = [disk EXCEPT ![j] = d]
        /\ JobOK(r, m, j \in listed, "none", 0, d, t, clock)
    BY <1>3, <2>2, <2>3, <2>4, <2>5, <2>6
  <2>8. r.path \notin d /\ (row[j].status \in Terminal => r.status = row[j].status)
    BY <2>5, <2>6
  <2> HIDE DEF job, running
  <2> QED BY <1>1, <1>2, <1>3, <2>1, <2>6, <2>7, <2>8, TaskMoves
<1>6. CASE ~((~detached /\ j \notin listed) \/ ~job.payload)
  <2> DEFINE d == IF job.split THEN {} ELSE {Stream}
  <2>1. /\ mem' = [mem EXCEPT ![j] = running] /\ row' = Upsert(row, j, running)
        /\ pc' = [pc EXCEPT ![j] = "write"]
        /\ disk' = [disk EXCEPT ![j] = IF job.split THEN @ ELSE @ \cup {Stream}]
    BY <1>6 DEF Start
  <2>2. disk' = [disk EXCEPT ![j] = d] /\ d \in SUBSET File
    BY <1>1, <2>1, Names
  <2> HIDE DEF job
  <2>3. /\ running \in ExportJob /\ running.status = "running" /\ running.split = job.split
        /\ running.path = job.path /\ running.ended = job.ended
    BY <1>4, RunningFields
  <2>4. row[j].status \in Active /\ job.path = NoFile
    <3>1. CASE detached
      BY <1>1, <1>4, <3>1 DEF JobOK, TaskOwns, RowNames, Active
    <3>2. CASE ~detached
      <4>1. j \in listed /\ mem[j].payload
        BY <1>6, <3>2 DEF job
      <4>2. row[j].status = "pending" /\ mem[j].path = row[j].path
        BY <1>1, <4>1 DEF JobOK, TaskOwns, EntryAgrees
      <4> QED BY <1>1, <1>4, <3>2, <4>2 DEF JobOK, RowNames, Active
    <3> QED BY <3>1, <3>2
  <2> HIDE DEF running, d
  <2>5. PICK r \in ExportJob : /\ r = Stored(row[j], running) /\ r.status = "running"
                               /\ r.path = NoFile /\ r.ended = running.ended
    BY <1>1, <2>3, <2>4, StoredFields
  <2>6. row' = [row EXCEPT ![j] = r]
    BY <2>1, <2>5, UpsertIs
  <2>7. JobOK(r, running, j \in listed, "write", 0, d, lost[j], clock)
    <3>1. EntryAgrees(r, running, j \in listed, "write")
      BY <2>3, <2>4, <2>5 DEF EntryAgrees
    <3>2. TaskOwns(r, running, j \in listed, "write")
      BY <1>6, <2>3, <2>5 DEF TaskOwns, AtWork
    <3>3. FilesKnown(r, running, "write", 0, d)
      BY <2>3, <2>5 DEF FilesKnown, d
    <3>4. RowNames(r, "write", d, clock) /\ Owned(r, "write", d, lost[j])
      BY <2>5 DEF RowNames, Owned
    <3> QED BY <3>1, <3>2, <3>3, <3>4 DEF JobOK
  <2>8. r.status # "absent" /\ row[j].status \notin Terminal /\ r.path \notin d
    BY <2>2, <2>4, <2>5, Names DEF Active, Terminal
  <2> QED BY <1>1, <1>2, <1>3, <2>1, <2>2, <2>3, <2>5, <2>6, <2>7, <2>8, TaskMoves DEF AtWork
<1> QED BY <1>5, <1>6

LEMMA OpenPartHolds ==
  ASSUME IInv, NEW j \in Jobs, OpenPart(j)
  PROVE  Good
<1>1. /\ pc[j] = "write" /\ mem[j].split /\ parts[j] < MaxParts
      /\ disk' = [disk EXCEPT ![j] = @ \cup {parts[j] + 1}]
      /\ UNCHANGED <<row, mem, pc, parts, lost>> /\ TaskOnly
  BY DEF OpenPart
<1>2. pc[j] \in AtWork /\ "write" \in AtWork \ {"named"}
  BY <1>1 DEF AtWork
<1>3. /\ parts[j] \in 0..MaxParts /\ disk[j] \in SUBSET File
      /\ FilesKnown(row[j], mem[j], pc[j], parts[j], disk[j])
      /\ row[j].status # "absent"
  BY <1>2, AtWorkFacts
<1>4. disk[j] \subseteq 1..(parts[j] + 1) /\ disk[j] \subseteq 1..MaxParts
  BY <1>1, <1>3 DEF FilesKnown
<1>5. parts[j] + 1 \in 1..(parts[j] + 1) /\ parts[j] + 1 \in 1..MaxParts
  BY <1>1, <1>3, DownloadsAssumption
<1>6. PICK d \in SUBSET File : d = disk[j] \cup {parts[j] + 1}
  BY <1>3, <1>5, Names
<1>7. FilesKnown(row[j], mem[j], "write", parts[j], d)
  BY <1>1, <1>3, <1>4, <1>5, <1>6 DEF FilesKnown
<1>8. /\ pc' = [pc EXCEPT ![j] = "write"] /\ parts' = [parts EXCEPT ![j] = parts[j]]
      /\ disk' = [disk EXCEPT ![j] = d]
  BY <1>1, <1>6 DEF IInv, TypeOK
<1> QED BY <1>1, <1>2, <1>3, <1>7, <1>8, WorkMoves

\* The parts taken over, and the one in hand, are those the task removes.
LEMMA YieldPartHolds ==
  ASSUME IInv, NEW j \in Jobs, YieldPart(j)
  PROVE  Good
<1>1. /\ pc[j] = "write" /\ parts[j] + 1 \in disk[j] /\ TaskOnly
      /\ \/ Abort(j, "cancelled", parts[j] + 1, disk[j], {})
         \/ /\ parts' = [parts EXCEPT ![j] = @ + 1]
            /\ UNCHANGED <<row, mem, disk, pc, lost>>
  BY DEF YieldPart
<1>2. pc[j] \in AtWork /\ "write" \in AtWork \ {"named"}
  BY <1>1 DEF AtWork
<1>3. /\ parts[j] \in 0..MaxParts /\ parts[j] \in Nat /\ disk[j] \in SUBSET File
      /\ FilesKnown(row[j], mem[j], pc[j], parts[j], disk[j]) /\ row[j].status # "absent"
      /\ mem[j].split \in BOOLEAN
  BY <1>2, AtWorkFacts, DownloadsAssumption DEF ExportJob
<1>4. mem[j].split
  <2>1. ~mem[j].split => parts[j] = 0 /\ disk[j] = {Stream}
    BY <1>1, <1>3 DEF FilesKnown
  <2> QED BY <1>1, <2>1, Names
<1>5. disk[j] \subseteq 1..(parts[j] + 1) /\ disk[j] \subseteq 1..MaxParts
  BY <1>1, <1>3, <1>4 DEF FilesKnown
<1>6. CASE Abort(j, "cancelled", parts[j] + 1, disk[j], {})
  <2>1. disk[j] \ Removed(j, parts[j] + 1) \subseteq {} /\ parts[j] + 1 \in Nat
    BY <1>3, <1>4, <1>5 DEF Removed
  <2>2. PICK unnoted \in SUBSET File : unnoted = {}
    OBVIOUS
  <2> QED BY <1>1, <1>2, <1>3, <1>6, <2>1, <2>2, AbortHolds
<1>7. CASE /\ parts' = [parts EXCEPT ![j] = @ + 1]
           /\ UNCHANGED <<row, mem, disk, pc, lost>>
  <2>1. PICK n \in 0..MaxParts : n = parts[j] + 1
    BY <1>1, <1>3, <1>5, DownloadsAssumption
  <2>2. disk[j] \subseteq 1..(n + 1)
    BY <1>3, <1>5, <2>1
  <2>3. FilesKnown(row[j], mem[j], "write", n, disk[j])
    BY <1>3, <1>4, <1>5, <2>2 DEF FilesKnown
  <2>4. /\ pc' = [pc EXCEPT ![j] = "write"] /\ parts' = [parts EXCEPT ![j] = n]
        /\ disk' = [disk EXCEPT ![j] = disk[j]]
    BY <1>1, <1>7, <2>1 DEF IInv, TypeOK
  <2> QED BY <1>1, <1>2, <1>3, <1>7, <2>3, <2>4, WorkMoves
<1> QED BY <1>1, <1>6, <1>7

LEMMA StreamRaisesHolds ==
  ASSUME IInv, NEW j \in Jobs, StreamRaises(j)
  PROVE  Good
<1>1. PICK status \in {"failed", "cancelled"} :
        Abort(j, status, parts[j], disk[j], OpenFile(j))
  BY DEF StreamRaises
<1>2. pc[j] \in AtWork /\ pc[j] = "write" /\ TaskOnly
  BY DEF StreamRaises, AtWork
<1>3. /\ parts[j] \in Nat /\ disk[j] \in SUBSET File
      /\ FilesKnown(row[j], mem[j], pc[j], parts[j], disk[j])
  BY <1>2, AtWorkFacts, DownloadsAssumption
<1>4. OpenFile(j) \in SUBSET File
  BY <1>3 DEF OpenFile
<1>5. disk[j] \ Removed(j, parts[j]) \subseteq OpenFile(j)
  BY <1>2, <1>3 DEF OpenFile, Removed, FilesKnown
<1> QED BY <1>1, <1>2, <1>3, <1>4, <1>5, AbortHolds

LEMMA StreamEndsHolds ==
  ASSUME IInv, NEW j \in Jobs, StreamEnds(j)
  PROVE  Good
<1>1. /\ pc[j] = "write" /\ (mem[j].split => parts[j] > 0 /\ disk[j] = 1..parts[j])
      /\ pc' = [pc EXCEPT ![j] = "ready"]
      /\ UNCHANGED <<row, mem, parts, disk, lost>> /\ TaskOnly
  BY DEF StreamEnds
<1>2. pc[j] \in AtWork /\ "ready" \in AtWork \ {"named"}
  BY <1>1 DEF AtWork
<1>3. /\ parts[j] \in 0..MaxParts /\ disk[j] \in SUBSET File
      /\ FilesKnown(row[j], mem[j], pc[j], parts[j], disk[j])
      /\ row[j].status # "absent"
  BY <1>2, AtWorkFacts
<1>4. FilesKnown(row[j], mem[j], "ready", parts[j], disk[j])
  BY <1>1, <1>3 DEF FilesKnown
<1>5. parts' = [parts EXCEPT ![j] = parts[j]] /\ disk' = [disk EXCEPT ![j] = disk[j]]
  BY <1>1 DEF IInv, TypeOK
<1> QED BY <1>1, <1>2, <1>3, <1>4, <1>5, WorkMoves

LEMMA NameHolds ==
  ASSUME IInv, NEW j \in Jobs, Name(j), TaskOnly, pc[j] = "ready"
  PROVE  Good
<1>1. pc[j] \in AtWork
  BY DEF AtWork
<1>2. PICK file \in File :
        /\ mem' = [mem EXCEPT ![j].path = file] /\ disk' = [disk EXCEPT ![j] = {file}]
        /\ pc' = [pc EXCEPT ![j] = "named"] /\ UNCHANGED <<row, parts, lost>>
  BY Names DEF Name
<1>3. /\ row[j] \in ExportJob /\ mem[j] \in ExportJob /\ parts[j] \in 0..MaxParts
      /\ lost[j] \in SUBSET File /\ row[j].status = "running" /\ mem[j].status = "running"
      /\ row[j].path = NoFile
  BY <1>1, AtWorkFacts
<1>4. PICK m \in ExportJob : /\ m = [mem[j] EXCEPT !.path = file] /\ m.status = mem[j].status
                             /\ m.ended = mem[j].ended /\ m.path = file
  <2>1. /\ [mem[j] EXCEPT !.path = file] \in ExportJob
        /\ [mem[j] EXCEPT !.path = file].status = mem[j].status
        /\ [mem[j] EXCEPT !.path = file].ended = mem[j].ended
        /\ [mem[j] EXCEPT !.path = file].path = file
    BY <1>3, PathFields
  <2> QED BY <2>1
<1>5. /\ mem' = [mem EXCEPT ![j] = m] /\ row' = [row EXCEPT ![j] = row[j]]
      /\ parts' = [parts EXCEPT ![j] = parts[j]] /\ lost' = [lost EXCEPT ![j] = lost[j]]
  BY <1>2, <1>4 DEF IInv, TypeOK
<1>6. PICK d \in SUBSET File : d = {file}
  BY <1>2
<1>7. JobOK(row[j], m, j \in listed, "named", parts[j], d, lost[j], clock)
  <2>1. EntryAgrees(row[j], m, j \in listed, "named")
    BY <1>1, <1>4, AtWorkFacts DEF EntryAgrees
  <2>2. TaskOwns(row[j], m, j \in listed, "named")
    BY <1>1, <1>3, <1>4, AtWorkFacts DEF TaskOwns, AtWork
  <2>3. FilesKnown(row[j], m, "named", parts[j], d)
    BY <1>3, <1>4, <1>6 DEF FilesKnown
  <2>4. RowNames(row[j], "named", d, clock) /\ Owned(row[j], "named", d, lost[j])
    BY <1>3 DEF RowNames, Owned
  <2> QED BY <2>1, <2>2, <2>3, <2>4 DEF JobOK
<1>8. row[j].path \notin d /\ row[j].status # "absent" /\ "named" \in {"none"} \cup AtWork
  BY <1>3, Names DEF AtWork
<1> QED BY <1>2, <1>3, <1>5, <1>6, <1>7, <1>8, TaskMoves

LEMMA NameFileHolds ==
  ASSUME IInv, NEW j \in Jobs, NameFile(j)
  PROVE  Good
<1>1. pc[j] = "ready" /\ pc[j] \in AtWork /\ TaskOnly
  BY DEF NameFile, AtWork
<1>2. /\ parts[j] \in Nat /\ disk[j] \in SUBSET File
      /\ FilesKnown(row[j], mem[j], pc[j], parts[j], disk[j])
  BY <1>1, AtWorkFacts, DownloadsAssumption
<1>3. \/ Name(j)
      \/ ~mem[j].split /\ Abort(j, "cancelled", parts[j], disk[j], {Stream})
      \/ mem[j].split /\ Abort(j, "failed", parts[j], disk[j] \cup {Zip}, {Zip})
  BY DEF NameFile
<1>4. CASE Name(j)
  BY <1>1, <1>4, NameHolds
<1>5. CASE ~mem[j].split /\ Abort(j, "cancelled", parts[j], disk[j], {Stream})
  <2>1. PICK unnoted \in SUBSET File : unnoted = {Stream}
    BY Names
  <2>2. disk[j] \ Removed(j, parts[j]) \subseteq unnoted
    BY <1>1, <1>2, <1>5, <2>1 DEF FilesKnown
  <2> QED BY <1>1, <1>2, <1>5, <2>1, <2>2, AbortHolds
<1>6. CASE mem[j].split /\ Abort(j, "failed", parts[j], disk[j] \cup {Zip}, {Zip})
  <2>1. PICK unnoted \in SUBSET File : unnoted = {Zip}
    BY Names
  <2>2. PICK files \in SUBSET File : files = disk[j] \cup {Zip}
    BY <1>2, Names
  <2>3. files \ Removed(j, parts[j]) \subseteq unnoted
    BY <1>1, <1>2, <1>6, <2>1, <2>2 DEF FilesKnown, Removed
  <2> QED BY <1>1, <1>2, <1>6, <2>1, <2>2, <2>3, AbortHolds
<1> QED BY <1>3, <1>4, <1>5, <1>6

LEMMA CompleteHolds ==
  ASSUME IInv, NEW j \in Jobs, Complete(j)
  PROVE  Good
<1>1. pc[j] = "named" /\ pc[j] \in AtWork /\ TaskOnly
  BY DEF Complete, AtWork
<1>2. /\ parts[j] \in Nat /\ disk[j] \in SUBSET File /\ lost[j] \in SUBSET File
      /\ mem[j] \in ExportJob /\ disk[j] = {mem[j].path} /\ clock \in Times
  BY <1>1, AtWorkFacts, JobTypes, DownloadsAssumption DEF FilesKnown, IInv
<1>3. \/ Abort(j, "cancelled", parts[j], disk[j], {})
      \/ EndTask(j, Ended(mem[j], "completed")) /\ UNCHANGED <<disk, lost>>
  BY DEF Complete
<1>4. CASE Abort(j, "cancelled", parts[j], disk[j], {})
  <2>1. PICK unnoted \in SUBSET File : unnoted = {}
    OBVIOUS
  <2>2. disk[j] \ Removed(j, parts[j]) \subseteq unnoted
    BY <1>2, <2>1 DEF Removed
  <2> QED BY <1>1, <1>2, <1>4, <2>1, <2>2, AbortHolds
<1>5. CASE EndTask(j, Ended(mem[j], "completed")) /\ UNCHANGED <<disk, lost>>
  <2>1. PICK job \in ExportJob : /\ job = Ended(mem[j], "completed")
                                 /\ job.status = "completed" /\ job.ended = clock
                                 /\ job.path = mem[j].path
    BY <1>2, EndedFields DEF Statuses, Terminal
  <2>2. PICK d \in SUBSET File, t \in SUBSET File : d = disk[j] /\ t = lost[j]
    BY <1>2
  <2>3. disk' = [disk EXCEPT ![j] = d] /\ lost' = [lost EXCEPT ![j] = t]
    BY <1>5, <2>2 DEF IInv, TypeOK
  <2>4. EndTask(j, job) /\ d = {job.path}
    BY <1>2, <1>5, <2>1, <2>2
  <2> QED BY <1>1, <2>1, <2>3, <2>4, EndTaskHolds
<1> QED BY <1>3, <1>4, <1>5

LEMMA TaskHolds ==
  ASSUME IInv, NEW j \in Jobs, Task(j)
  PROVE  Good
BY StartHolds, OpenPartHolds, YieldPartHolds, StreamRaisesHolds, StreamEndsHolds,
   NameFileHolds, CompleteHolds DEF Task

-----------------------------------------------------------------------------
(***************************************************************************)
(* The handlers, which begin with the sweep                                *)
(***************************************************************************)
LEMMA CleanupTypes ==
  ASSUME IInv, ~LoopBusy
  PROVE  /\ Cleanup.mem \in [Jobs -> ExportJob] /\ Cleanup.row \in [Jobs -> ExportJob]
         /\ Cleanup.disk \in [Jobs -> SUBSET File] /\ Cleanup.listed \subseteq listed
<1>1. ASSUME NEW j \in Jobs
      PROVE  /\ Cleanup.mem[j] \in ExportJob /\ Cleanup.row[j] \in ExportJob
             /\ Cleanup.disk[j] \in SUBSET File
  <2>1. disk[j] \subseteq File
    BY JobTypes DEF IInv
  <2> QED BY <2>1, SweepHolds DEF Swept
<1>2. \E fm, fr, fd : /\ Cleanup.mem = [j \in Jobs |-> fm[j]]
                      /\ Cleanup.row = [j \in Jobs |-> fr[j]]
                      /\ Cleanup.disk = [j \in Jobs |-> fd[j]]
  <2> DEFINE m == [j \in Jobs |-> IF j \in Unclaimed THEN Expire(mem[j]) ELSE mem[j]]
             r == [j \in Jobs |-> IF j \in Unclaimed THEN Upsert(row, j, m[j])[j] ELSE row[j]]
             old == StaleRows(r)
             gone == Unclaimed \cup Forgotten
             cm == [j \in Jobs |-> IF j \in gone THEN Absent ELSE m[j]]
             cr == [j \in Jobs |-> IF j \in old THEN [r[j] EXCEPT !.path = NoFile] ELSE r[j]]
             cd == [j \in Jobs |-> disk[j] \ ((IF j \in Forgotten THEN {mem[j].path} ELSE {})
                                       \cup (IF j \in old THEN {r[j].path} ELSE {}))]
  <2>1. Cleanup = [mem |-> cm, listed |-> listed \ gone, row |-> cr, disk |-> cd]
    BY DEF Cleanup
  <2>2. cm = [j \in Jobs |-> cm[j]] /\ cr = [j \in Jobs |-> cr[j]] /\ cd = [j \in Jobs |-> cd[j]]
    OBVIOUS
  <2> HIDE DEF cm, cr, cd
  <2>3. Cleanup.mem = cm /\ Cleanup.row = cr /\ Cleanup.disk = cd
    BY <2>1
  <2> QED BY <2>2, <2>3
<1>3. Cleanup.listed \subseteq listed
  BY DEF Cleanup
<1> QED BY <1>1, <1>2, <1>3

\* A job after the sweep, and what a handler then makes of its row.
LEMMA SweptJob ==
  ASSUME IInv, ~LoopBusy, NEW j \in Jobs, UNCHANGED <<detached, clock>>, swept' = clock,
         pc'[j] = pc[j], parts'[j] = parts[j], lost'[j] = lost[j],
         NEW r \in ExportJob, row'[j] = r, NEW m \in ExportJob, mem'[j] = m,
         disk'[j] = Cleanup.disk[j], j \in listed' <=> j \in Cleanup.listed,
         JobOK(r, m, j \in Cleanup.listed, pc[j], parts[j], Cleanup.disk[j], lost[j], clock),
         r.status = "absent" => row[j].status = "absent",
         row[j].status \in Terminal => r.status = row[j].status,
         r.path \in File => r.path = Cleanup.row[j].path /\ r.ended = Cleanup.row[j].ended
  PROVE  JobStep(j)
<1>1. Swept(j, Cleanup.mem[j], j \in Cleanup.listed, Cleanup.row[j], Cleanup.disk[j])
  BY SweepHolds
<1>2. JobOK(row[j], mem[j], j \in listed, pc[j], parts[j], disk[j], lost[j], clock)'
  BY DEF JobOK, EntryAgrees, TaskOwns, FilesKnown, RowNames, Owned
<1>3. ASSUME r.path \in Cleanup.disk[j], clock > r.ended + HistoryTTL
      PROVE  row[j].status # "absent" /\ j \notin Newest(row)
  <2>1. Cleanup.disk[j] \subseteq disk[j] /\ disk[j] \subseteq File
    BY <1>1, JobTypes DEF Swept, IInv
  <2>2. j \notin Newest(row)
    BY <1>1, <1>3, <2>1 DEF Swept
  <2>3. row[j].status = "absent" => disk[j] = {}
    BY DEF IInv, JobsOK, JobOK, FilesKnown
  <2> QED BY <1>3, <2>1, <2>2, <2>3
<1> QED BY <1>2, <1>3 DEF JobStep, Settles

\* A job to which nothing happens but the sweep.
LEMMA OnlySwept ==
  ASSUME IInv, ~LoopBusy, NEW j \in Jobs, UNCHANGED <<detached, clock>>, swept' = clock,
         pc'[j] = pc[j], parts'[j] = parts[j], lost'[j] = lost[j],
         row'[j] = Cleanup.row[j], mem'[j] = Cleanup.mem[j],
         disk'[j] = Cleanup.disk[j], j \in listed' <=> j \in Cleanup.listed
  PROVE  JobStep(j)
<1>1. Swept(j, Cleanup.mem[j], j \in Cleanup.listed, Cleanup.row[j], Cleanup.disk[j])
  BY SweepHolds
<1>2. PICK r \in ExportJob, m \in ExportJob : r = Cleanup.row[j] /\ m = Cleanup.mem[j]
  BY <1>1 DEF Swept
<1>3. /\ JobOK(r, m, j \in Cleanup.listed, pc[j], parts[j], Cleanup.disk[j], lost[j], clock)
      /\ r.status = "absent" => row[j].status = "absent"
      /\ row[j].status \in Terminal => r.status = row[j].status
      /\ row'[j] = r /\ mem'[j] = m
      /\ r.path = Cleanup.row[j].path /\ r.ended = Cleanup.row[j].ended
  BY <1>1, <1>2 DEF Swept
<1> QED BY <1>3, SweptJob

LEMMA PollHolds ==
  ASSUME IInv, Poll
  PROVE  Good
<1>1. /\ ~LoopBusy /\ swept' = clock /\ UNCHANGED <<detached, clock, pc, parts, lost, stops>>
      /\ mem' = Cleanup.mem /\ listed' = Cleanup.listed /\ disk' = Cleanup.disk
      /\ row' = [j \in Jobs |-> IF j \in Cleanup.listed THEN Upsert(Cleanup.row, j, Cleanup.mem[j])[j]
                                ELSE Cleanup.row[j]]
  BY DEF Poll
<1>2. ASSUME NEW j \in Jobs PROVE row'[j] \in ExportJob /\ JobStep(j)
  <2>1. Swept(j, Cleanup.mem[j], j \in Cleanup.listed, Cleanup.row[j], Cleanup.disk[j])
    BY <1>1, SweepHolds
  <2>2. CASE j \notin Cleanup.listed
    <3>1. row'[j] = Cleanup.row[j]
      BY <1>1, <2>2
    <3> QED BY <1>1, <2>1, <3>1, OnlySwept DEF Swept
  <2>3. CASE j \in Cleanup.listed
    <3>1. PICK m \in ExportJob, old \in ExportJob : m = Cleanup.mem[j] /\ old = Cleanup.row[j]
      BY <2>1 DEF Swept
    <3>2. Upsert(Cleanup.row, j, m)[j] = Stored(old, m)
      BY <1>1, <3>1, UpsertIs, CleanupTypes
    <3>3. PICK r \in ExportJob : /\ r = Stored(old, m) /\ r.status = m.status
                                 /\ r.ended = m.ended /\ r.path = m.path
      BY StoredFields
    <3>4. row'[j] = r /\ mem'[j] = m
      BY <1>1, <2>3, <3>1, <3>2, <3>3
    <3>5. pc[j] # "named"
      BY <1>1, <2>1, <2>3, JobTypes DEF Swept, LoopBusy, IInv
    <3>6. /\ JobOK(old, m, j \in Cleanup.listed, pc[j], parts[j], Cleanup.disk[j], lost[j], clock)
          /\ old.status = "absent" => row[j].status = "absent"
          /\ row[j].status \in Terminal => old.status = row[j].status
      BY <2>1, <3>1 DEF Swept
    <3>7. old.status = m.status /\ old.ended = m.ended /\ old.path = m.path
      BY <2>3, <3>5, <3>6 DEF JobOK, EntryAgrees
    <3>8. JobOK(r, m, j \in Cleanup.listed, pc[j], parts[j], Cleanup.disk[j], lost[j], clock)
      BY <3>3, <3>6, <3>7 DEF JobOK, EntryAgrees, TaskOwns, FilesKnown, RowNames, Owned
    <3>9. r.path = Cleanup.row[j].path /\ r.ended = Cleanup.row[j].ended
      BY <3>1, <3>3, <3>7
    <3> QED BY <1>1, <3>3, <3>4, <3>6, <3>7, <3>8, <3>9, SweptJob
  <2> QED BY <2>2, <2>3
<1>3. TypeOK'
  <2>1. row' \in [Jobs -> ExportJob]
    BY <1>1, <1>2
  <2> QED BY <1>1, <2>1, CleanupTypes DEF TypeOK, IInv
<1>4. swept' <= clock'
  BY <1>1, <1>3 DEF TypeOK, Times
<1> QED BY <1>2, <1>3, <1>4, Assemble

LEMMA CancelHolds ==
  ASSUME IInv, NEW j \in Jobs, Cancel(j)
  PROVE  Good
<1>1. /\ ~LoopBusy /\ swept' = clock /\ UNCHANGED <<detached, clock, pc, parts, lost, stops>>
      /\ listed' = Cleanup.listed /\ disk' = Cleanup.disk
  BY DEF Cancel
<1>2. Swept(j, Cleanup.mem[j], j \in Cleanup.listed, Cleanup.row[j], Cleanup.disk[j])
  BY <1>1, SweepHolds
<1>3. PICK job \in ExportJob, old \in ExportJob : job = Cleanup.mem[j] /\ old = Cleanup.row[j]
  BY <1>2 DEF Swept
<1>4. /\ JobOK(old, job, j \in Cleanup.listed, pc[j], parts[j], Cleanup.disk[j], lost[j], clock)
      /\ old.status = "absent" => row[j].status = "absent"
      /\ row[j].status \in Terminal => old.status = row[j].status
  BY <1>2, <1>3 DEF Swept
<1>5. clock \in Times
  BY DEF IInv, TypeOK
\* What the handler makes of the row and the object of the job.
<1>6. PICK r \in ExportJob, m \in ExportJob :
        /\ row' = [Cleanup.row EXCEPT ![j] = r] /\ mem' = [Cleanup.mem EXCEPT ![j] = m]
        /\ \/ /\ r.status = old.status /\ r.ended = old.ended /\ r.path = old.path
              /\ m.status = job.status /\ m.ended = job.ended /\ m.path = job.path
              /\ m.split = job.split /\ m.payload = job.payload
           \/ /\ j \in Cleanup.listed /\ job.status = "pending" /\ m.payload = FALSE
              /\ m.path = job.path /\ m.status = "cancelled" /\ m.ended = clock
              /\ r.status = "cancelled" /\ r.ended = clock /\ r.path = job.path
  <2> DEFINE stopped == IF job.status = "pending" THEN Withdrawn(job)
                        ELSE [job EXCEPT !.cancel = TRUE]
  <2>1. /\ Cleanup.row = [Cleanup.row EXCEPT ![j] = old]
        /\ Cleanup.mem = [Cleanup.mem EXCEPT ![j] = job]
    BY <1>1, <1>3, CleanupTypes
  <2>2. \/ j \in Cleanup.listed /\ mem' = Cleanup.mem /\ row' = Cleanup.row
        \/ /\ j \in Cleanup.listed /\ job.status \notin Terminal
           /\ mem' = [Cleanup.mem EXCEPT ![j] = stopped] /\ row' = Upsert(Cleanup.row, j, stopped)
        \/ /\ mem' = Cleanup.mem
           /\ row' = [Cleanup.row EXCEPT ![j].cancel = @ \/ Cleanup.row[j].status \in Active]
    BY <1>3 DEF Cancel
  <2>3. CASE mem' = Cleanup.mem /\ row' = Cleanup.row
    BY <2>1, <2>3
  <2>4. CASE /\ j \in Cleanup.listed
             /\ mem' = [Cleanup.mem EXCEPT ![j] = stopped] /\ row' = Upsert(Cleanup.row, j, stopped)
    <3>1. stopped \in ExportJob
      BY <1>5, WithdrawnFields, FlagFields
    <3>2. row' = [Cleanup.row EXCEPT ![j] = Stored(old, stopped)]
      BY <1>3, <2>4, UpsertIs
    <3>3. CASE job.status = "pending"
      <4>1. /\ stopped.status = "cancelled" /\ stopped.ended = clock
            /\ stopped.path = job.path /\ stopped.payload = FALSE
        BY <1>5, <3>3, WithdrawnFields
      <4> HIDE DEF stopped
      <4>2. PICK m \in ExportJob : m = stopped
        BY <3>1
      <4>3. PICK r \in ExportJob : /\ r = Stored(old, m) /\ r.status = m.status
                                   /\ r.ended = m.ended /\ r.path = m.path
        BY StoredFields
      <4> QED BY <2>4, <3>2, <3>3, <4>1, <4>2, <4>3
    <3>4. CASE job.status # "pending"
      <4>1. /\ stopped.status = job.status /\ stopped.ended = job.ended
            /\ stopped.path = job.path /\ stopped.payload = job.payload
            /\ stopped.split = job.split
        BY <3>4, FlagFields
      <4> HIDE DEF stopped
      <4>2. PICK m \in ExportJob : m = stopped
        BY <3>1
      <4>3. PICK r \in ExportJob : /\ r = Stored(old, m) /\ r.status = m.status
                                   /\ r.ended = m.ended /\ r.path = m.path
        BY StoredFields
      <4>4. pc[j] # "named"
        BY <1>1, <2>4, JobTypes DEF LoopBusy, IInv, Cleanup
      <4>5. old.status = job.status /\ old.ended = job.ended /\ old.path = job.path
        BY <1>4, <2>4, <4>4 DEF JobOK, EntryAgrees
      <4> QED BY <2>4, <3>2, <4>1, <4>2, <4>3, <4>5
    <3> QED BY <3>3, <3>4
  <2>5. CASE /\ mem' = Cleanup.mem
             /\ row' = [Cleanup.row EXCEPT ![j].cancel = @ \/ Cleanup.row[j].status \in Active]
    <3>1. PICK b \in BOOLEAN : b = (old.cancel \/ old.status \in Active)
      OBVIOUS
    <3>2. row' = [Cleanup.row EXCEPT ![j] = [old EXCEPT !.cancel = b]]
      BY <1>3, <2>5, <3>1
    <3>3. PICK r \in ExportJob : /\ r = [old EXCEPT !.cancel = b] /\ r.status = old.status
                                 /\ r.ended = old.ended /\ r.path = old.path
      <4>1. /\ [old EXCEPT !.cancel = b] \in ExportJob
            /\ [old EXCEPT !.cancel = b].status = old.status
            /\ [old EXCEPT !.cancel = b].ended = old.ended
            /\ [old EXCEPT !.cancel = b].path = old.path
        BY DEF ExportJob
      <4> QED BY <4>1
    <3> QED BY <2>1, <2>5, <3>2, <3>3
  <2> HIDE DEF stopped
  <2> QED BY <2>2, <2>3, <2>4, <2>5
<1>7. row'[j] = r /\ mem'[j] = m
  BY <1>1, <1>6, CleanupTypes
<1>8. JobStep(j)
  <2>1. CASE /\ r.status = old.status /\ r.ended = old.ended /\ r.path = old.path
             /\ m.status = job.status /\ m.ended = job.ended /\ m.path = job.path
             /\ m.split = job.split /\ m.payload = job.payload
    <3>1. JobOK(r, m, j \in Cleanup.listed, pc[j], parts[j], Cleanup.disk[j], lost[j], clock)
      BY <1>4, <2>1 DEF JobOK, EntryAgrees, TaskOwns, FilesKnown, RowNames, Owned
    <3>2. r.path = Cleanup.row[j].path /\ r.ended = Cleanup.row[j].ended
      BY <1>3, <2>1
    <3> QED BY <1>1, <1>4, <1>7, <2>1, <3>1, <3>2, SweptJob
  <2>2. CASE /\ j \in Cleanup.listed /\ job.status = "pending" /\ m.payload = FALSE
             /\ m.path = job.path /\ m.status = "cancelled" /\ m.ended = clock
             /\ r.status = "cancelled" /\ r.ended = clock /\ r.path = job.path
    <3>1. pc[j] # "named" /\ ~detached
      BY <1>1, <2>2, JobTypes DEF LoopBusy, IInv, Cleanup
    <3>2. old.status = "pending" /\ old.path = NoFile /\ job.path = NoFile
      BY <1>4, <2>2, <3>1 DEF JobOK, EntryAgrees, RowNames
    <3>3. JobOK(r, m, j \in Cleanup.listed, pc[j], parts[j], Cleanup.disk[j], lost[j], clock)
      <4>1. EntryAgrees(r, m, j \in Cleanup.listed, pc[j])
        BY <2>2 DEF EntryAgrees
      <4>2. pc[j] \notin AtWork
        BY <1>4, <2>2 DEF JobOK, TaskOwns
      <4>3. TaskOwns(r, m, j \in Cleanup.listed, pc[j])
        BY <2>2, <3>1, <4>2 DEF TaskOwns
      <4>4. FilesKnown(r, m, pc[j], parts[j], Cleanup.disk[j])
        BY <1>4, <2>2, <4>2 DEF JobOK, FilesKnown, AtWork
      <4>5. RowNames(r, pc[j], Cleanup.disk[j], clock)
        BY <2>2, <3>2 DEF RowNames
      <4>6. Owned(r, pc[j], Cleanup.disk[j], lost[j])
        BY <1>4, <2>2, <3>2 DEF JobOK, Owned
      <4> QED BY <4>1, <4>3, <4>4, <4>5, <4>6 DEF JobOK
    <3>4. row[j].status \notin Terminal /\ r.path \notin File /\ r.status # "absent"
      BY <1>4, <2>2, <3>2, Names DEF Terminal
    <3> QED BY <1>1, <1>7, <3>3, <3>4, SweptJob
  <2> QED BY <1>6, <2>1, <2>2
<1>9. ASSUME NEW k \in Jobs, k # j PROVE JobStep(k)
  <2>1. row'[k] = Cleanup.row[k] /\ mem'[k] = Cleanup.mem[k]
    BY <1>1, <1>6, <1>9, CleanupTypes
  <2> QED BY <1>1, <2>1, OnlySwept
<1>10. TypeOK'
  BY <1>1, <1>6, CleanupTypes DEF TypeOK, IInv
<1>11. swept' <= clock'
  BY <1>1, <1>10 DEF TypeOK, Times
<1> QED BY <1>8, <1>9, <1>10, <1>11, Assemble

LEMMA CreateHolds ==
  ASSUME IInv, NEW j \in Jobs, NEW split \in BOOLEAN, Create(j, split)
  PROVE  Good
<1> DEFINE job == [Absent EXCEPT !.status = "pending", !.split = split, !.made = clock,
                                 !.payload = TRUE]
<1>1. /\ ~LoopBusy /\ swept' = clock /\ UNCHANGED <<detached, clock, parts, lost, stops>>
      /\ row[j].status = "absent" /\ disk' = Cleanup.disk
      /\ listed' = Enlist(Cleanup.listed, j)
  BY DEF Create
<1>2. clock \in Times
  BY DEF IInv, TypeOK
<1>3. /\ job \in ExportJob /\ job.status = "pending" /\ job.ended = Never
      /\ job.path = NoFile
  BY <1>2, DownloadsAssumption DEF Absent, ExportJob, Active, Times, Never, NoFile
<1>4. PICK launched \in BOOLEAN :
        /\ ~detached => launched
        /\ mem' = [Cleanup.mem EXCEPT ![j] = Left(job)]
        /\ row' = Upsert(Cleanup.row, j, IF launched THEN job ELSE Ended(job, "failed"))
        /\ pc' = [pc EXCEPT ![j] = IF launched THEN "start" ELSE "none"]
  BY DEF Create
<1> HIDE DEF job
<1>5. PICK old \in ExportJob : old = Cleanup.row[j]
  BY <1>1, CleanupTypes
<1>6. PICK m \in ExportJob : m = Left(job) /\ (~detached => m = job)
  BY <1>3, LeftFields
<1>7. PICK made \in ExportJob :
        /\ made = IF launched THEN job ELSE Ended(job, "failed")
        /\ made.status = IF launched THEN "pending" ELSE "failed"
        /\ launched => made.ended = Never
        /\ made.path = NoFile
  <2>1. CASE launched
    BY <1>3, <2>1
  <2>2. CASE ~launched
    BY <1>2, <1>3, <2>2, EndedFields DEF Statuses, Terminal
  <2> QED BY <2>1, <2>2
<1>8. PICK r \in ExportJob : /\ r = Stored(old, made) /\ r.status = made.status
                             /\ r.ended = made.ended /\ r.path = made.path
  BY StoredFields
<1>9. PICK p \in {"start", "none"} : p = IF launched THEN "start" ELSE "none"
  OBVIOUS
<1>10. /\ mem' = [Cleanup.mem EXCEPT ![j] = m] /\ row' = [Cleanup.row EXCEPT ![j] = r]
       /\ pc' = [pc EXCEPT ![j] = p]
  BY <1>4, <1>5, <1>6, <1>7, <1>8, <1>9, UpsertIs
<1>11. row'[j] = r /\ mem'[j] = m /\ pc'[j] = p
  BY <1>1, <1>10, CleanupTypes DEF IInv, TypeOK
<1>12. j \in listed' => ~detached
  BY <1>1, CleanupTypes DEF Enlist, IInv, TypeOK
<1>13. disk[j] = {} /\ parts[j] = 0
  BY <1>1 DEF IInv, JobsOK, JobOK, TaskOwns, FilesKnown
<1>14. disk'[j] = {} /\ parts'[j] = 0
  BY <1>1, <1>13, SweepHolds DEF Swept
<1>15. JobStep(j)
  <2>1. JobOK(r, m, j \in listed', p, 0, {}, lost[j], clock)
    <3>1. EntryAgrees(r, m, j \in listed', p)
      BY <1>3, <1>4, <1>6, <1>7, <1>8, <1>12 DEF EntryAgrees
    <3>2. TaskOwns(r, m, j \in listed', p)
      BY <1>3, <1>4, <1>6, <1>7, <1>8, <1>9, <1>12 DEF TaskOwns, AtWork, Active
    <3>3. FilesKnown(r, m, p, 0, {})
      BY DEF FilesKnown
    <3>4. RowNames(r, p, {}, clock) /\ Owned(r, p, {}, lost[j])
      BY <1>7, <1>8 DEF RowNames, Owned
    <3> QED BY <3>1, <3>2, <3>3, <3>4 DEF JobOK
  <2>2. JobOK(row[j], mem[j], j \in listed, pc[j], parts[j], disk[j], lost[j], clock)'
    BY <1>1, <1>11, <1>14, <2>1
       DEF JobOK, EntryAgrees, TaskOwns, FilesKnown, RowNames, Owned
  <2> QED BY <1>1, <1>14, <2>2 DEF JobStep, Settles, Terminal
<1>16. ASSUME NEW k \in Jobs, k # j PROVE JobStep(k)
  <2>1. row'[k] = Cleanup.row[k] /\ mem'[k] = Cleanup.mem[k] /\ pc'[k] = pc[k]
    BY <1>1, <1>10, <1>16, CleanupTypes DEF IInv, TypeOK
  <2>2. k \in listed' <=> k \in Cleanup.listed
    BY <1>1, <1>16 DEF Enlist
  <2> QED BY <1>1, <2>1, <2>2, OnlySwept
<1>17. TypeOK'
  <2>1. listed' \subseteq Jobs /\ (detached => listed' = {})
    BY <1>1, CleanupTypes DEF Enlist, IInv, TypeOK
  <2> QED BY <1>1, <1>10, <2>1, CleanupTypes DEF TypeOK, IInv
<1>18. swept' <= clock'
  BY <1>1, <1>17 DEF TypeOK, Times
<1> QED BY <1>15, <1>16, <1>17, <1>18, Assemble

-----------------------------------------------------------------------------
(***************************************************************************)
(* Time, and the loss of processes                                         *)
(***************************************************************************)
LEMMA TickHolds ==
  ASSUME IInv, Tick
  PROVE  Good
<1>1. /\ clock < MaxClock /\ clock' = clock + 1
      /\ UNCHANGED <<detached, row, mem, listed, pc, parts, disk, swept, lost, stops>>
  BY DEF Tick
<1>2. clock' \in Times /\ clock \in Nat /\ swept \in Nat
  BY <1>1, DownloadsAssumption DEF IInv, TypeOK, Times
<1>3. ASSUME NEW j \in Jobs PROVE JobStep(j)
  <2>1. /\ JobOK(row[j], mem[j], j \in listed, pc[j], parts[j], disk[j], lost[j], clock)
        /\ row[j].ended \in Nat
    BY JobTypes DEF IInv, JobsOK
  <2>2. RowNames(row[j], pc[j], disk[j], clock + 1)
    BY <1>2, <2>1, DownloadsAssumption DEF JobOK, RowNames
  <2>3. JobOK(row[j], mem[j], j \in listed, pc[j], parts[j], disk[j], lost[j], clock)'
    BY <1>1, <2>1, <2>2 DEF JobOK, EntryAgrees, TaskOwns, FilesKnown, RowNames, Owned
  <2>4. row[j].path \in disk[j] => row[j].status # "absent"
    BY <2>1 DEF JobOK, FilesKnown
  <2> QED BY <1>1, <2>3, <2>4 DEF JobStep, Settles, IInv, OldFilesAreHidden
<1>4. TypeOK' /\ swept' <= clock'
  BY <1>1, <1>2 DEF IInv, TypeOK
<1> QED BY <1>3, <1>4, Assemble

\* A job that a loss, or the start after it, leaves without a task: its row is
\* as it was, or that of an active job which has ended without a file.
LEMMA Stranded ==
  ASSUME IInv, NEW j \in Jobs, UNCHANGED <<detached, clock, swept>>, pc'[j] = "none",
         parts'[j] = 0, j \notin listed', NEW d \in SUBSET File, disk'[j] = d, d \subseteq disk[j],
         pc[j] # "none" => d \subseteq lost'[j], pc[j] = "none" => lost'[j] = lost[j] /\ d = disk[j],
         NEW r \in ExportJob, row'[j] = r,
         \/ r = row[j]
         \/ row[j].status \in Active /\ r.status \in Terminal \ {"completed"} /\ r.path = row[j].path
  PROVE  JobStep(j)
<1>1. /\ JobOK(row[j], mem[j], j \in listed, pc[j], parts[j], disk[j], lost[j], clock)
      /\ disk[j] \subseteq File
  BY JobTypes DEF IInv, JobsOK
<1>2. r = row[j] \/ row[j].path = NoFile
  BY <1>1 DEF JobOK, RowNames, Active
<1>3. JobOK(r, mem'[j], FALSE, "none", 0, d, lost'[j], clock)
  <2>1. EntryAgrees(r, mem'[j], FALSE, "none") /\ TaskOwns(r, mem'[j], FALSE, "none")
    BY DEF EntryAgrees, TaskOwns, AtWork
  <2>2. FilesKnown(r, mem'[j], "none", 0, d)
    BY <1>1 DEF JobOK, FilesKnown, Active, Terminal
  <2>3. RowNames(r, "none", d, clock)
    <3>1. CASE r = row[j]
      BY <1>1, <3>1 DEF JobOK, RowNames
    <3>2. CASE row[j].status \in Active /\ r.status \in Terminal \ {"completed"} /\ r.path = row[j].path
      BY <1>1, <3>2 DEF JobOK, RowNames, Active
    <3> QED BY <3>1, <3>2
  <2>4. Owned(r, "none", d, lost'[j])
    BY <1>1 DEF JobOK, Owned, Active
  <2> QED BY <2>1, <2>2, <2>3, <2>4 DEF JobOK
<1>4. JobOK(row[j], mem[j], j \in listed, pc[j], parts[j], disk[j], lost[j], clock)'
  BY <1>3 DEF JobOK, EntryAgrees, TaskOwns, FilesKnown, RowNames, Owned
<1>5. r.path \in d => r = row[j] /\ row[j].path \in disk[j] /\ row[j].status # "absent"
  BY <1>1, <1>2, Names DEF JobOK, FilesKnown
<1>6. r.status = "absent" => row[j].status = "absent"
  BY DEF Terminal
<1> QED BY <1>4, <1>5, <1>6 DEF JobStep, Settles, IInv, OldFilesAreHidden, Active, Terminal

\* What a start of the API, or the reaper, makes of a row.
LEMMA InterruptIs ==
  ASSUME NEW rows \in [Jobs -> ExportJob], NEW js \in SUBSET Jobs, NEW j \in Jobs, clock \in Times
  PROVE  /\ Interrupt(rows, js) \in [Jobs -> ExportJob]
         /\ IF j \in js /\ rows[j].status \in Active
            THEN /\ Interrupt(rows, js)[j].status = "interrupted"
                 /\ Interrupt(rows, js)[j].path = rows[j].path
            ELSE Interrupt(rows, js)[j] = rows[j]
<1>1. ASSUME NEW k \in Jobs
      PROVE  /\ Ended(rows[k], "interrupted") \in ExportJob
             /\ Ended(rows[k], "interrupted").status = "interrupted"
             /\ Ended(rows[k], "interrupted").path = rows[k].path
  BY EndedFields DEF Statuses, Terminal
<1> QED BY <1>1 DEF Interrupt

LEMMA KillWorkerHolds ==
  ASSUME IInv, NEW j \in Jobs, KillWorker(j)
  PROVE  Good
<1>1. /\ detached /\ pc[j] # "none" /\ stops < MaxStops
      /\ pc' = [pc EXCEPT ![j] = "none"] /\ mem' = [mem EXCEPT ![j] = Absent]
      /\ parts' = [parts EXCEPT ![j] = 0] /\ stops' = stops + 1
      /\ lost' = [lost EXCEPT ![j] = disk[j]]
      /\ UNCHANGED <<detached, clock, row, listed, disk, swept>>
  BY DEF KillWorker
<1>2. TypeOK /\ Absent \in ExportJob
  BY AbsentFields DEF IInv
<1>3. PICK d \in SUBSET File, r \in ExportJob : d = disk[j] /\ r = row[j]
  BY <1>2, JobTypes
<1>4. /\ pc'[j] = "none" /\ parts'[j] = 0 /\ lost'[j] = d /\ row'[j] = r /\ disk'[j] = d
      /\ j \notin listed'
  BY <1>1, <1>2, <1>3 DEF TypeOK
<1>5. JobStep(j)
  BY <1>1, <1>3, <1>4, Stranded
<1>6. ASSUME NEW k \in Jobs, k # j PROVE JobStep(k)
  <2>1. mem'[k] = mem[k] /\ pc'[k] = pc[k] /\ parts'[k] = parts[k] /\ lost'[k] = lost[k]
    BY <1>1, <1>2, <1>6 DEF TypeOK
  <2> QED BY <1>1, <2>1, Untouched
<1>7. TypeOK' /\ swept' <= clock'
  BY <1>1, <1>2, DownloadsAssumption DEF IInv, TypeOK
<1> QED BY <1>5, <1>6, <1>7, Assemble

LEMMA ReapHolds ==
  ASSUME IInv, NEW j \in Jobs, Reap(j)
  PROVE  Good
<1>1. /\ detached /\ pc[j] = "none" /\ row[j].status \in Active
      /\ row' = Interrupt(row, {j})
      /\ UNCHANGED <<detached, clock, mem, listed, pc, parts, disk, swept, lost, stops>>
  BY DEF Reap
<1>2. TypeOK /\ clock \in Times /\ row \in [Jobs -> ExportJob]
  BY DEF IInv, TypeOK
<1>3. /\ row' \in [Jobs -> ExportJob]
      /\ row'[j].status = "interrupted" /\ row'[j].path = row[j].path
      /\ \A k \in Jobs \ {j} : row'[k] = row[k]
  BY <1>1, <1>2, InterruptIs
<1>4. PICK d \in SUBSET File, r \in ExportJob : d = disk[j] /\ r = row'[j]
  BY <1>2, <1>3, JobTypes
<1>5. parts'[j] = 0 /\ j \notin listed' /\ disk'[j] = d /\ lost'[j] = lost[j] /\ pc'[j] = "none"
  BY <1>1, <1>2, <1>4, JobTypes DEF IInv, JobsOK, JobOK, FilesKnown
<1>6. JobStep(j)
  BY <1>1, <1>3, <1>4, <1>5, Stranded DEF Terminal
<1>7. ASSUME NEW k \in Jobs, k # j PROVE JobStep(k)
  <2>1. row'[k] = row[k]
    BY <1>3, <1>7
  <2> QED BY <1>1, <2>1, Untouched
<1>8. TypeOK' /\ swept' <= clock'
  BY <1>1, <1>2, <1>3 DEF IInv, TypeOK
<1> QED BY <1>6, <1>7, <1>8, Assemble

LEMMA NoTasksTypes ==
  ASSUME NoTasks
  PROVE  /\ listed' = {} /\ mem' \in [Jobs -> ExportJob]
         /\ pc' \in [Jobs -> {"none", "start", "write", "ready", "named"}]
         /\ parts' \in [Jobs -> 0..MaxParts]
         /\ \A j \in Jobs : pc'[j] = "none" /\ parts'[j] = 0
BY AbsentFields, DownloadsAssumption DEF NoTasks

LEMMA ApiKilledHolds ==
  ASSUME IInv, ApiKilled
  PROVE  Good
<1>1. /\ stops < MaxStops /\ stops' = stops + 1 /\ row' = Interrupt(row, Jobs) /\ NoTasks
      /\ lost' = [j \in Jobs |-> IF pc[j] = "none" THEN lost[j] ELSE disk[j]]
      /\ UNCHANGED <<detached, clock, disk, swept>>
  BY DEF ApiKilled, Recovered
<1>2. TypeOK /\ clock \in Times /\ row \in [Jobs -> ExportJob]
  BY DEF IInv, TypeOK
<1>3. row' \in [Jobs -> ExportJob]
  <2>1. CASE Jobs = {}
    BY <1>1, <2>1 DEF Interrupt
  <2>2. CASE Jobs # {}
    BY <1>1, <1>2, <2>2, InterruptIs
  <2> QED BY <2>1, <2>2
<1>4. ASSUME NEW j \in Jobs PROVE JobStep(j)
  <2>1. \/ row'[j] = row[j]
        \/ /\ row[j].status \in Active /\ row'[j].status = "interrupted"
           /\ row'[j].path = row[j].path
    BY <1>1, <1>2, InterruptIs
  <2>2. PICK d \in SUBSET File, r \in ExportJob : d = disk[j] /\ r = row'[j]
    BY <1>2, <1>3, JobTypes
  <2>3. lost'[j] = IF pc[j] = "none" THEN lost[j] ELSE d
    BY <1>1, <2>2
  <2>4. \/ r = row[j]
        \/ row[j].status \in Active /\ r.status \in Terminal \ {"completed"} /\ r.path = row[j].path
    BY <2>1, <2>2 DEF Terminal
  <2> QED BY <1>1, <2>2, <2>3, <2>4, NoTasksTypes, Stranded
<1>5. TypeOK' /\ swept' <= clock'
  <2>1. stops' \in 0..MaxStops
    BY <1>1, <1>2, DownloadsAssumption DEF TypeOK
  <2>2. lost' \in [Jobs -> SUBSET File]
    BY <1>1, <1>2 DEF TypeOK
  <2> QED BY <1>1, <1>2, <1>3, <2>1, <2>2, NoTasksTypes DEF IInv, TypeOK
<1> QED BY <1>4, <1>5, Assemble

LEMMA ApiStoppedHolds ==
  ASSUME IInv, ApiStopped
  PROVE  Good
<1> DEFINE writing == {j \in Jobs : pc[j] = "write"}
           stopped == [j \in Jobs |-> IF j \in writing THEN Ended(row[j], "cancelled") ELSE row[j]]
<1>1. /\ ~detached /\ ~LoopBusy /\ stops < MaxStops /\ stops' = stops + 1 /\ NoTasks
      /\ row' = Interrupt(stopped, Jobs)
      /\ disk' = [j \in Jobs |-> IF j \in writing
                    THEN disk[j] \ Removed(j, parts[j]) ELSE disk[j]]
      /\ lost' = [j \in Jobs |-> IF j \in writing THEN OpenFile(j) ELSE lost[j]]
      /\ UNCHANGED <<detached, clock, swept>>
  BY DEF ApiStopped, Recovered
<1>2. TypeOK /\ clock \in Times /\ row \in [Jobs -> ExportJob]
  BY DEF IInv, TypeOK
<1>3. /\ stopped \in [Jobs -> ExportJob]
      /\ \A j \in Jobs : IF j \in writing
           THEN stopped[j].status = "cancelled" /\ stopped[j].path = row[j].path
           ELSE stopped[j] = row[j]
  BY <1>2, EndedFields DEF Statuses, Terminal
<1> HIDE DEF stopped
<1>4. row' \in [Jobs -> ExportJob]
  <2>1. CASE Jobs = {}
    BY <1>1, <2>1 DEF Interrupt
  <2>2. CASE Jobs # {}
    BY <1>1, <1>2, <1>3, <2>2, InterruptIs
  <2> QED BY <2>1, <2>2
<1>5. ASSUME NEW j \in Jobs
      PROVE  /\ JobStep(j) /\ disk'[j] \in SUBSET File /\ lost'[j] \in SUBSET File
  <2>1. /\ disk[j] \in SUBSET File /\ lost[j] \in SUBSET File
        /\ JobOK(row[j], mem[j], j \in listed, pc[j], parts[j], disk[j], lost[j], clock)
    BY <1>2, JobTypes DEF IInv, JobsOK
  <2>2. PICK r \in ExportJob : r = row'[j]
    BY <1>4
  <2>3. CASE j \in writing
    <3>1. pc[j] = "write" /\ pc[j] \in AtWork
      BY <2>3 DEF AtWork
    <3>2. row[j].status \in Active /\ stopped[j].status = "cancelled" /\ stopped[j].path = row[j].path
      BY <1>3, <2>3, <3>1, AtWorkFacts DEF Active
    <3>3. r = stopped[j]
      BY <1>1, <1>2, <1>3, <2>2, <3>2, InterruptIs DEF Active
    <3>4. PICK d \in SUBSET File : d = disk[j] \ Removed(j, parts[j])
      BY <2>1
    <3>5. disk'[j] = d /\ lost'[j] = OpenFile(j)
      BY <1>1, <2>3, <3>4
    <3>6. d \subseteq OpenFile(j) /\ OpenFile(j) \in SUBSET File
      BY <2>1, <3>1, <3>4 DEF JobOK, FilesKnown, OpenFile, Removed
    <3>7. row[j].status \in Active /\ r.status \in Terminal \ {"completed"} /\ r.path = row[j].path
      BY <3>2, <3>3 DEF Terminal
    <3>8. d \subseteq disk[j]
      BY <3>4
    <3>9. JobStep(j)
      BY <1>1, <2>2, <3>1, <3>5, <3>6, <3>7, <3>8, NoTasksTypes, Stranded
    <3> QED BY <3>5, <3>6, <3>9
  <2>4. CASE j \notin writing
    <3>1. pc[j] \in {"none", "start"}
      BY <1>1, <1>2, <2>4 DEF LoopBusy, TypeOK
    <3>2. PICK d \in SUBSET File : d = disk[j]
      BY <2>1
    <3>3. disk'[j] = d /\ lost'[j] = lost[j]
      BY <1>1, <2>4, <3>2
    <3>4. pc[j] # "none" => d = {}
      BY <2>1, <3>1, <3>2 DEF JobOK, FilesKnown
    <3>5. \/ r = row[j]
          \/ /\ row[j].status \in Active /\ r.status \in Terminal \ {"completed"}
             /\ r.path = row[j].path
      BY <1>1, <1>2, <1>3, <2>2, <2>4, InterruptIs DEF Terminal
    <3>6. pc[j] # "none" => d \subseteq lost'[j]
      BY <3>4
    <3>7. JobStep(j)
      BY <1>1, <2>2, <3>2, <3>3, <3>5, <3>6, NoTasksTypes, Stranded
    <3> QED BY <2>1, <3>2, <3>3, <3>7
  <2> QED BY <2>3, <2>4
<1>6. TypeOK' /\ swept' <= clock'
  <2>1. stops' \in 0..MaxStops
    BY <1>1, <1>2, DownloadsAssumption DEF TypeOK
  <2>2. disk' \in [Jobs -> SUBSET File] /\ lost' \in [Jobs -> SUBSET File]
    BY <1>1, <1>5
  <2> QED BY <1>1, <1>2, <1>4, <2>1, <2>2, NoTasksTypes DEF IInv, TypeOK
<1> QED BY <1>5, <1>6, Assemble

-----------------------------------------------------------------------------
(***************************************************************************)
(* The theorems                                                            *)
(***************************************************************************)
LEMMA InitHolds == Init => IInv
<1> SUFFICES ASSUME Init PROVE IInv
  OBVIOUS
<1>1. TypeOK /\ swept <= clock
  BY AbsentFields, DownloadsAssumption DEF Init, TypeOK, Times
<1>2. JobsOK
  BY AbsentFields
     DEF Init, JobsOK, JobOK, EntryAgrees, TaskOwns, FilesKnown, RowNames, Owned, AtWork
<1>3. OldFilesAreHidden
  BY DEF Init, OldFilesAreHidden
<1> QED BY <1>1, <1>2, <1>3 DEF IInv

LEMMA StutterHolds ==
  ASSUME IInv, UNCHANGED vars
  PROVE  Good
<1>1. UNCHANGED <<detached, clock, row, mem, listed, pc, parts, disk, swept, lost, stops>>
  BY DEF vars
<1>2. \A j \in Jobs : JobStep(j)
  BY <1>1, Untouched
<1>3. TypeOK' /\ swept' <= clock'
  BY <1>1 DEF IInv, TypeOK
<1> QED BY <1>2, <1>3, Assemble

LEMMA StepHolds == IInv /\ [Next]_vars => Good
<1> SUFFICES ASSUME IInv, [Next]_vars PROVE Good
  OBVIOUS
<1>1. CASE Next
  BY <1>1, CreateHolds, CancelHolds, TaskHolds, KillWorkerHolds, ReapHolds, PollHolds,
     ApiKilledHolds, ApiStoppedHolds, TickHolds DEF Next
<1>2. CASE UNCHANGED vars
  BY <1>2, StutterHolds
<1> QED BY <1>1, <1>2

LEMMA Invariant == Spec => []IInv
<1>1. IInv /\ [Next]_vars => IInv'
  BY StepHolds DEF Good
<1> QED BY InitHolds, <1>1, PTL DEF Spec

\* Every variable of the downloads keeps its type.
THEOREM Types == Spec => []TypeOK
<1>1. IInv => TypeOK
  BY DEF IInv
<1> QED BY Invariant, <1>1, PTL

\* A prepared file is served for its whole TTL after the end of its job, and no
\* sweep that can see its row leaves it longer (cleanup_jobs, run_download_job).
THEOREM FilesFollow == Spec => []FilesFollowTTL
<1>1. IInv => FilesFollowTTL
  <2> SUFFICES ASSUME IInv PROVE FilesFollowTTL
    OBVIOUS
  <2>1. ASSUME NEW j \in Jobs, row[j].status = "completed", clock <= row[j].ended + HistoryTTL
        PROVE  Answer(row[j], disk[j]) = "file"
    <3>1. row[j].ended \in Nat /\ clock \in Nat
      BY JobTypes DEF IInv
    <3>2. row[j].path \in disk[j]
      BY <2>1, <3>1, DownloadsAssumption DEF IInv, JobsOK, JobOK, RowNames
    <3> QED BY <2>1, <3>2 DEF Answer, Active
  <2> QED BY <2>1 DEF IInv, FilesFollowTTL, ReadyIsServed
<1> QED BY Invariant, <1>1, PTL

\* A temporary file of a job with no task is named by its completed row, or is
\* one that its task let go of: no error path and no sweep leaves another.
THEOREM HaveOwners == Spec => []FilesHaveOwners
<1>1. IInv => FilesHaveOwners
  BY DEF IInv, JobsOK, JobOK, Owned, FilesHaveOwners
<1> QED BY Invariant, <1>1, PTL

\* A job that has ended stays as it ended, whichever task starts late.
THEOREM EndedStay == Spec => EndedStays
<1>1. IInv /\ [Next]_vars =>
        [\A j \in Jobs : row[j].status \in Terminal => row'[j].status = row[j].status]_vars
  BY StepHolds DEF Good, Settles
<1> QED BY Invariant, <1>1, PTL DEF Spec, EndedStays
=============================================================================
