------------------------------ MODULE Checkpoints -----------------------------
(***************************************************************************)
(* The parts of a split remote export and their checkpoints.               *)
(* iter_export_part_files (app/exporter.py) cuts the stream of records     *)
(* into files; run_destination_job (app/main.py) uploads each file and     *)
(* saves a checkpoint for it.  A resumed attempt generates every part      *)
(* anew, compares it with its checkpoint, and uploads only what comes      *)
(* after the last one.  The queries of an attempt may answer differently   *)
(* from those of an earlier one.                                           *)
(*                                                                         *)
(* One worker at a time runs the export; ExportJobs has the races that can *)
(* make it two, and the uploads that end half-way.                         *)
(***************************************************************************)
EXTENDS Naturals, Sequences

CONSTANTS
  Records,     \* contents a record may have
  Fields,      \* the fields of a record
  Size,        \* bytes a record takes in a part
  Overhead,    \* bytes of a part before its first record (CSV header, bracket)
  MaxBytes,    \* max_file_size_bytes
  Lookahead,   \* records whose fields become the CSV columns (100; 0: not CSV)
  Compress,    \* parts are gzip files
  MaxLen,      \* bound on the length of the stream
  MaxChanges,  \* bound on changes of the data between and during attempts
  MaxAttempts  \* bound on launches of the job

ASSUME CheckpointsAssumption ==
  /\ Size \in [Records -> Nat] /\ Overhead \in Nat
  /\ MaxBytes \in Nat \ {0} /\ Lookahead \in Nat
  /\ Compress \in BOOLEAN
  /\ MaxLen \in Nat /\ MaxChanges \in Nat /\ MaxAttempts \in Nat

Min2(a, b) == IF a <= b THEN a ELSE b

\* Files at the destination: the n-th part of a split export, or the only file.
BaseName == 0
Names == BaseName..MaxLen

\* No file, which no attempt could have written.
Absent == [columns |-> {}, body |-> <<>>, stamp |-> MaxAttempts + 1]

VARIABLES
  data,     \* the records the queries would yield now, in order
  changes,
  attempt,
  pc,       \* "idle" | "columns" | "read" | "part" | "uploaded" | "end" | "done"
  saved,    \* completed_parts of the record
  known,    \* length of checkpoint_parts, the copy taken when the attempt began
  read,     \* records this attempt has read
  written,  \* how many of them it has written to parts
  columns,  \* CSV columns of this attempt
  fill,     \* writer.size() of the open part
  part,     \* the generated part in hand
  results,  \* parts of this attempt that were matched or uploaded
  error,    \* how the last attempt failed: "none" | "mismatch" | "short"
  remote    \* files at the destination

vars == <<data, changes, attempt, pc, saved, known, read, written, columns, fill, part,
          results, error, remote>>
queries == <<data, changes>>
job == <<attempt, saved, known>>
splitter == <<read, written, columns, fill>>

\* Mutant: every part is stamped, as a gzip file is.
DigestStamped(p) ==
  [columns |-> columns, body |-> SubSeq(read, p.lo, p.hi), stamp |-> attempt]

\* A gzip file holds the time and the temporary name it was written under.
Digest(p) == [columns |-> columns, body |-> SubSeq(read, p.lo, p.hi),
              stamp |-> IF Compress THEN attempt ELSE 0]

NoPart == [name |-> BaseName, lo |-> 1, hi |-> 0, last |-> FALSE]

\* First record of the part being written.
NextLo == IF results = <<>> THEN 1 ELSE results[Len(results)].hi + 1

\* Mutant: a part is compared by its name and position alone.
MatchesByName == saved[Len(results) + 1].name = part.name

\* The generated part agrees with its checkpoint in number, name, size and hash.
Matches ==
  /\ saved[Len(results) + 1].name = part.name
  /\ saved[Len(results) + 1].digest = Digest(part)

Init ==
  /\ data \in UNION {[1..n -> Records] : n \in 0..MaxLen}
  /\ changes = 0 /\ attempt = 0
  /\ pc = "idle" /\ error = "none"
  /\ saved = <<>> /\ known = 0
  /\ read = <<>> /\ written = 0 /\ columns = {} /\ fill = Overhead
  /\ part = NoPart /\ results = <<>>
  /\ remote = [n \in Names |-> Absent]

\* A worker is launched with the checkpoints saved so far.
StartAttempt ==
  /\ pc = "idle" /\ attempt < MaxAttempts
  /\ attempt' = attempt + 1
  /\ known' = Len(saved)
  /\ read' = <<>> /\ written' = 0 /\ columns' = {} /\ fill' = Overhead
  /\ results' = <<>> /\ error' = "none"
  /\ pc' = "columns"
  /\ UNCHANGED <<queries, saved, part, remote>>

(***************************************************************************)
(* iter_export_part_files                                                  *)
(***************************************************************************)
\* The columns of a CSV export are the fields of its first records, read ahead.
ReadColumns ==
  /\ pc = "columns"
  /\ read' = SubSeq(data, 1, Min2(Lookahead, Len(data)))
  /\ columns' = UNION {Fields[read'[k]] : k \in DOMAIN read'}
  /\ pc' = "read"
  /\ UNCHANGED <<queries, job, written, fill, part, results, error, remote>>

\* The next record: one read ahead, or one more from the queries.
NextRead == IF written < Len(read) THEN read ELSE Append(read, data[Len(read) + 1])

Exhausted == written >= Len(read) /\ Len(read) >= Len(data)

\* Mutant: the part number is advanced before the part is named.
WriteRecordNumberedLate ==
  /\ pc = "read" /\ ~Exhausted
  /\ read' = NextRead /\ written' = written + 1
  /\ LET size == fill + Size[read'[written']]
     IN  IF size >= MaxBytes
         THEN /\ part' = [name |-> Len(results) + 2, lo |-> NextLo, hi |-> written',
                          last |-> FALSE]
              /\ fill' = Overhead /\ pc' = "part"
         ELSE fill' = size /\ UNCHANGED <<part, pc>>
  /\ UNCHANGED <<queries, job, columns, results, error, remote>>

\* A record is written; the part is closed when it has reached the size.
WriteRecord ==
  /\ pc = "read" /\ ~Exhausted
  /\ read' = NextRead /\ written' = written + 1
  /\ LET size == fill + Size[read'[written']]
     IN  IF size >= MaxBytes
         THEN /\ part' = [name |-> Len(results) + 1, lo |-> NextLo, hi |-> written',
                          last |-> FALSE]
              /\ fill' = Overhead /\ pc' = "part"
         ELSE fill' = size /\ UNCHANGED <<part, pc>>
  /\ UNCHANGED <<queries, job, columns, results, error, remote>>

\* Mutant: whether the export was split is told from the checkpoints.
EndOfRecordsMisnamed ==
  /\ pc = "read" /\ Exhausted
  /\ IF NextLo > written /\ results # <<>>
     THEN pc' = "end" /\ UNCHANGED part
     ELSE /\ part' = [name |-> IF known = 0 THEN BaseName ELSE Len(results) + 1,
                      lo |-> NextLo, hi |-> written, last |-> TRUE]
          /\ pc' = "part"
  /\ UNCHANGED <<queries, job, splitter, results, error, remote>>

\* The stream ends: the open part is the last, and an empty stream makes one file.
EndOfRecords ==
  /\ pc = "read" /\ Exhausted
  /\ IF NextLo > written /\ results # <<>>
     THEN pc' = "end" /\ UNCHANGED part
     ELSE /\ part' = [name |-> IF results = <<>> THEN BaseName ELSE Len(results) + 1,
                      lo |-> NextLo, hi |-> written, last |-> TRUE]
          /\ pc' = "part"
  /\ UNCHANGED <<queries, job, splitter, results, error, remote>>

(***************************************************************************)
(* run_destination_job                                                     *)
(***************************************************************************)
PartDone ==
  /\ results' = Append(results, part)
  /\ pc' = IF part.last THEN "end" ELSE "read"

\* The attempt ends with an exception; the record keeps its checkpoints.
Raise(e) ==
  /\ pc' = "idle" /\ error' = e
  /\ UNCHANGED <<queries, job, splitter, part, results>>

Match ==
  /\ pc = "part" /\ Len(results) < known
  /\ Matches
  /\ PartDone
  /\ UNCHANGED <<queries, job, splitter, part, error, remote>>

Mismatch ==
  /\ pc = "part" /\ Len(results) < known
  /\ ~Matches
  /\ Raise("mismatch") /\ UNCHANGED remote

\* Mutant: every part is uploaded again.
UploadAll ==
  /\ pc = "part"
  /\ remote' = [remote EXCEPT ![part.name] = Digest(part)]
  /\ pc' = "uploaded"
  /\ UNCHANGED <<queries, job, splitter, part, results, error>>

Upload ==
  /\ pc = "part" /\ Len(results) >= known
  /\ remote' = [remote EXCEPT ![part.name] = Digest(part)]
  /\ pc' = "uploaded"
  /\ UNCHANGED <<queries, job, splitter, part, results, error>>

\* The upload fails or is cancelled: S3 keeps the old object, SFTP removes the file.
UploadFails ==
  /\ pc = "part" /\ Len(results) >= known
  /\ remote' \in {remote, [remote EXCEPT ![part.name] = Absent]}
  /\ Raise("none")

\* completed_parts grows by the uploaded part, and the record is saved.
Checkpoint ==
  /\ pc = "uploaded"
  /\ saved' = Append(saved, [name |-> part.name, digest |-> Digest(part)])
  /\ PartDone
  /\ UNCHANGED <<queries, attempt, known, splitter, part, error, remote>>

Complete ==
  /\ pc = "end" /\ Len(results) >= known
  /\ pc' = "done"
  /\ UNCHANGED <<queries, job, splitter, part, results, error, remote>>

\* The stream ended before all checkpointed parts had been generated.
Short ==
  /\ pc = "end" /\ Len(results) < known
  /\ Raise("short") /\ UNCHANGED remote

\* A query fails, the job is cancelled, or the worker is lost.
Stop ==
  /\ pc \in {"columns", "read", "part", "uploaded", "end"}
  /\ Raise("none") /\ UNCHANGED remote

(***************************************************************************)
(* The data behind the queries changes: a document appears, disappears or  *)
(* is updated, or the server orders its answer differently.                *)
(***************************************************************************)
DataChanges(i, new) ==
  /\ pc # "done" /\ changes < MaxChanges
  /\ data' = SubSeq(data, 1, i - 1) \o new \o SubSeq(data, i + 1, Len(data))
  /\ data' # data /\ Len(data') <= MaxLen
  /\ changes' = changes + 1
  /\ UNCHANGED <<job, pc, splitter, part, results, error, remote>>

Next ==
  \/ StartAttempt
  \/ ReadColumns \/ WriteRecord \/ EndOfRecords
  \/ Match \/ Mismatch \/ Upload \/ UploadFails \/ Checkpoint
  \/ Complete \/ Short \/ Stop
  \/ \E i \in 1..(Len(data) + 1), new \in UNION {[1..n -> Records] : n \in 0..2} :
       DataChanges(i, new)

Spec == Init /\ [][Next]_vars

-----------------------------------------------------------------------------
Parts == [name : Names, lo : Nat, hi : Nat, last : BOOLEAN]
Digests == [columns : SUBSET UNION {Fields[r] : r \in Records}, body : Seq(Records),
            stamp : 0..(MaxAttempts + 1)]

TypeOK ==
  /\ data \in Seq(Records) /\ changes \in 0..MaxChanges /\ attempt \in 0..MaxAttempts
  /\ pc \in {"idle", "columns", "read", "part", "uploaded", "end", "done"}
  /\ saved \in Seq([name : Names, digest : Digests]) /\ known \in 0..Len(saved)
  /\ read \in Seq(Records) /\ written \in 0..Len(read) /\ fill \in Nat
  /\ columns \subseteq UNION {Fields[r] : r \in Records}
  /\ part \in Parts /\ results \in Seq(Parts)
  /\ error \in {"none", "mismatch", "short"}
  /\ remote \in [Names -> Digests]

\* What a checkpoint promises is at the destination, whatever attempts came after it.
CheckpointsMatchRemote ==
  \A k \in DOMAIN saved : remote[saved[k].name] = saved[k].digest

\* A completed export is one stream: the files it lists hold, one after the other and
\* without gap or overlap and under the same columns, all records its last attempt has
\* read, no matter which attempt uploaded them.
CompletedIsOneStream ==
  pc = "done" =>
    /\ results # <<>> /\ results[1].lo = 1 /\ results[Len(results)].hi = Len(read)
    /\ \A k \in 1..(Len(results) - 1) : results[k + 1].lo = results[k].hi + 1
    /\ \A k \in DOMAIN results :
         /\ remote[results[k].name].body = SubSeq(read, results[k].lo, results[k].hi)
         /\ remote[results[k].name].columns = columns

\* A completed record lists the same files in its result and in its checkpoints: none
\* that an earlier attempt checkpointed has dropped out of the export.
CheckpointsAreTheResult ==
  pc = "done" =>
    /\ Len(saved) = Len(results)
    /\ \A k \in DOMAIN saved : saved[k].name = results[k].name

\* Nothing else is left at the destination, unless the data changed between attempts.
NoLeftovers ==
  pc = "done" /\ changes = 0 =>
    \A n \in Names : remote[n] # Absent => \E k \in DOMAIN results : results[k].name = n

\* What a completed record lists is what there is: its checkpoints, its result and
\* the files at the destination agree.
RecordAgrees == CheckpointsAreTheResult /\ NoLeftovers

\* "resume supported remote exports from verified split-part checkpoints": when the
\* queries keep answering the same, no resume is refused for its checkpoints.
UnchangedDataResumes == changes = 0 => error = "none"
===============================================================================
