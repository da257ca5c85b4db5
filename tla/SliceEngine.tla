------------------------------ MODULE SliceEngine -----------------------------
(***************************************************************************)
(* Reading the records of one export: build_export_source cuts the range   *)
(* into partitions of one source and at most a day (app/main.py), and an   *)
(* ExportEngine (app/exporter.py) reads each partition in time slices,     *)
(* halving a slice that holds too many records or whose query times out.   *)
(* The server goes on ingesting and re-dating documents meanwhile.         *)
(*                                                                         *)
(* Times are in microseconds; the User Scope client rounds bounds down to  *)
(* milliseconds (Tick of them) before it sends a query.                    *)
(***************************************************************************)
EXTENDS Naturals, FiniteSets, Sequences

CONSTANTS
  Docs,         \* stable document identities, (_index, _id)
  Selected,     \* payload.sources, a sequence that may repeat a source
  SourceOf,     \* the source a document belongs to
  Daily,        \* sources read from one index per day (index_planner.py)
  Times,        \* times a document may carry
  Start, End,   \* the half-open range of the export
  Window,       \* EXPORT_PARTITION_MAX_DURATION, one day
  Target,       \* target_records_per_slice
  MinSlice,     \* minimum_slice_ms
  Tick,         \* units per millisecond
  Limit,        \* record_limit
  MaxChanges    \* bound on changes at the server during the export

ASSUME ExportAssumption ==
  /\ Selected \in Seq(STRING) /\ Selected # <<>>
  /\ IsFiniteSet(Docs) /\ Times \subseteq Nat
  /\ Start \in Nat /\ End \in Nat /\ Start < End
  /\ Tick \in Nat \ {0}
  /\ Window \in Nat \ {0} /\ Window % Tick = 0
  /\ MinSlice \in Nat /\ Tick <= MinSlice
  /\ Target \in Nat \ {0}
  /\ Limit \in Nat \ {0}
  /\ MaxChanges \in Nat

VARIABLES
  at,       \* server: the time of each document
  moved,    \* documents re-dated since the export began (history)
  changes,
  pc,       \* "plan" | "count" | "probe" | "emit" | "done" | "failed" | "cancelled"
  lo, src,  \* the partition: start of its window, index of its source
  stack,    \* slices still to read, the next one first
  hits,     \* documents fetched and not yet yielded
  seen,     \* seen_identities of the partition's engine
  out       \* what was yielded: each document with its partition

vars == <<at, moved, changes, pc, lo, src, stack, hits, seen, out>>
server == <<at, moved, changes>>
partition == <<lo, src>>

Min2(a, b) == IF a <= b THEN a ELSE b
Max2(a, b) == IF a >= b THEN a ELSE b

\* list(dict.fromkeys(sources)).
FirstUses == {i \in DOMAIN Selected : \A k \in 1..(i - 1) : Selected[k] # Selected[i]}

\* The sources in the order of their first use, by index into Selected.
SourceAfter(i) == {k \in FirstUses : k > i}

\* Mutant: the last window is a whole day as well.
WindowEndUncut == lo + Window

\* export_partitions: the current window ends at the range's end or a day later.
WindowEnd == Min2(End, lo + Window)

\* _epoch_millis; the server keeps milliseconds too.
Millis(t) == (t \div Tick) * Tick

\* _covered_dates: the daily indices a window reaches into.
CoveredDates(first, last) == (first \div Window)..((last - 1) \div Window)

\* Documents a query for [start, end) of the current partition finds.
Matching(start, end) ==
  {d \in Docs :
     /\ SourceOf[d] = Selected[src]
     /\ Millis(start) <= at[d] /\ at[d] < Millis(end)
     /\ SourceOf[d] \in Daily => at[d] \div Window \in CoveredDates(lo, WindowEnd)}

Slice(s, e) == [start |-> s, end |-> e]

\* _seed_slices: as many equal slices as keep each at 80% of the target.
SeedSlices(count) ==
  LET duration == WindowEnd - lo
      planned == Max2(1, (Target * 8) \div 10)
      desired == (count + planned - 1) \div planned
      number == Min2(desired, Max2(1, duration \div MinSlice))
      Cut(i) == lo + (duration * i) \div number
  IN  IF count = 0 THEN <<>>
      ELSE IF duration <= MinSlice THEN <<Slice(lo, WindowEnd)>>
      ELSE [i \in 1..number |-> Slice(Cut(i - 1), IF i = number THEN WindowEnd ELSE Cut(i))]

Init ==
  /\ at \in [Docs -> Times]
  /\ moved = {} /\ changes = 0
  /\ pc = "plan"
  /\ lo = Start /\ src = 1
  /\ stack = <<>> /\ hits = {} /\ seen = {} /\ out = <<>>

(***************************************************************************)
(* The loop over partitions                                                *)
(***************************************************************************)
\* A partition is begun unless the record limit is used up.
BeginPartition ==
  /\ pc = "plan"
  /\ lo < End /\ Len(out) < Limit
  /\ seen' = {}
  /\ pc' = "count"
  /\ UNCHANGED <<server, partition, stack, hits, out>>

AllRead ==
  /\ pc = "plan"
  /\ lo >= End \/ Len(out) >= Limit
  /\ pc' = "done"
  /\ UNCHANGED <<server, partition, stack, hits, seen, out>>

\* The engine returns: the next source of the window, or the next window.
NextPartition ==
  /\ pc' = "plan"
  /\ stack' = <<>> /\ hits' = {}
  /\ IF SourceAfter(src) # {}
     THEN /\ src' = CHOOSE k \in SourceAfter(src) : \A i \in SourceAfter(src) : k <= i
          /\ lo' = lo
     ELSE src' = 1 /\ lo' = WindowEnd
  /\ UNCHANGED <<server, seen, out>>

(***************************************************************************)
(* ExportEngine.iter_documents                                             *)
(***************************************************************************)
Count ==
  /\ pc = "count"
  /\ stack' = SeedSlices(Cardinality(Matching(lo, WindowEnd)))
  /\ pc' = "probe"
  /\ UNCHANGED <<server, partition, hits, seen, out>>

Top == Head(stack)

TooShort == Top.end - Top.start <= MinSlice

\* Mutant: the first half is forgotten.
SplitTopLosingHalf ==
  LET mid == Top.start + (Top.end - Top.start) \div 2
  IN  stack' = <<Slice(mid, Top.end)>> \o Tail(stack)

\* Mutant: the newer half is pushed last, so it is read first.
SplitTopNewestFirst ==
  LET mid == Top.start + (Top.end - Top.start) \div 2
  IN  stack' = <<Slice(mid, Top.end), Slice(Top.start, mid)>> \o Tail(stack)

\* Mutant: the same slice is queried again.
SplitTopUnhalved == stack' = stack

\* Both halves of the slice take its place, the older one first.
SplitTop ==
  LET mid == Top.start + (Top.end - Top.start) \div 2
  IN  stack' = <<Slice(Top.start, mid), Slice(mid, Top.end)>> \o Tail(stack)

\* _fetch_probe asks for Target + 1 documents; at most Target is the whole slice.
Probe ==
  /\ pc = "probe" /\ stack # <<>>
  /\ Cardinality(Matching(Top.start, Top.end)) <= Target
  /\ hits' = Matching(Top.start, Top.end)
  /\ stack' = Tail(stack)
  /\ pc' = IF hits' = {} THEN "probe" ELSE "emit"
  /\ UNCHANGED <<server, partition, seen, out>>

\* The probe returned Target + 1 documents, or none before the read timeout.
SplitSlice ==
  /\ pc = "probe" /\ stack # <<>>
  /\ ~TooShort
  /\ SplitTop
  /\ UNCHANGED <<server, pc, partition, hits, seen, out>>

\* DenseSliceError: a slice of the minimum length that still holds too many.
DenseSlice ==
  /\ pc = "probe" /\ stack # <<>>
  /\ TooShort /\ Cardinality(Matching(Top.start, Top.end)) > Target
  /\ pc' = "failed"
  /\ UNCHANGED <<server, partition, stack, hits, seen, out>>

\* The documents of a probe come in any order.
Emit(d) ==
  /\ pc = "emit" /\ d \in hits
  /\ d \notin seen /\ Len(out) < Limit
  /\ seen' = seen \cup {d}
  /\ out' = Append(out, [doc |-> d, lo |-> lo, src |-> src])
  /\ hits' = hits \ {d}
  /\ pc' = IF hits' = {} THEN "probe" ELSE "emit"
  /\ UNCHANGED <<server, partition, stack>>

SkipDuplicate(d) ==
  /\ pc = "emit" /\ d \in hits
  /\ d \in seen
  /\ hits' = hits \ {d}
  /\ pc' = IF hits' = {} THEN "probe" ELSE "emit"
  /\ UNCHANGED <<server, partition, stack, seen, out>>

\* max_records: the engine returns with slices left.
LimitReached ==
  /\ pc = "emit" /\ \E d \in hits : d \notin seen
  /\ Len(out) >= Limit
  /\ NextPartition

PartitionRead ==
  /\ pc = "probe" /\ stack = <<>>
  /\ NextPartition

Engine ==
  \/ BeginPartition \/ AllRead \/ Count
  \/ Probe \/ SplitSlice \/ DenseSlice
  \/ \E d \in Docs : Emit(d) \/ SkipDuplicate(d)
  \/ LimitReached \/ PartitionRead

\* A query fails for good; in a slice of the minimum length a read timeout does.
Fail ==
  /\ pc = "count" \/ (pc = "probe" /\ stack # <<>>)
  /\ pc' = "failed"
  /\ UNCHANGED <<server, partition, stack, hits, seen, out>>

\* _check_cancelled, before every query and every record.
Cancel ==
  /\ pc \in {"count", "emit"} \/ (pc = "probe" /\ stack # <<>>)
  /\ pc' = "cancelled"
  /\ UNCHANGED <<server, partition, stack, hits, seen, out>>

\* The server ingests a document late or gives it another time.
Redate(d, t) ==
  /\ pc \notin {"done", "failed", "cancelled"}
  /\ changes < MaxChanges
  /\ at[d] # t
  /\ at' = [at EXCEPT ![d] = t]
  /\ moved' = moved \cup {d}
  /\ changes' = changes + 1
  /\ UNCHANGED <<pc, partition, stack, hits, seen, out>>

Next ==
  \/ Engine \/ Fail \/ Cancel
  \/ \E d \in Docs, t \in Times : Redate(d, t)

Spec == Init /\ [][Next]_vars

\* The consumer keeps iterating; a query is answered, split, or fails.
FairSpec == Spec /\ WF_vars(Engine)

-----------------------------------------------------------------------------
TypeOK ==
  /\ at \in [Docs -> Times]
  /\ moved \subseteq Docs /\ changes \in 0..MaxChanges
  /\ pc \in {"plan", "count", "probe", "emit", "done", "failed", "cancelled"}
  /\ lo \in Start..End /\ src \in DOMAIN Selected
  /\ stack \in Seq([start : Nat, end : Nat])
  /\ hits \subseteq Docs /\ seen \subseteq Docs
  /\ out \in Seq([doc : Docs, lo : Start..End, src : DOMAIN Selected])

Wanted(d) ==
  /\ \E i \in DOMAIN Selected : Selected[i] = SourceOf[d]
  /\ Millis(Start) <= at[d] /\ at[d] < Millis(End)

Yielded(d) == \E i \in DOMAIN out : out[i].doc = d

\* Adaptive slicing loses nothing: an export that ends below its record limit has
\* yielded every document that was in its range from the beginning to the end,
\* however often slices were halved and whatever else moved meanwhile.
ExportIsComplete ==
  pc = "done" /\ Len(out) < Limit => \A d \in Docs \ moved : Wanted(d) => Yielded(d)

\* Nothing is yielded twice: neither within a partition (seen_identities) nor, unless
\* the document was re-dated across windows, in two of them.
YieldedOnce ==
  \A i, k \in DOMAIN out : i < k /\ out[i].doc = out[k].doc =>
    out[i].doc \in moved /\ <<out[i].lo, out[i].src>> # <<out[k].lo, out[k].src>>

\* The stack hands out the oldest slice first: what this partition has yielded is
\* older than every slice still to read.
OldestFirst ==
  \A i \in DOMAIN out, k \in DOMAIN stack :
    out[i].lo = lo /\ out[i].src = src /\ out[i].doc \notin moved =>
      at[out[i].doc] < Millis(stack[k].start)

\* The stream of an export holds each document once, in the order of the slices,
\* which its regenerated parts and their checkpoints rely on.
YieldsInOrder == YieldedOnce /\ OldestFirst

\* Halving slices comes to an end: every export is read, fails or is cancelled.
ExportEnds == <>(pc \in {"done", "failed", "cancelled"})
===============================================================================
