-------------------------- MODULE CheckpointsProofs ---------------------------
(***************************************************************************)
(* Checkpoints keep their files, a completed export is one stream, and     *)
(* unchanged data resume, for any records, sizes, number of attempts and   *)
(* changes of the data.                                                    *)
(***************************************************************************)
EXTENDS Checkpoints, SequenceTheorems, TLAPS

-----------------------------------------------------------------------------
(***************************************************************************)
(* The inductive invariant.  The stream read so far never gets longer than *)
(* the data may; the parts of the attempt tile what it has written; and    *)
(* the checkpoints describe exactly those parts, as far as both go.        *)
(***************************************************************************)
Busy == pc \in {"part", "uploaded"}
Over == pc \in {"end", "done"}

LengthInv ==
  /\ Len(data) <= MaxLen /\ Len(read) <= MaxLen
  /\ pc = "columns" => results = <<>> /\ written = 0

\* A part without records is the only one.
WellCut(p) ==
  /\ p.lo \in 1..(p.hi + 1) /\ p.hi <= written
  /\ p.name = BaseName => p.last /\ p.lo = 1
  /\ p.lo > p.hi => p.last

TilesInv ==
  /\ NextLo <= written + 1
  /\ results # <<>> => results[1].lo = 1
  /\ \A k \in 1..(Len(results) - 1) : results[k + 1].lo = results[k].hi + 1
  /\ \A k \in DOMAIN results :
       /\ WellCut(results[k])
       /\ results[k].name \in {k, BaseName}
       /\ results[k].name = BaseName => k = 1
       /\ results[k].last => pc \in {"end", "done", "idle"}
       /\ k <= results[k].hi \/ k = 1

PartInv ==
  /\ Busy => /\ WellCut(part) /\ part.lo = NextLo /\ part.hi = written
             /\ part.name \in {Len(results) + 1, BaseName}
             /\ part.name = BaseName => results = <<>>
             /\ part.last => written = Len(read)
             /\ Len(results) + 1 <= part.hi \/ results = <<>>
  /\ Over => /\ results # <<>> /\ results[Len(results)].hi = written
             /\ written = Len(read)

SavedInv ==
  /\ \A k \in DOMAIN saved : saved[k].name \in {k, BaseName}
  /\ \A k \in DOMAIN saved : saved[k].name = BaseName => Len(saved) = 1
  /\ \A k \in DOMAIN saved : remote[saved[k].name] = saved[k].digest
  /\ pc # "idle" => /\ Len(results) <= Len(saved)
                    /\ Len(saved) = known \/ Len(saved) = Len(results)
                    /\ \A k \in DOMAIN results : /\ saved[k].name = results[k].name
                                                 /\ saved[k].digest = Digest(results[k])
  /\ pc = "uploaded" => Len(results) >= known /\ remote[part.name] = Digest(part)

CheckpointInv == TypeOK /\ LengthInv /\ TilesInv /\ PartInv /\ SavedInv

-----------------------------------------------------------------------------
(***************************************************************************)
(* Sequences                                                               *)
(***************************************************************************)
\* What is cut from a sequence stays the same when the sequence grows.
LEMMA CutStays ==
  ASSUME NEW S, NEW s \in Seq(S), NEW e \in S, NEW lo \in Nat \ {0}, NEW hi \in Nat,
         hi <= Len(s)
  PROVE  SubSeq(Append(s, e), lo, hi) = SubSeq(s, lo, hi)
<1>1. \A i \in 1..Len(s) : Append(s, e)[i] = s[i]
  OBVIOUS
<1> QED BY <1>1

LEMMA CutType ==
  ASSUME NEW S, NEW s \in Seq(S), NEW lo \in Nat \ {0}, NEW hi \in Nat, hi <= Len(s)
  PROVE  SubSeq(s, lo, hi) \in Seq(S)
<1>1. \A i \in lo..hi : s[i] \in S
  OBVIOUS
<1> QED BY <1>1, SubSeqProperties

LEMMA AppendFacts ==
  ASSUME NEW S, NEW s \in Seq(S), NEW e \in S
  PROVE  /\ Append(s, e) \in Seq(S) /\ Append(s, e) # <<>>
         /\ Len(s) \in Nat /\ Len(Append(s, e)) = Len(s) + 1
         /\ DOMAIN Append(s, e) = 1..(Len(s) + 1) /\ DOMAIN s = 1..Len(s)
         /\ \A k \in DOMAIN s : Append(s, e)[k] = s[k]
         /\ Append(s, e)[Len(s) + 1] = e
  OBVIOUS

LEMMA Interval ==
  \A a \in Nat \ {0}, b \in Nat : b <= b /\ (a <= b + 1 => a \in 1..(b + 1))
  OBVIOUS

-----------------------------------------------------------------------------
LEMMA CheckpointInit == Init => CheckpointInv
<1> SUFFICES ASSUME Init PROVE CheckpointInv
  OBVIOUS
<1>1. data \in Seq(Records) /\ Len(data) <= MaxLen
  BY CheckpointsAssumption DEF Init
<1>2. /\ 0 \in 0..MaxChanges /\ 0 \in 0..MaxAttempts /\ 0 \in Names
      /\ MaxAttempts + 1 \in 0..(MaxAttempts + 1)
  BY CheckpointsAssumption DEF Names, BaseName
<1>3. Absent \in Digests
  BY <1>2 DEF Absent, Digests
<1>4. NoPart \in Parts
  BY <1>2 DEF NoPart, Parts, BaseName
<1>5. TypeOK
  BY <1>1, <1>2, <1>3, <1>4, CheckpointsAssumption DEF Init, TypeOK
<1>6. LengthInv /\ TilesInv /\ PartInv /\ SavedInv
  BY <1>1, CheckpointsAssumption DEF Init, LengthInv, TilesInv, PartInv, SavedInv, NextLo, Busy, Over
<1> QED BY <1>5, <1>6 DEF CheckpointInv

\* The first record after the parts of this attempt.
LEMMA NextLoFacts ==
  ASSUME CheckpointInv
  PROVE  /\ NextLo \in Nat \ {0} /\ NextLo <= written + 1
         /\ results = <<>> => NextLo = 1
         /\ pc = "read" /\ results # <<>> => Len(results) + 1 <= NextLo
<1> USE DEF CheckpointInv
<1>1. CASE results = <<>>
  BY <1>1 DEF NextLo, TypeOK
<1>2. CASE results # <<>>
  <2>1. /\ Len(results) \in DOMAIN results /\ Len(results) \in Nat \ {0}
        /\ results[Len(results)] \in Parts
    BY <1>2 DEF TypeOK
  <2>2. results[Len(results)].hi \in Nat
    BY <2>1 DEF Parts
  <2>3. ASSUME pc = "read" PROVE Len(results) <= results[Len(results)].hi
    <3>1. ~results[Len(results)].last
      BY <2>1, <2>3 DEF TilesInv
    <3>2. Len(results) = 1 => results[1].lo = 1
      BY <1>2 DEF TilesInv
    <3>3. results[Len(results)].lo <= results[Len(results)].hi
      BY <2>1, <2>2, <3>1 DEF TilesInv, WellCut, Parts
    <3> QED BY <2>1, <2>2, <3>2, <3>3 DEF TilesInv
  <2> QED BY <1>2, <2>1, <2>2, <2>3 DEF NextLo, TilesInv
<1> QED BY <1>1, <1>2

\* What a generated part holds does not depend on how much is read after it.
LEMMA DigestStays ==
  ASSUME CheckpointInv, read' = NextRead, ~Exhausted, UNCHANGED <<columns, attempt>>,
         NEW p, p.lo \in Nat \ {0}, p.hi \in Nat, p.hi <= written
  PROVE  Digest(p)' = Digest(p)
<1> USE DEF CheckpointInv
<1>1. CASE read' = read
  BY <1>1 DEF Digest
<1>2. CASE written >= Len(read)
  <2>1. Len(read) + 1 \in DOMAIN data /\ read \in Seq(Records)
    BY <1>2 DEF Exhausted, TypeOK
  <2>2. read' = Append(read, data[Len(read) + 1]) /\ data[Len(read) + 1] \in Records
    BY <1>2, <2>1 DEF NextRead, TypeOK
  <2>3. p.hi <= Len(read)
    BY DEF TypeOK
  <2>4. SubSeq(read', p.lo, p.hi) = SubSeq(read, p.lo, p.hi)
    <3> DEFINE e == data[Len(read) + 1]
    <3>1. e \in Records /\ read' = Append(read, e)
      BY <2>2
    <3> HIDE DEF e
    <3>2. SubSeq(Append(read, e), p.lo, p.hi) = SubSeq(read, p.lo, p.hi)
      BY <2>1, <2>3, <3>1, CutStays, SMTT(60)
    <3> QED BY <3>1, <3>2
  <2> QED BY <2>4 DEF Digest
<1> QED BY <1>1, <1>2 DEF NextRead, TypeOK

LEMMA DigestType ==
  ASSUME CheckpointInv, pc \in {"part", "uploaded"}
  PROVE  Digest(part) \in Digests
<1> USE DEF CheckpointInv
<1>1. part.lo \in Nat \ {0} /\ part.hi \in Nat /\ part.hi <= Len(read)
  BY DEF TypeOK, Parts, PartInv, Busy, WellCut
<1>2. SubSeq(read, part.lo, part.hi) \in Seq(Records)
  BY <1>1, CutType DEF TypeOK
<1>3. (IF Compress THEN attempt ELSE 0) \in 0..(MaxAttempts + 1)
  BY CheckpointsAssumption DEF TypeOK
<1> QED BY <1>2, <1>3 DEF Digest, Digests, TypeOK

-----------------------------------------------------------------------------
(***************************************************************************)
(* Every step keeps the invariant                                          *)
(***************************************************************************)
LEMMA StartKeeps == CheckpointInv /\ StartAttempt => CheckpointInv'
<1> SUFFICES ASSUME CheckpointInv, StartAttempt PROVE CheckpointInv'
  OBVIOUS
<1> USE DEF CheckpointInv
<1>1. TypeOK'
  <2>1. attempt' \in 0..MaxAttempts /\ known' \in 0..Len(saved)
    BY CheckpointsAssumption DEF StartAttempt, TypeOK
  <2>2. read' \in Seq(Records) /\ written' \in 0..Len(read') /\ results' \in Seq(Parts)
    BY DEF StartAttempt
  <2> QED BY <2>1, <2>2, CheckpointsAssumption DEF StartAttempt, TypeOK, queries
<1>2. LengthInv' /\ TilesInv' /\ PartInv'
  BY CheckpointsAssumption
     DEF StartAttempt, LengthInv, TilesInv, PartInv, NextLo, Busy, Over, queries
<1>3. SavedInv'
  BY DEF StartAttempt, SavedInv, TypeOK
<1> QED BY <1>1, <1>2, <1>3

LEMMA ColumnsKeep == CheckpointInv /\ ReadColumns => CheckpointInv'
<1> SUFFICES ASSUME CheckpointInv, ReadColumns PROVE CheckpointInv'
  OBVIOUS
<1> USE DEF CheckpointInv
<1> DEFINE n == Min2(Lookahead, Len(data))
<1>1. n \in Nat /\ n <= Len(data) /\ data \in Seq(Records)
  BY CheckpointsAssumption DEF Min2, TypeOK
<1>2. read' \in Seq(Records) /\ Len(read') = n
  <2>1. read' = SubSeq(data, 1, n)
    BY DEF ReadColumns
  <2> HIDE DEF n
  <2>2. \A i \in 1..n : data[i] \in Records
    BY <1>1
  <2> QED BY <1>1, <2>1, <2>2, SubSeqProperties
<1> HIDE DEF n
<1>3. columns' \subseteq UNION {Fields[r] : r \in Records}
  <2>1. \A k \in DOMAIN read' : read'[k] \in Records
    BY <1>2
  <2> QED BY <2>1 DEF ReadColumns
<1>4. /\ results = <<>> /\ written = 0 /\ pc' = "read"
      /\ UNCHANGED <<queries, job, written, fill, part, results, error, remote>>
  BY DEF ReadColumns, LengthInv
<1>5. TypeOK'
  BY <1>2, <1>3, <1>4, <1>1 DEF TypeOK, queries, job
<1>6. LengthInv' /\ TilesInv' /\ PartInv'
  BY <1>1, <1>2, <1>4, CheckpointsAssumption
     DEF LengthInv, TilesInv, PartInv, NextLo, Busy, Over, queries, TypeOK
<1>7. SavedInv'
  BY <1>4 DEF SavedInv, ReadColumns, job
<1> QED BY <1>5, <1>6, <1>7

\* Closing a part, whether it is full or the last.
LEMMA PartClosed ==
  ASSUME CheckpointInv, pc = "read", pc' = "part",
         UNCHANGED <<queries, job, columns, results, error, remote>>,
         read' \in Seq(Records), Len(read') <= MaxLen, written' \in 0..Len(read'),
         written <= written', fill' \in Nat,
         \A p : p.lo \in Nat \ {0} /\ p.hi \in Nat /\ p.hi <= written => Digest(p)' = Digest(p),
         part' \in [name : Nat, lo : Nat, hi : Nat, last : BOOLEAN],
         part'.lo = NextLo, part'.hi = written',
         \/ part'.name = Len(results) + 1 /\ NextLo <= written'
         \/ part'.name = BaseName /\ results = <<>> /\ part'.last,
         part'.last => written' = Len(read'),
         NextLo <= written' + 1
  PROVE  CheckpointInv'
<1> USE DEF CheckpointInv
<1>1. Len(results) \in Nat /\ results \in Seq(Parts) /\ \A k \in DOMAIN results : k \in 1..Len(results)
  BY SMTT(60) DEF TypeOK
<1>2. part' \in Parts
  <2>1. part'.name \in Names
    BY <1>1, NextLoFacts, CheckpointsAssumption DEF Names, BaseName
  <2> QED BY <2>1 DEF Parts
<1>3. TypeOK'
  BY <1>2 DEF TypeOK, queries, job
<1>4. LengthInv'
  BY DEF LengthInv, queries
<1>5. NextLo' = NextLo
  BY DEF NextLo
<1>6. \A k \in DOMAIN results : results[k].last = FALSE
  BY <1>1, SMTT(60) DEF TilesInv, Parts
<1>7. TilesInv'
  <2>1. \A k \in DOMAIN results : WellCut(results[k])'
    <3>1. \A k \in DOMAIN results : results[k] \in Parts
      BY <1>1
    <3>2. \A k \in DOMAIN results : WellCut(results[k])
      BY DEF TilesInv
    <3> QED BY <3>1, <3>2, SMTT(60) DEF WellCut, TypeOK, Parts
  <2> QED BY <1>1, <1>5, <1>6, <2>1 DEF TilesInv
<1>8. PartInv'
  <2> DEFINE q == part'
  <2>a. q.last \in BOOLEAN /\ written' \in Nat /\ NextLo \in Nat \ {0} /\ Len(results) + 1 # 0
    BY <1>1, NextLoFacts
  <2>b. results = <<>> => NextLo = 1
    BY NextLoFacts
  <2>c. q.lo \in 1..(q.hi + 1) /\ q.hi <= written'
    <3>1. NextLo \in 1..(written' + 1) /\ written' <= written'
      BY <2>a, Interval, Zenon
    <3>2. q.lo = NextLo /\ q.hi = written'
      OBVIOUS
    <3> QED BY <3>1, <3>2, Zenon
  <2>d. q.name = BaseName => q.last /\ q.lo = 1
    BY <2>a, <2>b DEF BaseName
  <2>e. q.lo > q.hi => q.last
    <3>1. q.lo > q.hi => ~(NextLo <= written')
      BY <2>a
    <3> QED BY <3>1, Zenon
  <2>1. WellCut(part)'
    BY <2>c, <2>d, <2>e DEF WellCut
  <2>2. Len(results) + 1 <= part'.hi \/ results = <<>>
    BY <1>1, NextLoFacts, SMTT(60) DEF TypeOK
  <2>3. /\ q.name \in {Len(results) + 1, BaseName}
        /\ q.name = BaseName => results = <<>>
    BY <2>a DEF BaseName
  <2>4. /\ ~(Over)' /\ results' = results /\ q.lo = NextLo' /\ q.hi = written'
        /\ q.last => written' = Len(read')
    BY <1>5 DEF Over
  <2> QED BY <2>1, <2>2, <2>3, <2>4 DEF PartInv
<1>9. SavedInv'
  <2>1. \A k \in DOMAIN results : Digest(results[k])' = Digest(results[k])
    <3>1. ASSUME NEW k \in DOMAIN results
          PROVE  results[k].lo \in Nat \ {0} /\ results[k].hi \in Nat /\ results[k].hi <= written
      <4>1. results[k] \in Parts
        BY <1>1
      <4> QED BY <4>1 DEF TilesInv, WellCut, Parts
    <3> QED BY <3>1
  <2> QED BY <2>1 DEF SavedInv, job, Digest
<1> QED BY <1>3, <1>4, <1>7, <1>8, <1>9

LEMMA WriteKeeps == CheckpointInv /\ WriteRecord => CheckpointInv'
<1> SUFFICES ASSUME CheckpointInv, WriteRecord PROVE CheckpointInv'
  OBVIOUS
<1> USE DEF CheckpointInv
<1>1. /\ pc = "read" /\ ~Exhausted /\ read' = NextRead /\ written' = written + 1
      /\ UNCHANGED <<queries, job, columns, results, error, remote>>
  BY DEF WriteRecord
<1>2. read' \in Seq(Records) /\ Len(read') <= MaxLen /\ written' \in 1..Len(read')
  <2>1. CASE written < Len(read)
    BY <1>1, <2>1 DEF NextRead, TypeOK, LengthInv
  <2>2. CASE ~(written < Len(read))
    <3>1. read \in Seq(Records) /\ Len(read) + 1 \in DOMAIN data /\ written = Len(read)
      BY <1>1, <2>2 DEF Exhausted, TypeOK
    <3>2. read' = Append(read, data[Len(read) + 1]) /\ data[Len(read) + 1] \in Records
      BY <1>1, <2>2, <3>1 DEF NextRead, TypeOK
    <3>3. /\ Append(read, data[Len(read) + 1]) \in Seq(Records)
          /\ Len(Append(read, data[Len(read) + 1])) = Len(read) + 1
      BY <3>1, <3>2, AppendFacts
    <3>4. Len(read) + 1 <= Len(data) /\ Len(data) <= MaxLen /\ Len(read) \in Nat
      BY <3>1 DEF LengthInv, TypeOK
    <3>5. MaxLen \in Nat
      BY CheckpointsAssumption
    <3> QED BY <1>1, <3>1, <3>2, <3>3, <3>4, <3>5
  <2> QED BY <2>1, <2>2
<1>3. Overhead \in Nat /\ fill + Size[read'[written']] \in Nat
  BY <1>2, CheckpointsAssumption, SMTT(60) DEF TypeOK
<1>4. /\ \A p : p.lo \in Nat \ {0} /\ p.hi \in Nat /\ p.hi <= written => Digest(p)' = Digest(p)
      /\ written <= written' /\ written \in Nat
  BY <1>1, DigestStays DEF job, TypeOK
<1>5. CASE fill + Size[read'[written']] >= MaxBytes
  <2>1. /\ pc' = "part" /\ fill' = Overhead
        /\ part' = [name |-> Len(results) + 1, lo |-> NextLo, hi |-> written', last |-> FALSE]
    BY <1>5 DEF WriteRecord
  <2>2. NextLo \in Nat \ {0} /\ NextLo <= written' /\ Len(results) + 1 \in Nat
    BY <1>1, NextLoFacts DEF TypeOK
  <2>3. part' \in [name : Nat, lo : Nat, hi : Nat, last : BOOLEAN]
    BY <1>2, <2>1, <2>2
  <2>4. /\ part'.lo = NextLo /\ part'.hi = written' /\ part'.last = FALSE
        /\ part'.name = Len(results) + 1
    BY <2>1
  <2>5. NextLo <= written' + 1 /\ written' \in 0..Len(read')
    <3>1. \A l, w, n \in Nat : l <= w => l <= w + 1 /\ (w \in 1..n => w \in 0..n)
      OBVIOUS
    <3>2. NextLo \in Nat /\ written' \in Nat /\ Len(read') \in Nat
      BY <1>2, <2>2
    <3> QED BY <1>2, <2>2, <3>1, <3>2, Zenon
  <2> QED BY <1>1, <1>2, <1>3, <1>4, <2>1, <2>2, <2>3, <2>4, <2>5, PartClosed
<1>6. CASE ~(fill + Size[read'[written']] >= MaxBytes)
  <2>1. fill' \in Nat /\ UNCHANGED <<pc, part>>
    BY <1>3, <1>6 DEF WriteRecord
  <2>2. TypeOK'
    BY <1>1, <1>2, <2>1 DEF TypeOK, queries, job
  <2>3. \A k \in DOMAIN results : results[k] \in Parts
    BY DEF TypeOK
  <2>4. LengthInv' /\ TilesInv' /\ PartInv'
    <3>1. NextLo' = NextLo /\ NextLo <= written' + 1
      BY <1>1, NextLoFacts DEF NextLo, TypeOK
    <3>2. \A k \in DOMAIN results : WellCut(results[k]) => WellCut(results[k])'
      BY <1>1, <1>4, <2>3 DEF WellCut, Parts
    <3> QED BY <1>1, <1>2, <2>1, <3>1, <3>2
            DEF LengthInv, TilesInv, PartInv, Busy, Over, queries
  <2>5. SavedInv'
    <3>1. \A k \in DOMAIN results : Digest(results[k])' = Digest(results[k])
      <4>1. ASSUME NEW k \in DOMAIN results
            PROVE  results[k].lo \in Nat \ {0} /\ results[k].hi \in Nat /\ results[k].hi <= written
        <5>1. results[k] \in Parts
          BY <2>3
        <5> QED BY <5>1 DEF TilesInv, WellCut, Parts
      <4>2. ASSUME NEW k \in DOMAIN results PROVE Digest(results[k])' = Digest(results[k])
        <5>1. PICK p : p = results[k]
          OBVIOUS
        <5>2. p.lo \in Nat \ {0} /\ p.hi \in Nat /\ p.hi <= written
          BY <4>1, <5>1
        <5>3. Digest(p)' = Digest(p) /\ results' = results
          BY <1>1, <1>4, <5>2
        <5> QED BY <5>1, <5>3
      <4> QED BY <4>2
    <3> QED BY <1>1, <2>1, <3>1 DEF SavedInv, job
  <2> QED BY <2>2, <2>4, <2>5
<1> QED BY <1>5, <1>6

LEMMA EndKeeps == CheckpointInv /\ EndOfRecords => CheckpointInv'
<1> SUFFICES ASSUME CheckpointInv, EndOfRecords PROVE CheckpointInv'
  OBVIOUS
<1> USE DEF CheckpointInv
<1>1. /\ pc = "read" /\ Exhausted
      /\ UNCHANGED <<queries, job, splitter, results, error, remote>>
  BY DEF EndOfRecords
<1>2. written = Len(read) /\ written \in Nat /\ read \in Seq(Records)
  BY <1>1 DEF Exhausted, TypeOK
<1>3. CASE NextLo > written /\ results # <<>>
  <2>1. pc' = "end" /\ part' = part
    BY <1>3 DEF EndOfRecords
  <2>2. results[Len(results)].hi = written
    <3>1. NextLo = results[Len(results)].hi + 1 /\ Len(results) \in DOMAIN results
      BY <1>3 DEF NextLo, TypeOK
    <3>2. results[Len(results)].hi \in Nat /\ results[Len(results)].hi <= written
      <4>1. results[Len(results)] \in Parts
        BY <3>1 DEF TypeOK
      <4> QED BY <3>1, <4>1 DEF Parts, TilesInv, WellCut
    <3> QED BY <1>2, <1>3, <3>1, <3>2
  <2>3. TypeOK' /\ LengthInv'
    BY <1>1, <2>1 DEF TypeOK, LengthInv, queries, job, splitter
  <2>4. TilesInv' /\ PartInv'
    BY <1>1, <1>2, <1>3, <2>1, <2>2
       DEF TilesInv, PartInv, WellCut, NextLo, Busy, Over, splitter
  <2>5. SavedInv'
    BY <1>1, <2>1 DEF SavedInv, Digest, job, splitter
  <2> QED BY <2>3, <2>4, <2>5
<1>4. CASE ~(NextLo > written /\ results # <<>>)
  <2> DEFINE n == IF results = <<>> THEN BaseName ELSE Len(results) + 1
  <2>1. /\ pc' = "part"
        /\ part' = [name |-> n, lo |-> NextLo, hi |-> written, last |-> TRUE]
    BY <1>4 DEF EndOfRecords
  <2>2. NextLo \in Nat \ {0} /\ NextLo <= written + 1 /\ Len(results) + 1 \in Nat /\ n \in Nat
    BY NextLoFacts DEF TypeOK, BaseName
  <2>3. \/ n = Len(results) + 1 /\ NextLo <= written
        \/ n = BaseName /\ results = <<>>
    BY <1>2, <1>4, <2>2
  <2> HIDE DEF n
  <2>4. part' \in [name : Nat, lo : Nat, hi : Nat, last : BOOLEAN]
    BY <1>2, <2>1, <2>2
  <2>5. /\ part'.lo = NextLo /\ part'.hi = written /\ part'.last = TRUE /\ part'.name = n
    BY <2>1
  <2>6. \A p : Digest(p)' = Digest(p)
    BY <1>1 DEF Digest, splitter, job
  <2>7. /\ read' = read /\ written' = written /\ fill' = fill /\ columns' = columns
        /\ fill \in Nat /\ written \in 0..Len(read) /\ Len(read) <= MaxLen
    BY <1>1, <1>2 DEF splitter, TypeOK, LengthInv
  <2> QED BY <1>1, <1>2, <2>1, <2>2, <2>3, <2>4, <2>5, <2>6, <2>7, PartClosed
<1> QED BY <1>3, <1>4

\* A part that is matched or checkpointed joins the parts of the attempt.
LEMMA PartAdded ==
  ASSUME CheckpointInv, Busy, PartDone, UNCHANGED <<splitter, part>>
  PROVE  /\ results' \in Seq(Parts) /\ pc' \in {"read", "end"} /\ TilesInv' /\ PartInv'
         /\ Len(results') = Len(results) + 1 /\ DOMAIN results' = 1..(Len(results) + 1)
         /\ Len(results) \in Nat
         /\ \A k \in 1..Len(results) : results'[k] = results[k]
         /\ results'[Len(results) + 1] = part
<1> USE DEF CheckpointInv
<1> DEFINE n == Len(results) + 1
<1>1. /\ results \in Seq(Parts) /\ part \in Parts /\ results' = Append(results, part)
      /\ pc' \in {"read", "end"} /\ (pc' = "end" <=> part.last)
      /\ UNCHANGED <<read, written, part>>
  BY DEF TypeOK, PartDone, splitter, Parts
<1>2. /\ results' \in Seq(Parts) /\ results' # <<>>
      /\ Len(results) \in Nat /\ Len(results') = n
      /\ DOMAIN results' = 1..n /\ DOMAIN results = 1..Len(results)
      /\ \A k \in 1..Len(results) : results'[k] = results[k]
      /\ results'[n] = part
  BY <1>1, AppendFacts
<1>3. /\ WellCut(part) /\ part.lo = NextLo /\ part.hi = written
      /\ part.name \in {n, BaseName}
      /\ part.name = BaseName => results = <<>>
      /\ part.last => written = Len(read)
      /\ n <= part.hi \/ results = <<>>
  BY DEF PartInv
<1>4. /\ part.lo \in Nat /\ part.hi \in Nat /\ written \in Nat
      /\ \A k \in DOMAIN results : results[k].lo \in Nat /\ results[k].hi \in Nat
  <2>1. \A k \in DOMAIN results : results[k] \in Parts
    BY <1>1
  <2> QED BY <1>1, <2>1, SMTT(60) DEF Parts, TypeOK
<1>5. \A k \in DOMAIN results : ~results[k].last
  BY DEF TilesInv, Busy
<1>6. NextLo' = written + 1
  BY <1>2, <1>3 DEF NextLo
<1>7. TilesInv'
  <2>1. results'[1].lo = 1
    <3>1. CASE results = <<>>
      BY <1>2, <1>3, <3>1, NextLoFacts
    <3>2. CASE results # <<>>
      BY <1>2, <3>2 DEF TilesInv
    <3> QED BY <3>1, <3>2
  <2>2. \A k \in 1..(Len(results') - 1) : results'[k + 1].lo = results'[k].hi + 1
    <3> SUFFICES ASSUME NEW k \in 1..Len(results) PROVE results'[k + 1].lo = results'[k].hi + 1
      BY <1>2
    <3>1. CASE k = Len(results)
      BY <1>2, <1>3, <3>1 DEF NextLo
    <3>2. CASE k # Len(results)
      <4>0. Len(results) \in Nat
        BY <1>2
      <4>1. k \in 1..(Len(results) - 1) /\ k + 1 \in 1..Len(results)
        BY <4>0, <3>2
      <4>2. results[k + 1].lo = results[k].hi + 1
        BY <4>1 DEF TilesInv
      <4> QED BY <1>2, <4>1, <4>2
    <3> QED BY <3>1, <3>2
  <2>3. ASSUME NEW k \in 1..n
        PROVE  /\ WellCut(results'[k])
               /\ results'[k].name \in {k, BaseName}
               /\ results'[k].name = BaseName => k = 1
               /\ results'[k].last => pc' = "end"
               /\ k <= results'[k].hi \/ k = 1
    <3>1. CASE k = n
      BY <1>1, <1>2, <1>3, <3>1
    <3>2. CASE k # n
      <4>1. k \in DOMAIN results /\ results'[k] = results[k]
        BY <1>2, <3>2
      <4> QED BY <1>5, <4>1 DEF TilesInv
    <3> QED BY <3>1, <3>2
  <2>4. \A k \in DOMAIN results' :
          /\ WellCut(results[k])'
          /\ results'[k].name \in {k, BaseName}
          /\ results'[k].name = BaseName => k = 1
          /\ results'[k].last => pc' \in {"end", "done", "idle"}
          /\ k <= results'[k].hi \/ k = 1
    BY <1>1, <1>2, <2>3 DEF WellCut
  <2>5. NextLo' <= written' + 1
    BY <1>1, <1>4, <1>6
  <2> QED BY <2>1, <2>2, <2>4, <2>5 DEF TilesInv
<1>8. PartInv'
  BY <1>1, <1>2, <1>3 DEF PartInv, Busy, Over
<1> QED BY <1>1, <1>2, <1>7, <1>8

LEMMA MatchKeeps == CheckpointInv /\ Match => CheckpointInv'
<1> SUFFICES ASSUME CheckpointInv, Match PROVE CheckpointInv'
  OBVIOUS
<1> USE DEF CheckpointInv
<1>1. /\ pc = "part" /\ Len(results) < known /\ Matches /\ PartDone
      /\ UNCHANGED <<queries, job, splitter, part, error, remote>>
  BY DEF Match
<1>2. /\ results' \in Seq(Parts) /\ pc' \in {"read", "end"} /\ TilesInv' /\ PartInv'
      /\ Len(results') = Len(results) + 1 /\ DOMAIN results' = 1..(Len(results) + 1)
      /\ Len(results) \in Nat
      /\ \A k \in 1..Len(results) : results'[k] = results[k]
      /\ results'[Len(results) + 1] = part
  BY <1>1, PartAdded DEF Busy
<1>3. TypeOK' /\ LengthInv'
  BY <1>1, <1>2 DEF TypeOK, LengthInv, queries, job, splitter
<1>4. SavedInv'
  <2>1. known \in Nat /\ known <= Len(saved) /\ Len(saved) \in Nat
    BY DEF TypeOK
  <2>2. Len(saved) = known
    BY <1>1, <1>2, <2>1 DEF SavedInv
  <2>3. \A k \in DOMAIN results' : /\ saved[k].name = results'[k].name
                                   /\ saved[k].digest = Digest(results'[k])
    <3> SUFFICES ASSUME NEW k \in 1..(Len(results) + 1)
                 PROVE  saved[k].name = results'[k].name /\ saved[k].digest = Digest(results'[k])
      BY <1>2
    <3>1. CASE k = Len(results) + 1
      BY <1>1, <1>2, <3>1 DEF Matches
    <3>2. CASE k # Len(results) + 1
      <4>1. k \in 1..Len(results) /\ k \in DOMAIN results
        BY <1>2, <3>2 DEF TypeOK
      <4> QED BY <1>1, <1>2, <4>1 DEF SavedInv
    <3> QED BY <3>1, <3>2
  <2>4. \A k \in DOMAIN results' : /\ saved[k].name = results'[k].name
                                   /\ saved[k].digest = Digest(results[k])'
    BY <1>1, <2>3 DEF Digest, splitter, job
  <2> QED BY <1>1, <1>2, <2>1, <2>2, <2>4 DEF SavedInv, job
<1> QED BY <1>2, <1>3, <1>4

\* A file an upload touches belongs to no checkpoint.
LEMMA UploadIsNew ==
  ASSUME CheckpointInv, pc = "part", Len(results) >= known
  PROVE  /\ part.name \in Names
         /\ Len(saved) = Len(results)
         /\ \A k \in DOMAIN saved : saved[k].name \in Names /\ saved[k].name # part.name
<1> USE DEF CheckpointInv
<1>1. Len(saved) = Len(results) /\ Len(saved) \in Nat
  BY DEF SavedInv, TypeOK
<1>2. part.name \in Names
  BY DEF TypeOK, Parts
<1>3. ASSUME NEW k \in DOMAIN saved
      PROVE  saved[k].name \in Names /\ saved[k].name # part.name
  <2> DEFINE S == [name : Names, digest : Digests]
  <2>a. saved \in Seq(S)
    BY DEF TypeOK
  <2> HIDE DEF S
  <2>b. saved[k] \in S /\ k \in 1..Len(saved)
    BY <2>a
  <2>1. saved[k] \in [name : Names, digest : Digests] /\ k \in 1..Len(saved)
    BY <2>b DEF S
  <2>2. k \in DOMAIN results /\ results[k].name = saved[k].name
    BY <1>1, <2>1 DEF SavedInv, TypeOK
  <2>3. ~results[k].last
    BY <2>2 DEF TilesInv
  <2>4. saved[k].name = k
    BY <2>2, <2>3 DEF SavedInv, TilesInv, WellCut
  <2>5. part.name = Len(results) + 1
    <3>1. results # <<>>
      BY <2>2
    <3> QED BY <3>1 DEF PartInv, Busy
  <2> QED BY <1>1, <2>1, <2>4, <2>5
<1> QED BY <1>1, <1>2, <1>3

LEMMA UploadKeeps == CheckpointInv /\ Upload => CheckpointInv'
<1> SUFFICES ASSUME CheckpointInv, Upload PROVE CheckpointInv'
  OBVIOUS
<1> USE DEF CheckpointInv
<1>1. /\ pc = "part" /\ Len(results) >= known /\ pc' = "uploaded"
      /\ remote' = [remote EXCEPT ![part.name] = Digest(part)]
      /\ UNCHANGED <<queries, job, splitter, part, results, error>>
  BY DEF Upload
<1>2. /\ part.name \in Names /\ Digest(part) \in Digests
      /\ \A k \in DOMAIN saved : saved[k].name \in Names /\ saved[k].name # part.name
  BY <1>1, UploadIsNew, DigestType
<1>3. TypeOK'
  BY <1>1, <1>2 DEF TypeOK, queries, job, splitter
<1>4. LengthInv' /\ TilesInv' /\ PartInv'
  BY <1>1 DEF LengthInv, TilesInv, PartInv, WellCut, NextLo, Busy, Over, queries, splitter
<1>5. SavedInv'
  <2>1. Digest(part)' = Digest(part) /\ \A k \in DOMAIN results : Digest(results[k])' = Digest(results[k])
    BY <1>1 DEF Digest, splitter, job
  <2>2. /\ remote'[part.name] = Digest(part)
        /\ \A k \in DOMAIN saved : remote'[saved[k].name] = remote[saved[k].name]
    BY <1>1, <1>2 DEF TypeOK
  <2> QED BY <1>1, <2>1, <2>2 DEF SavedInv, job
<1> QED BY <1>3, <1>4, <1>5

LEMMA CheckpointKeeps == CheckpointInv /\ Checkpoint => CheckpointInv'
<1> SUFFICES ASSUME CheckpointInv, Checkpoint PROVE CheckpointInv'
  OBVIOUS
<1> USE DEF CheckpointInv
<1> DEFINE c == [name |-> part.name, digest |-> Digest(part)]
           n == Len(results) + 1
<1>1. /\ pc = "uploaded" /\ saved' = Append(saved, c) /\ PartDone
      /\ UNCHANGED <<queries, attempt, known, splitter, part, error, remote>>
  BY DEF Checkpoint
<1>2. /\ results' \in Seq(Parts) /\ pc' \in {"read", "end"} /\ TilesInv' /\ PartInv'
      /\ Len(results') = n /\ DOMAIN results' = 1..n
      /\ Len(results) \in Nat
      /\ \A k \in 1..Len(results) : results'[k] = results[k]
      /\ results'[n] = part
  BY <1>1, PartAdded DEF Busy
<1>3. c \in [name : Names, digest : Digests] /\ c.name = part.name /\ c.digest = Digest(part)
  <2>1. part.name \in Names
    BY DEF TypeOK, Parts
  <2> QED BY <1>1, <2>1, DigestType
<1> HIDE DEF c
<1>4. Len(saved) = Len(results) /\ known <= Len(results)
  BY <1>1 DEF SavedInv, TypeOK
<1>5. /\ saved' \in Seq([name : Names, digest : Digests])
      /\ Len(saved') = n /\ DOMAIN saved' = 1..n /\ DOMAIN saved = 1..Len(results)
      /\ \A k \in 1..Len(results) : saved'[k] = saved[k]
      /\ saved'[n] = c
  <2> DEFINE S == [name : Names, digest : Digests]
  <2>1. saved \in Seq(S) /\ c \in S
    BY <1>3 DEF TypeOK
  <2> HIDE DEF S
  <2>2. /\ saved' \in Seq(S)
        /\ Len(saved') = Len(saved) + 1 /\ DOMAIN saved' = 1..(Len(saved) + 1)
        /\ DOMAIN saved = 1..Len(saved)
        /\ \A k \in DOMAIN saved : saved'[k] = saved[k]
        /\ saved'[Len(saved) + 1] = c
    BY <1>1, <2>1, AppendFacts
  <2> QED BY <1>4, <2>2 DEF S
<1>6. TypeOK' /\ LengthInv'
  <2>1. known' \in 0..Len(saved')
    BY <1>1, <1>2, <1>4, <1>5 DEF TypeOK
  <2> QED BY <1>1, <1>2, <1>5, <2>1 DEF TypeOK, LengthInv, queries, splitter
<1>7. SavedInv'
  <2>1. ASSUME NEW k \in 1..n
        PROVE  /\ saved'[k].name = results'[k].name
               /\ saved'[k].digest = Digest(results'[k])
               /\ saved'[k].name \in {k, BaseName}
               /\ saved'[k].name = BaseName => n = 1
               /\ remote[saved'[k].name] = saved'[k].digest
    <3>1. CASE k = n
      BY <1>1, <1>2, <1>3, <1>5, <3>1 DEF SavedInv, PartInv, Busy
    <3>2. CASE k # n
      <4>1. k \in 1..Len(results) /\ k \in DOMAIN results /\ k \in DOMAIN saved
        BY <1>2, <1>5, <3>2 DEF TypeOK
      <4>2. /\ saved[k].name = results[k].name /\ saved[k].digest = Digest(results[k])
            /\ saved[k].name \in {k, BaseName}
            /\ remote[saved[k].name] = saved[k].digest
        BY <1>1, <4>1 DEF SavedInv
      <4>3. saved[k].name # BaseName
        BY <1>1, <4>1, <4>2 DEF TilesInv, WellCut
      <4> QED BY <1>2, <1>5, <4>1, <4>2, <4>3
    <3> QED BY <3>1, <3>2
  <2>2. \A k \in 1..n : Digest(results'[k]) = Digest(results[k])'
    BY <1>1 DEF Digest, splitter
  <2> QED BY <1>1, <1>2, <1>5, <2>1, <2>2 DEF SavedInv
<1> QED BY <1>2, <1>6, <1>7

\* An attempt that ends leaves every checkpointed file alone.
LEMMA RaiseKeeps ==
  ASSUME CheckpointInv, NEW e \in {"none", "mismatch", "short"}, Raise(e),
         \/ remote' = remote
         \/ /\ pc = "part" /\ Len(results) >= known
            /\ remote' = [remote EXCEPT ![part.name] = Absent]
  PROVE  CheckpointInv'
<1> USE DEF CheckpointInv
<1>1. pc' = "idle" /\ error' = e /\ UNCHANGED <<queries, job, splitter, part, results>>
  BY DEF Raise
<1>2. /\ remote' \in [Names -> Digests]
      /\ \A k \in DOMAIN saved : remote'[saved[k].name] = remote[saved[k].name]
  <2>1. CASE remote' = remote
    BY <2>1 DEF TypeOK
  <2>2. CASE /\ pc = "part" /\ Len(results) >= known
             /\ remote' = [remote EXCEPT ![part.name] = Absent]
    <3>1. Absent \in Digests
      BY CheckpointsAssumption DEF Absent, Digests
    <3> QED BY <2>2, <3>1, UploadIsNew DEF TypeOK
  <2> QED BY <2>1, <2>2
<1>3. TypeOK' /\ LengthInv'
  BY <1>1, <1>2 DEF TypeOK, LengthInv, queries, job, splitter
<1>4. TilesInv' /\ PartInv' /\ SavedInv'
  BY <1>1, <1>2
     DEF TilesInv, PartInv, SavedInv, WellCut, NextLo, Busy, Over, splitter, job
<1> QED BY <1>3, <1>4

LEMMA CompleteKeeps == CheckpointInv /\ Complete => CheckpointInv'
  BY DEF CheckpointInv, Complete, TypeOK, LengthInv, TilesInv, PartInv, SavedInv, WellCut,
         NextLo, Busy, Over, Digest, queries, job, splitter

LEMMA DataKeeps ==
  ASSUME CheckpointInv, NEW i \in 1..(Len(data) + 1), NEW new \in Seq(Records),
         DataChanges(i, new)
  PROVE  CheckpointInv'
<1> USE DEF CheckpointInv
<1>1. data \in Seq(Records) /\ Len(data) \in Nat
  BY DEF TypeOK
<1>2. /\ \A k \in 1..(i - 1) : data[k] \in Records
      /\ \A k \in (i + 1)..Len(data) : data[k] \in Records
  BY <1>1
<1>3. SubSeq(data, 1, i - 1) \in Seq(Records) /\ SubSeq(data, i + 1, Len(data)) \in Seq(Records)
  BY <1>1, <1>2, SubSeqProperties
<1>4. data' \in Seq(Records) /\ Len(data') <= MaxLen
  <2> DEFINE a == SubSeq(data, 1, i - 1)
             b == SubSeq(data, i + 1, Len(data))
  <2>1. data' = a \o new \o b /\ Len(data') <= MaxLen
    BY DEF DataChanges
  <2>2. a \in Seq(Records) /\ b \in Seq(Records)
    BY <1>3
  <2> HIDE DEF a, b
  <2> QED BY <2>1, <2>2
<1>5. /\ UNCHANGED <<job, pc, splitter, part, results, error, remote>>
      /\ changes' = changes + 1 /\ changes < MaxChanges
  BY DEF DataChanges
<1>6. TypeOK' /\ LengthInv'
  <2>1. changes' \in 0..MaxChanges
    <3>1. changes \in Nat /\ MaxChanges \in Nat
      BY CheckpointsAssumption DEF TypeOK
    <3> QED BY <1>5, <3>1
  <2> QED BY <1>4, <1>5, <2>1 DEF TypeOK, LengthInv, job, splitter
<1>7. TilesInv' /\ PartInv' /\ SavedInv'
  BY <1>5 DEF TilesInv, PartInv, SavedInv, WellCut, NextLo, Busy, Over, Digest, splitter, job
<1> QED BY <1>6, <1>7

LEMMA CheckpointStep == CheckpointInv /\ [Next]_vars => CheckpointInv'
<1> SUFFICES ASSUME CheckpointInv, [Next]_vars PROVE CheckpointInv'
  OBVIOUS
<1>1. CASE Mismatch
  BY <1>1, RaiseKeeps DEF Mismatch
<1>2. CASE UploadFails
  BY <1>2, RaiseKeeps DEF UploadFails
<1>3. CASE Short
  BY <1>3, RaiseKeeps DEF Short
<1>4. CASE Stop
  BY <1>4, RaiseKeeps DEF Stop
<1>5. ASSUME NEW i \in 1..(Len(data) + 1),
             NEW new \in UNION {[1..n -> Records] : n \in 0..2},
             DataChanges(i, new)
      PROVE  CheckpointInv'
  <2>1. new \in Seq(Records)
    <3>1. PICK n \in 0..2 : new \in [1..n -> Records]
      OBVIOUS
    <3>2. n \in Nat /\ \A m \in Nat : [1..m -> Records] \subseteq Seq(Records)
      OBVIOUS
    <3> QED BY <3>1, <3>2
  <2> QED BY <1>5, <2>1, DataKeeps
<1>6. CASE UNCHANGED vars
  BY <1>6 DEF CheckpointInv, TypeOK, LengthInv, TilesInv, PartInv, SavedInv, WellCut,
              NextLo, Busy, Over, Digest, vars
<1> QED
  BY <1>1, <1>2, <1>3, <1>4, <1>5, <1>6, StartKeeps, ColumnsKeep, WriteKeeps, EndKeeps,
     MatchKeeps, UploadKeeps, CheckpointKeeps, CompleteKeeps DEF Next

LEMMA CheckpointAlways == Spec => []CheckpointInv
  BY CheckpointInit, CheckpointStep, PTL DEF Spec

-----------------------------------------------------------------------------
\* Part names, positions and checkpoints stay in range for any sizes and bounds.
THEOREM CheckpointTypes == Spec => []TypeOK
<1>1. CheckpointInv => TypeOK
  BY DEF CheckpointInv
<1> QED BY <1>1, CheckpointAlways, PTL

\* Every checkpointed part is at the destination with the bytes that were hashed,
\* however often the export is stopped and resumed and whatever its queries answer.
THEOREM CheckpointsKept == Spec => []CheckpointsMatchRemote
<1>1. CheckpointInv => CheckpointsMatchRemote
  BY DEF CheckpointInv, SavedInv, CheckpointsMatchRemote
<1> QED BY <1>1, CheckpointAlways, PTL

\* The files of a completed export are one stream, the one its last attempt has read.
THEOREM OneStream == Spec => []CompletedIsOneStream
<1>1. CheckpointInv => CompletedIsOneStream
  <2> SUFFICES ASSUME CheckpointInv, pc = "done" PROVE CompletedIsOneStream
    BY DEF CompletedIsOneStream
  <2> USE DEF CheckpointInv
  <2>1. /\ results # <<>> /\ results[1].lo = 1 /\ results[Len(results)].hi = Len(read)
        /\ \A k \in 1..(Len(results) - 1) : results[k + 1].lo = results[k].hi + 1
    BY DEF PartInv, Over, TilesInv
  <2>2. \A k \in DOMAIN results :
          /\ remote[results[k].name].body = SubSeq(read, results[k].lo, results[k].hi)
          /\ remote[results[k].name].columns = columns
    <3> SUFFICES ASSUME NEW k \in DOMAIN results PROVE remote[results[k].name] = Digest(results[k])
      <4>1. \A p : /\ Digest(p).body = SubSeq(read, p.lo, p.hi)
                  /\ Digest(p).columns = columns
        BY DEF Digest
      <4> QED BY <4>1
    <3>1. k \in DOMAIN saved
      BY DEF SavedInv, TypeOK
    <3> QED BY <3>1 DEF SavedInv
  <2> QED BY <2>1, <2>2 DEF CompletedIsOneStream
<1> QED BY <1>1, CheckpointAlways, PTL

-----------------------------------------------------------------------------
(***************************************************************************)
(* Every attempt cuts unchanged data at the same places.  Where the cuts   *)
(* are is a function of the data, but one that would have to be defined    *)
(* and reasoned about by recursion.  A trace of the first m records is     *)
(* described instead: an attempt builds one, record by record, and every   *)
(* other trace agrees with it as far as both go.                           *)
(***************************************************************************)
\* After some records: bytes of the open part, parts that are full, and the
\* first record of the open part.
Cells == [fill : Nat, parts : Nat, lo : Nat]
First == [fill |-> Overhead, parts |-> 0, lo |-> 1]
After(c, i) ==
  LET size == c.fill + Size[data[i]]
  IN  IF size >= MaxBytes THEN [fill |-> Overhead, parts |-> c.parts + 1, lo |-> i + 1]
      ELSE [fill |-> size, parts |-> c.parts, lo |-> c.lo]

Trace(t, m) ==
  /\ m \in 0..Len(data) /\ t \in [0..m -> Cells] /\ t[0] = First
  /\ \A i \in 1..m : t[i] = After(t[i - 1], i)
  /\ \A i, k \in 0..m : i <= k => t[i].parts <= t[k].parts

\* The k-th part that the trace closes at record m is p: a full part, or the
\* last one, which is the only file of an export that was not split.
Closes(t, m, k, p) ==
  \/ /\ m > 0 /\ t[m].parts = k /\ t[m - 1].parts = k - 1
     /\ p.name = k /\ p.lo = t[m - 1].lo /\ p.hi = m
  \/ /\ m = Len(data) /\ k = t[m].parts + 1 /\ (t[m].lo <= m \/ t[m].parts = 0)
     /\ p.name = (IF t[m].parts = 0 THEN BaseName ELSE k) /\ p.lo = t[m].lo /\ p.hi = m

Made(k, p) == \E m, t : Trace(t, m) /\ Closes(t, m, k, p)

Agrees(t, w) == \A m, u : Trace(u, m) => \A i \in 0..m : i <= w => u[i] = t[i]

ColumnsOf == UNION {Fields[data[k]] : k \in 1..Min2(Lookahead, Len(data))}
Content(d, p) ==
  /\ d.columns = ColumnsOf /\ d.body = SubSeq(data, p.lo, p.hi)
  /\ ~Compress => d.stamp = 0

\* Where the attempt is on its own trace.
Here(t) ==
  /\ pc \in {"columns", "read"} =>
       t[written] = [fill |-> fill, parts |-> Len(results), lo |-> NextLo]
  /\ Busy => /\ Closes(t, written, Len(results) + 1, part)
             /\ ~part.last => t[written] = [fill |-> fill, parts |-> Len(results) + 1,
                                            lo |-> written + 1]
             /\ part.last => t[written].parts = Len(results) /\ written = Len(data)
                             /\ (t[written].lo <= written \/ t[written].parts = 0)
  /\ Over => /\ written = Len(data)
             /\ Len(results) = IF t[written].lo <= written \/ t[written].parts = 0
                               THEN t[written].parts + 1 ELSE t[written].parts
  /\ \A k \in DOMAIN results : \E m \in 0..written : Closes(t, m, k, results[k])

ReadInv == Len(read) <= Len(data) /\ \A i \in 1..Len(read) : read[i] = data[i]
FreshInv == pc = "columns" => fill = Overhead
ColumnsInv == pc \notin {"idle", "columns"} => columns = ColumnsOf
MadeInv ==
  /\ \A k \in DOMAIN saved : \E p \in Parts :
       Made(k, p) /\ saved[k].name = p.name /\ Content(saved[k].digest, p)
  /\ \A n \in Names : remote[n] # Absent => \E k \in Nat, p \in Parts : Made(k, p) /\ p.name = n
HereInv == pc # "idle" => \E t : Trace(t, written) /\ Agrees(t, written) /\ Here(t)

ReplayInv ==
  changes = 0 =>
    /\ ReadInv /\ FreshInv /\ ColumnsInv /\ MadeInv /\ HereInv
    /\ ~Compress => error = "none"

-----------------------------------------------------------------------------
LEMMA AfterFacts ==
  ASSUME TypeOK, NEW c \in Cells, NEW i \in 1..Len(data)
  PROVE  /\ After(c, i) \in Cells
         /\ After(c, i).parts \in {c.parts, c.parts + 1}
<1>1. data[i] \in Records /\ data[i] \in DOMAIN Size
  BY CheckpointsAssumption DEF TypeOK
<1>2. Size[data[i]] \in Nat /\ Overhead \in Nat /\ MaxBytes \in Nat
  BY <1>1, CheckpointsAssumption
<1>3. PICK size \in Nat : size = c.fill + Size[data[i]]
  BY <1>2 DEF Cells
<1>4. After(c, i) = IF size >= MaxBytes
                    THEN [fill |-> Overhead, parts |-> c.parts + 1, lo |-> i + 1]
                    ELSE [fill |-> size, parts |-> c.parts, lo |-> c.lo]
  BY <1>3 DEF After
<1> QED BY <1>2, <1>4 DEF Cells

\* A trace goes on by one record, in one way.
LEMMA Extends ==
  ASSUME TypeOK, NEW w \in 0..Len(data), w < Len(data), NEW t, Trace(t, w), Agrees(t, w)
  PROVE  \E e : /\ Trace(e, w + 1) /\ Agrees(e, w + 1)
                /\ \A i \in 0..w : e[i] = t[i]
                /\ e[w + 1] = After(t[w], w + 1)
<1> DEFINE e == [i \in 0..(w + 1) |-> IF i <= w THEN t[i] ELSE After(t[w], w + 1)]
<1>1. Len(data) \in Nat /\ w \in Nat /\ w + 1 \in 1..Len(data)
  BY DEF TypeOK
<1>2. /\ \A i \in 0..w : e[i] = t[i] /\ t[i] \in Cells
      /\ e[w + 1] = After(t[w], w + 1)
  BY <1>1 DEF Trace
<1>3. /\ After(t[w], w + 1) \in Cells
      /\ After(t[w], w + 1).parts \in {t[w].parts, t[w].parts + 1}
  BY <1>1, <1>2, AfterFacts
<1>4. e \in [0..(w + 1) -> Cells]
  BY <1>1, <1>3 DEF Trace
<1> HIDE DEF e
<1>5. \A i \in 1..(w + 1) : e[i] = After(e[i - 1], i)
  <2>1. ASSUME NEW i \in 1..(w + 1) PROVE e[i] = After(e[i - 1], i)
    <3>1. i - 1 \in 0..w /\ e[i - 1] = t[i - 1]
      BY <1>1, <1>2
    <3>2. CASE i = w + 1
      <4>1. i - 1 = w
        BY <1>1, <3>2
      <4> QED BY <1>2, <3>1, <3>2, <4>1
    <3>3. CASE i # w + 1
      <4>1. i \in 1..w /\ i \in 0..w
        BY <1>1, <3>3
      <4> QED BY <1>2, <3>1, <4>1 DEF Trace
    <3> QED BY <3>2, <3>3
  <2> QED BY <2>1
<1>6. \A i, k \in 0..(w + 1) : i <= k => e[i].parts <= e[k].parts
  <2>1. \A i \in 0..w : t[i].parts \in Nat /\ t[i].parts <= t[w].parts
    BY <1>1, <1>2 DEF Trace, Cells
  <2>2. w \in 0..w /\ e[w + 1].parts \in Nat /\ t[w].parts <= e[w + 1].parts
    BY <1>1, <1>2, <1>3, <2>1 DEF Cells
  <2>3. \A i \in 0..w : e[i].parts \in Nat /\ e[i].parts <= e[w + 1].parts
    BY <1>2, <2>1, <2>2
  <2>4. \A i, k \in 0..w : i <= k => e[i].parts <= e[k].parts
    BY <1>2 DEF Trace
  <2>5. \A i \in 0..(w + 1) : i \in 0..w \/ i = w + 1
    BY <1>1
  <2>6. \A i \in 0..w : ~(w + 1 <= i)
    BY <1>1
  <2>7. e[w + 1].parts <= e[w + 1].parts
    BY <2>2
  <2> QED BY <2>3, <2>4, <2>5, <2>6, <2>7
<1>7. Trace(e, w + 1)
  <2>1. e[0] = First
    BY <1>1, <1>2 DEF Trace
  <2> QED BY <1>1, <1>4, <1>5, <1>6, <2>1 DEF Trace
<1>8. Agrees(e, w + 1)
  <2> SUFFICES ASSUME NEW m, NEW u, Trace(u, m), NEW i \in 0..m, i <= w + 1
               PROVE  u[i] = e[i]
    BY DEF Agrees
  <2>1. m \in 0..Len(data) /\ m \in Nat /\ i \in Nat
    BY <1>1 DEF Trace
  <2>2. CASE i <= w
    BY <1>1, <1>2, <2>1, <2>2 DEF Agrees
  <2>3. CASE i = w + 1
    <3>1. w \in 0..m /\ i \in 1..m /\ i - 1 = w
      BY <1>1, <2>1, <2>3
    <3>2. u[w] = t[w]
      BY <1>1, <3>1 DEF Agrees
    <3>3. u[i] = After(u[i - 1], i)
      BY <3>1 DEF Trace
    <3> QED BY <1>2, <2>3, <3>1, <3>2, <3>3
  <2> QED BY <1>1, <2>1, <2>2, <2>3
<1> QED BY <1>2, <1>7, <1>8

LEMMA Starts ==
  ASSUME TypeOK
  PROVE  \E t : Trace(t, 0) /\ Agrees(t, 0) /\ t[0] = First
<1> DEFINE t == [i \in 0..0 |-> First]
<1>1. t[0] = First /\ t \in [0..0 -> Cells] /\ Len(data) \in Nat
  BY CheckpointsAssumption DEF First, Cells, TypeOK
<1> HIDE DEF t
<1>2. First.parts <= First.parts
  BY DEF First
<1>3. Trace(t, 0)
  BY <1>1, <1>2 DEF Trace
<1>4. Agrees(t, 0)
  BY <1>1 DEF Agrees, Trace
<1> QED BY <1>1, <1>3, <1>4

\* What one trace closes as its k-th part is what any other closes.
LEMMA ClosesOnce ==
  ASSUME TypeOK, NEW w, NEW t, Trace(t, w), Agrees(t, w), NEW k \in Nat,
         NEW n \in 0..w, NEW q, Closes(t, n, k, q),
         NEW m, NEW u, Trace(u, m), NEW p, Closes(u, m, k, p)
  PROVE  p.name = q.name /\ p.lo = q.lo /\ p.hi = q.hi
<1>1. /\ Len(data) \in Nat /\ w \in Nat /\ m \in Nat /\ n \in Nat
      /\ w <= Len(data) /\ m <= Len(data) /\ n <= w
  BY DEF TypeOK, Trace
<1>2. /\ \A i \in 0..w : t[i].parts \in Nat
      /\ \A i \in 0..m : u[i].parts \in Nat
      /\ \A i \in 0..m : i <= w => u[i] = t[i]
      /\ \A i, j \in 0..w : i <= j => t[i].parts <= t[j].parts
      /\ \A i, j \in 0..m : i <= j => u[i].parts <= u[j].parts
  <2>1. \A c \in Cells : c.parts \in Nat
    BY DEF Cells
  <2> QED BY <2>1 DEF Trace, Agrees
<1>3. n \in 0..w /\ m \in 0..m
  BY <1>1
<1>4. CASE n < m
  <2>1. n \in 0..m /\ m - 1 \in 0..m /\ n <= m - 1 /\ n # Len(data)
    BY <1>1, <1>4
  <2>2. u[n] = t[n] /\ u[n].parts <= u[m - 1].parts /\ u[n].parts <= u[m].parts
    BY <1>1, <1>2, <1>3, <1>4, <2>1
  <2>3. t[n].parts = k
    BY <2>1 DEF Closes
  <2>4. u[m - 1].parts = k - 1 \/ (k = u[m].parts + 1)
    BY DEF Closes
  <2> QED BY <1>2, <1>3, <2>1, <2>2, <2>3, <2>4
<1>5. CASE m < n
  <2>1. m \in 0..w /\ n - 1 \in 0..w /\ m <= n - 1 /\ m # Len(data)
    BY <1>1, <1>5
  <2>2. u[m] = t[m] /\ t[m].parts <= t[n - 1].parts /\ t[m].parts <= t[n].parts
    BY <1>1, <1>2, <1>3, <1>5, <2>1
  <2>3. u[m].parts = k
    BY <2>1 DEF Closes
  <2>4. t[n - 1].parts = k - 1 \/ (k = t[n].parts + 1)
    BY DEF Closes
  <2> QED BY <1>2, <1>3, <2>1, <2>2, <2>3, <2>4
<1>6. CASE m = n
  <2>1. u[m] = t[m]
    BY <1>1, <1>2, <1>3, <1>6
  <2>2. m > 0 => u[m - 1] = t[m - 1]
    <3>1. m > 0 => m - 1 \in 0..m /\ m - 1 <= w
      BY <1>1, <1>6
    <3> QED BY <1>2, <3>1
  <2>3. u[m].parts \in Nat
    BY <1>2, <1>3
  <2>4. ~(u[m].parts = k /\ k = u[m].parts + 1)
    BY <2>3
  <2> QED BY <1>6, <2>1, <2>2, <2>4 DEF Closes
<1> QED BY <1>1, <1>4, <1>5, <1>6

\* Two sequences that agree so far cut alike.
LEMMA CutAlike ==
  ASSUME NEW S, NEW s \in Seq(S), NEW r \in Seq(S), NEW lo \in Nat \ {0}, NEW hi \in Nat,
         hi <= Len(s), hi <= Len(r), \A i \in 1..hi : s[i] = r[i]
  PROVE  SubSeq(s, lo, hi) = SubSeq(r, lo, hi)
OBVIOUS

\* What a step says of traces when it leaves the data alone.
LEMMA DataStays ==
  ASSUME data' = data
  PROVE  /\ \A t, m : Trace(t, m)' <=> Trace(t, m)
         /\ \A t, m : Agrees(t, m)' <=> Agrees(t, m)
         /\ \A t, m, k, p : Closes(t, m, k, p)' <=> Closes(t, m, k, p)
         /\ \A k, p : Made(k, p)' <=> Made(k, p)
         /\ \A d, p : Content(d, p)' <=> Content(d, p)
         /\ ColumnsOf' = ColumnsOf
<1>1. \A t, m : Trace(t, m)' <=> Trace(t, m)
  BY DEF Trace, After
<1>2. \A t, m, k, p : Closes(t, m, k, p)' <=> Closes(t, m, k, p)
  BY DEF Closes
<1>3. ColumnsOf' = ColumnsOf
  BY DEF ColumnsOf
<1> QED BY <1>1, <1>2, <1>3 DEF Agrees, Made, Content

\* A step after which the files and checkpoints are as they were, or fewer.
LEMMA MadeStays ==
  ASSUME MadeInv, data' = data, saved' = saved,
         \A n \in Names : remote'[n] # Absent => remote[n] # Absent
  PROVE  MadeInv'
BY DataStays DEF MadeInv

\* A trace that the step leaves where the attempt is.
LEMMA HereNext ==
  ASSUME data' = data, NEW t, NEW w, written' = w, Trace(t, w), Agrees(t, w), Here(t)'
  PROVE  HereInv'
<1>1. Trace(t, w)' /\ Agrees(t, w)'
  BY DataStays
<1>2. Trace(t, written)' /\ Agrees(t, written)'
  BY <1>1 DEF Trace, Agrees
<1> QED BY <1>2 DEF HereInv

LEMMA ReplayInit == Init => ReplayInv
<1> SUFFICES ASSUME Init PROVE ReplayInv
  OBVIOUS
<1>1. data \in Seq(Records) /\ Len(data) \in Nat
  BY CheckpointsAssumption DEF Init
<1> QED BY <1>1 DEF Init, ReplayInv, ReadInv, FreshInv, ColumnsInv, MadeInv, HereInv

LEMMA StartReplays ==
  ASSUME CheckpointInv, ReplayInv, StartAttempt, changes = 0
  PROVE  ReplayInv'
<1>1. /\ data' = data /\ changes' = 0 /\ saved' = saved /\ remote' = remote /\ pc' = "columns"
      /\ read' = <<>> /\ written' = 0 /\ fill' = Overhead /\ results' = <<>> /\ error' = "none"
  BY DEF StartAttempt, queries
<1>2. TypeOK /\ Len(data) \in Nat
  BY DEF CheckpointInv, TypeOK
<1>3. MadeInv'
  BY <1>1, MadeStays DEF ReplayInv
<1>4. HereInv'
  <2>1. PICK t : Trace(t, 0) /\ Agrees(t, 0) /\ t[0] = First
    BY <1>2, Starts
  <2>2. Here(t)'
    <3>1. NextLo' = 1
      BY <1>1 DEF NextLo
    <3> QED BY <1>1, <2>1, <3>1 DEF Here, First, Busy, Over
  <2> QED BY <1>1, <2>1, <2>2, HereNext
<1> QED BY <1>1, <1>2, <1>3, <1>4 DEF ReplayInv, ReadInv, FreshInv, ColumnsInv

\* Reading the columns ahead.
LEMMA ColumnsReplay ==
  ASSUME CheckpointInv, ReplayInv, ReadColumns, changes = 0
  PROVE  ReplayInv'
<1> DEFINE n == Min2(Lookahead, Len(data))
<1>1. /\ data' = data /\ changes' = 0 /\ saved' = saved /\ remote' = remote /\ pc' = "read"
      /\ read' = SubSeq(data, 1, n) /\ pc = "columns"
      /\ columns' = UNION {Fields[read'[k]] : k \in DOMAIN read'}
      /\ UNCHANGED <<written, fill, part, results, error>>
  BY DEF ReadColumns, queries, job
<1>2. n \in Nat /\ n <= Len(data) /\ data \in Seq(Records) /\ Len(data) \in Nat
  BY CheckpointsAssumption DEF Min2, CheckpointInv, TypeOK
<1> HIDE DEF n
<1>3. /\ Len(read') = n /\ DOMAIN read' = 1..n /\ \A i \in 1..n : read'[i] = data[i]
  BY <1>1, <1>2
<1>4. ReadInv'
  BY <1>1, <1>2, <1>3 DEF ReadInv
<1>5. ColumnsInv'
  <2>1. {Fields[read'[k]] : k \in 1..n} = {Fields[data[k]] : k \in 1..n}
    BY <1>3
  <2>2. columns' = UNION {Fields[data[k]] : k \in 1..n}
    BY <1>1, <1>3, <2>1
  <2>3. columns' = ColumnsOf'
    BY <1>1, <2>2, DataStays DEF ColumnsOf, n
  <2> QED BY <2>3 DEF ColumnsInv
<1>6. MadeInv'
  BY <1>1, MadeStays DEF ReplayInv
<1>7. HereInv'
  <2>1. PICK t : Trace(t, written) /\ Agrees(t, written) /\ Here(t)
    BY <1>1 DEF ReplayInv, HereInv
  <2>2. NextLo' = NextLo
    BY <1>1 DEF NextLo
  <2>3. Here(t)'
    BY <1>1, <2>1, <2>2, DataStays DEF Here, Busy, Over, Closes
  <2> QED BY <1>1, <2>1, <2>3, HereNext
<1> QED BY <1>1, <1>4, <1>5, <1>6, <1>7 DEF ReplayInv, FreshInv

LEMMA WriteReplays ==
  ASSUME CheckpointInv, CheckpointInv', ReplayInv, WriteRecord, changes = 0
  PROVE  ReplayInv'
<1> DEFINE size == fill + Size[read'[written']]
<1>1. /\ data' = data /\ changes' = 0 /\ saved' = saved /\ remote' = remote
      /\ pc = "read" /\ ~Exhausted /\ read' = NextRead /\ written' = written + 1
      /\ columns' = columns /\ results' = results /\ error' = error
  BY DEF WriteRecord, queries, job
<1>2. /\ TypeOK /\ data \in Seq(Records) /\ read \in Seq(Records) /\ Len(data) \in Nat
      /\ Len(read) \in Nat /\ written \in 0..Len(read) /\ ReadInv
  BY <1>1 DEF CheckpointInv, TypeOK, ReplayInv
<1>3. ReadInv' /\ read'[written'] = data[written + 1] /\ written < Len(data)
  <2>1. CASE written < Len(read)
    BY <1>1, <1>2, <2>1 DEF NextRead, ReadInv
  <2>2. CASE ~(written < Len(read))
    <3>1. written = Len(read) /\ Len(read) < Len(data) /\ Len(read) + 1 \in 1..Len(data)
      BY <1>1, <1>2, <2>2 DEF Exhausted, ReadInv
    <3>2. PICK e \in Records : e = data[Len(read) + 1]
      BY <1>2, <3>1
    <3>3. read' = Append(read, e)
      BY <1>1, <2>2, <3>2 DEF NextRead
    <3>4. /\ Len(read') = Len(read) + 1 /\ read'[Len(read) + 1] = e
          /\ \A i \in 1..Len(read) : read'[i] = read[i]
      BY <1>2, <3>3, AppendFacts
    <3>5. \A i \in 1..(Len(read) + 1) : read'[i] = data[i]
      BY <1>2, <3>2, <3>4 DEF ReadInv
    <3> QED BY <1>1, <1>2, <3>1, <3>2, <3>4, <3>5 DEF ReadInv
  <2> QED BY <2>1, <2>2
<1>4. PICK t : Trace(t, written) /\ Agrees(t, written) /\ Here(t)
  BY <1>1 DEF ReplayInv, HereInv
<1>5. PICK e : /\ Trace(e, written + 1) /\ Agrees(e, written + 1)
               /\ \A i \in 0..written : e[i] = t[i]
               /\ e[written + 1] = After(t[written], written + 1)
  <2>1. written \in 0..Len(data)
    BY <1>2, <1>3
  <2> QED BY <1>2, <1>3, <1>4, <2>1, Extends
<1>6. /\ written \in 0..written /\ written \in Nat /\ written + 1 > 0 /\ (written + 1) - 1 = written
      /\ \A m \in 0..written : m \in 0..(written + 1) /\ m # Len(data)
                               /\ (m > 0 => m - 1 \in 0..written)
  BY <1>2, <1>3
<1>7. t[written] = [fill |-> fill, parts |-> Len(results), lo |-> NextLo] /\ Len(results) \in Nat
  BY <1>1, <1>2, <1>4 DEF Here, TypeOK
<1>8. e[written] = t[written]
  BY <1>5, <1>6
<1>9. \A k \in DOMAIN results : \E m \in 0..(written + 1) : Closes(e, m, k, results[k])
  <2>1. ASSUME NEW k \in DOMAIN results
        PROVE  \E m \in 0..(written + 1) : Closes(e, m, k, results[k])
    <3>1. PICK m \in 0..written : Closes(t, m, k, results[k])
      BY <1>4, <2>1 DEF Here
    <3>2. e[m] = t[m] /\ (m > 0 => e[m - 1] = t[m - 1]) /\ m # Len(data)
      BY <1>5, <1>6, <3>1
    <3>3. Closes(e, m, k, results[k])
      BY <3>1, <3>2 DEF Closes
    <3> QED BY <1>6, <3>1, <3>3
  <2> QED BY <2>1
<1>10. NextLo' = NextLo
  BY <1>1 DEF NextLo
<1>11. Here(e)'
  <2>1. size = fill + Size[data[written + 1]]
    BY <1>3
  <2>2. CASE size >= MaxBytes
    <3>1. /\ pc' = "part" /\ fill' = Overhead
          /\ part' = [name |-> Len(results) + 1, lo |-> NextLo, hi |-> written', last |-> FALSE]
      BY <2>2 DEF WriteRecord
    <3>2. e[written + 1] = [fill |-> Overhead, parts |-> Len(results) + 1, lo |-> written + 2]
      BY <1>5, <1>6, <1>7, <2>1, <2>2 DEF After
    <3>3. Closes(e, written + 1, Len(results) + 1, part')
      BY <1>1, <1>6, <1>7, <1>8, <3>1, <3>2 DEF Closes
    <3>4. Closes(e, written', Len(results') + 1, part') /\ part'.last = FALSE
      BY <1>1, <3>1, <3>3
    <3>5. (written + 1) + 1 = written + 2
      BY <1>6
    <3>6. e[written'] = [fill |-> fill', parts |-> Len(results') + 1, lo |-> written' + 1]
      BY <1>1, <3>1, <3>2, <3>5
    <3> QED BY <1>1, <1>9, <3>1, <3>4, <3>6 DEF Here, Busy, Over, Closes
  <2>3. CASE ~(size >= MaxBytes)
    <3>1. fill' = size /\ pc' = "read"
      BY <1>1, <2>3 DEF WriteRecord
    <3>2. e[written + 1] = [fill |-> size, parts |-> Len(results), lo |-> NextLo]
      BY <1>5, <1>7, <2>1, <2>3 DEF After
    <3> QED BY <1>1, <1>9, <1>10, <3>1, <3>2 DEF Here, Busy, Over, Closes
  <2> QED BY <2>2, <2>3
<1>12. HereInv'
  BY <1>1, <1>5, <1>11, HereNext
<1>13. MadeInv'
  BY <1>1, MadeStays DEF ReplayInv
<1>14. ColumnsInv' /\ FreshInv' /\ (~Compress => error' = "none")
  <2>1. pc' \in {"read", "part"}
    BY <1>1 DEF WriteRecord
  <2> QED BY <1>1, <2>1, DataStays DEF ReplayInv, ColumnsInv, FreshInv
<1> QED BY <1>1, <1>3, <1>12, <1>13, <1>14 DEF ReplayInv

LEMMA EndReplays ==
  ASSUME CheckpointInv, ReplayInv, EndOfRecords, changes = 0
  PROVE  ReplayInv'
<1>1. /\ data' = data /\ changes' = 0 /\ saved' = saved /\ remote' = remote
      /\ pc = "read" /\ Exhausted /\ UNCHANGED <<read, written, columns, fill, results, error>>
  BY DEF EndOfRecords, queries, job, splitter
<1>2. /\ TypeOK /\ Len(data) \in Nat /\ Len(read) \in Nat /\ written \in 0..Len(read) /\ ReadInv
      /\ Len(results) \in Nat /\ (results = <<>> <=> Len(results) = 0)
  BY <1>1 DEF CheckpointInv, TypeOK, ReplayInv
<1>3. written = Len(data)
  BY <1>1, <1>2 DEF Exhausted, ReadInv
<1>4. PICK t : Trace(t, written) /\ Agrees(t, written) /\ Here(t)
  BY <1>1 DEF ReplayInv, HereInv
<1>5. PICK c : /\ t[written] = c /\ c.parts = Len(results) /\ c.lo = NextLo /\ NextLo \in Nat
  BY <1>1, <1>4, NextLoFacts DEF Here
<1>6. Here(t)'
  <2>1. CASE NextLo > written /\ results # <<>>
    <3>1. pc' = "end" /\ part' = part
      BY <2>1 DEF EndOfRecords
    <3>2. Len(results) = IF t[written].lo <= written \/ t[written].parts = 0
                         THEN t[written].parts + 1 ELSE t[written].parts
      BY <1>2, <1>5, <2>1
    <3> QED BY <1>1, <1>3, <1>4, <3>1, <3>2 DEF Here, Busy, Over, Closes
  <2>2. CASE ~(NextLo > written /\ results # <<>>)
    <3>1. /\ pc' = "part"
          /\ part' = [name |-> IF results = <<>> THEN BaseName ELSE Len(results) + 1,
                      lo |-> NextLo, hi |-> written, last |-> TRUE]
      BY <2>2 DEF EndOfRecords
    <3>2. t[written].lo <= written \/ t[written].parts = 0
      BY <1>2, <1>5, <2>2
    <3>3. Closes(t, written, Len(results) + 1, part')
      BY <1>2, <1>3, <1>5, <3>1, <3>2 DEF Closes
    <3>4. part'.last = TRUE /\ t[written].parts = Len(results)
      BY <1>5, <3>1
    <3> QED BY <1>1, <1>3, <1>4, <3>1, <3>2, <3>3, <3>4 DEF Here, Busy, Over, Closes
  <2> QED BY <2>1, <2>2
<1>7. HereInv' /\ MadeInv'
  BY <1>1, <1>4, <1>6, HereNext, MadeStays DEF ReplayInv
<1>8. ReadInv' /\ ColumnsInv' /\ FreshInv' /\ (~Compress => error' = "none")
  <2>1. pc' \in {"end", "part"}
    BY DEF EndOfRecords
  <2> QED BY <1>1, <2>1, DataStays DEF ReplayInv, ReadInv, ColumnsInv, FreshInv
<1> QED BY <1>1, <1>7, <1>8 DEF ReplayInv

\* A part that joins those of the attempt stays on its trace.
LEMMA AddedReplays ==
  ASSUME CheckpointInv, ReplayInv, Busy, PartDone, changes = 0,
         UNCHANGED <<queries, splitter, part, error>>
  PROVE  /\ changes' = 0 /\ ReadInv' /\ ColumnsInv' /\ FreshInv' /\ HereInv'
         /\ ~Compress => error' = "none"
<1>1. /\ data' = data /\ changes' = 0 /\ pc \in {"part", "uploaded"}
      /\ UNCHANGED <<read, written, columns, fill, part, error>>
  BY DEF queries, splitter, Busy
<1>2. /\ Len(results') = Len(results) + 1 /\ DOMAIN results' = 1..(Len(results) + 1)
      /\ Len(results) \in Nat
      /\ \A k \in 1..Len(results) : results'[k] = results[k]
      /\ results'[Len(results) + 1] = part
  BY PartAdded
<1>3. pc' = (IF part.last THEN "end" ELSE "read") /\ part.last \in BOOLEAN /\ part.hi = written
  BY DEF PartDone, CheckpointInv, TypeOK, Parts, PartInv
<1>4. PICK t : Trace(t, written) /\ Agrees(t, written) /\ Here(t)
  BY <1>1 DEF ReplayInv, HereInv
<1>5. written \in Nat /\ written \in 0..written /\ DOMAIN results = 1..Len(results)
  BY DEF CheckpointInv, TypeOK
<1>6. \A k \in DOMAIN results' : \E m \in 0..written : Closes(t, m, k, results'[k])
  <2>1. ASSUME NEW k \in DOMAIN results'
        PROVE  \E m \in 0..written : Closes(t, m, k, results'[k])
    <3>1. CASE k = Len(results) + 1
      BY <1>2, <1>4, <1>5, <3>1 DEF Here
    <3>2. CASE k # Len(results) + 1
      <4>1. k \in DOMAIN results /\ results'[k] = results[k]
        BY <1>2, <1>5, <3>2
      <4> QED BY <1>4, <4>1 DEF Here
    <3> QED BY <3>1, <3>2
  <2> QED BY <2>1
<1>7. Here(t)'
  <2>1. CASE part.last
    <3>1. /\ t[written].parts = Len(results) /\ written = Len(data)
          /\ (t[written].lo <= written \/ t[written].parts = 0)
      BY <1>4, <2>1 DEF Here
    <3>2. pc' = "end"
      BY <1>3, <2>1
    <3> QED BY <1>1, <1>2, <1>6, <3>1, <3>2 DEF Here, Busy, Over, Closes
  <2>2. CASE ~part.last
    <3>1. t[written] = [fill |-> fill, parts |-> Len(results) + 1, lo |-> written + 1]
      BY <1>4, <2>2 DEF Here
    <3>2. NextLo' = written + 1
      <4>1. results' # <<>>
        BY <1>2
      <4> QED BY <1>2, <1>3, <4>1 DEF NextLo
    <3>3. pc' = "read"
      BY <1>3, <2>2
    <3> QED BY <1>1, <1>2, <1>6, <3>1, <3>2, <3>3 DEF Here, Busy, Over, Closes
  <2> QED BY <1>3, <2>1, <2>2
<1>8. HereInv'
  BY <1>1, <1>4, <1>7, HereNext
<1>9. pc' \in {"end", "read"}
  BY <1>3
<1> QED BY <1>1, <1>8, <1>9, DataStays DEF ReplayInv, ReadInv, ColumnsInv, FreshInv

LEMMA MatchReplays ==
  ASSUME CheckpointInv, ReplayInv, Match, changes = 0
  PROVE  ReplayInv'
<1>1. /\ data' = data /\ saved' = saved /\ remote' = remote /\ Busy /\ PartDone
      /\ UNCHANGED <<queries, splitter, part, error>>
  BY DEF Match, Busy, queries, job
<1> QED BY <1>1, AddedReplays, MadeStays DEF ReplayInv

\* What the part in hand is, seen from the data.
LEMMA InHand ==
  ASSUME CheckpointInv, ReplayInv, Busy, changes = 0
  PROVE  /\ part \in Parts /\ Len(results) + 1 \in Nat
         /\ Made(Len(results) + 1, part) /\ Content(Digest(part), part)
<1>1. /\ TypeOK /\ pc \in {"part", "uploaded"} /\ part \in Parts /\ Len(results) \in Nat
  BY DEF CheckpointInv, TypeOK, Busy
<1>2. PICK t : Trace(t, written) /\ Here(t)
  BY <1>1 DEF ReplayInv, HereInv
<1>3. Made(Len(results) + 1, part)
  BY <1>2 DEF Here, Made
<1>4. Content(Digest(part), part)
  <2>1. /\ read \in Seq(Records) /\ data \in Seq(Records) /\ Len(data) \in Nat /\ Len(read) \in Nat
        /\ part.lo \in Nat \ {0} /\ part.hi \in Nat /\ part.hi <= Len(read) /\ ReadInv
    BY DEF CheckpointInv, TypeOK, Parts, PartInv, WellCut, ReplayInv
  <2>2. SubSeq(read, part.lo, part.hi) = SubSeq(data, part.lo, part.hi)
    <3>1. \A i \in 1..part.hi : read[i] = data[i]
      BY <2>1 DEF ReadInv
    <3>2. part.hi <= Len(data)
      BY <2>1 DEF ReadInv
    <3> QED BY <2>1, <3>1, <3>2, CutAlike
  <2>3. columns = ColumnsOf
    BY <1>1 DEF ReplayInv, ColumnsInv
  <2>4. /\ Digest(part).columns = columns
        /\ Digest(part).body = SubSeq(read, part.lo, part.hi)
        /\ ~Compress => Digest(part).stamp = 0
    BY DEF Digest
  <2> QED BY <2>2, <2>3, <2>4 DEF Content
<1> QED BY <1>1, <1>3, <1>4

LEMMA UploadReplays ==
  ASSUME CheckpointInv, ReplayInv, Upload, changes = 0
  PROVE  ReplayInv'
<1>1. /\ pc = "part" /\ pc' = "uploaded" /\ data' = data /\ changes' = 0 /\ saved' = saved
      /\ remote' = [remote EXCEPT ![part.name] = Digest(part)]
      /\ UNCHANGED <<read, written, columns, fill, part, results, error>>
  BY DEF Upload, queries, job, splitter
<1>2. /\ part \in Parts /\ Len(results) + 1 \in Nat /\ Made(Len(results) + 1, part)
  BY <1>1, InHand DEF Busy
<1>3. MadeInv'
  <2>1. /\ \A k \in DOMAIN saved : \E p \in Parts :
             Made(k, p) /\ saved[k].name = p.name /\ Content(saved[k].digest, p)
        /\ \A n \in Names : remote[n] # Absent => \E k \in Nat, p \in Parts : Made(k, p) /\ p.name = n
    BY DEF ReplayInv, MadeInv
  <2>2. \A n \in Names : remote'[n] # Absent => \E k \in Nat, p \in Parts : Made(k, p) /\ p.name = n
    <3>1. ASSUME NEW n \in Names, n # part.name PROVE remote'[n] = remote[n]
      BY <1>1, <3>1 DEF CheckpointInv, TypeOK
    <3> QED BY <1>2, <2>1, <3>1
  <2> QED BY <1>1, <2>1, <2>2, DataStays DEF MadeInv
<1>4. PICK t : Trace(t, written) /\ Agrees(t, written) /\ Here(t)
  BY <1>1 DEF ReplayInv, HereInv
<1>5. Here(t)'
  BY <1>1, <1>4 DEF Here, Busy, Over, Closes
<1>6. HereInv'
  BY <1>1, <1>4, <1>5, HereNext
<1> QED BY <1>1, <1>3, <1>6, DataStays DEF ReplayInv, ReadInv, ColumnsInv, FreshInv

LEMMA CheckpointReplays ==
  ASSUME CheckpointInv, ReplayInv, Checkpoint, changes = 0
  PROVE  ReplayInv'
<1> DEFINE c == [name |-> part.name, digest |-> Digest(part)]
<1>1. /\ pc = "uploaded" /\ Busy /\ PartDone /\ data' = data /\ remote' = remote
      /\ saved' = Append(saved, c) /\ UNCHANGED <<queries, splitter, part, error>>
  BY DEF Checkpoint, Busy, queries
<1>2. /\ part \in Parts /\ Len(results) + 1 \in Nat /\ Made(Len(results) + 1, part)
      /\ Content(Digest(part), part)
  BY <1>1, InHand
<1>3. c \in [name : Names, digest : Digests] /\ c.name = part.name /\ c.digest = Digest(part)
  <2>1. part.name \in Names
    BY <1>2 DEF Parts
  <2> QED BY <1>1, <2>1, DigestType
<1> HIDE DEF c
<1>4. Len(saved) = Len(results)
  BY <1>1 DEF CheckpointInv, SavedInv, TypeOK
<1>5. /\ DOMAIN saved' = 1..(Len(saved) + 1) /\ DOMAIN saved = 1..Len(saved)
      /\ \A k \in DOMAIN saved : saved'[k] = saved[k]
      /\ saved'[Len(saved) + 1] = c
  <2> DEFINE S == [name : Names, digest : Digests]
  <2>1. saved \in Seq(S) /\ c \in S
    BY <1>3 DEF CheckpointInv, TypeOK
  <2> HIDE DEF S
  <2> QED BY <1>1, <2>1, AppendFacts
<1>6. MadeInv'
  <2>1. ASSUME NEW k \in DOMAIN saved'
        PROVE  \E p \in Parts : Made(k, p) /\ saved'[k].name = p.name /\ Content(saved'[k].digest, p)
    <3>1. CASE k = Len(saved) + 1
      BY <1>2, <1>3, <1>4, <1>5, <3>1
    <3>2. CASE k # Len(saved) + 1
      <4>1. k \in DOMAIN saved /\ saved'[k] = saved[k]
        BY <1>2, <1>4, <1>5, <3>2
      <4> QED BY <4>1 DEF ReplayInv, MadeInv
    <3> QED BY <3>1, <3>2
  <2> QED BY <1>1, <2>1, DataStays DEF ReplayInv, MadeInv
<1> QED BY <1>1, <1>6, AddedReplays DEF ReplayInv

\* An attempt ends with an exception, which takes files away but adds none.
LEMMA RaiseReplays ==
  ASSUME CheckpointInv, ReplayInv, changes = 0, NEW e, Raise(e), ~Compress => e = "none",
         remote' = remote \/ remote' = [remote EXCEPT ![part.name] = Absent]
  PROVE  ReplayInv'
<1>1. /\ pc' = "idle" /\ error' = e /\ data' = data /\ changes' = 0 /\ saved' = saved
      /\ UNCHANGED <<read, written, columns, fill, part, results>>
  BY DEF Raise, queries, job, splitter
<1>2. \A n \in Names : remote'[n] # Absent => remote[n] # Absent
  BY DEF CheckpointInv, TypeOK
<1>3. MadeInv'
  BY <1>1, <1>2, MadeStays DEF ReplayInv
<1> QED BY <1>1, <1>3 DEF ReplayInv, ReadInv, FreshInv, ColumnsInv, HereInv

\* Unchanged data regenerate the part that a checkpoint describes.
LEMMA NoMismatch ==
  ASSUME CheckpointInv, ReplayInv, changes = 0, ~Compress, pc = "part", Len(results) < known
  PROVE  Matches
<1> DEFINE k == Len(results) + 1
<1>1. /\ k \in DOMAIN saved /\ k \in Nat /\ TypeOK /\ saved[k] \in [name : Names, digest : Digests]
  <2> DEFINE S == [name : Names, digest : Digests]
  <2>1. saved \in Seq(S) /\ known \in 0..Len(saved) /\ Len(results) \in Nat
    BY DEF CheckpointInv, TypeOK
  <2> HIDE DEF S
  <2>2. k \in 1..Len(saved)
    BY <2>1
  <2>3. saved[k] \in S
    BY <2>1, <2>2
  <2> QED BY <2>1, <2>2, <2>3 DEF CheckpointInv, S
<1>2. PICK p \in Parts : Made(k, p) /\ saved[k].name = p.name /\ Content(saved[k].digest, p)
  BY <1>1 DEF ReplayInv, MadeInv
<1>3. PICK m, u : Trace(u, m) /\ Closes(u, m, k, p)
  BY <1>2 DEF Made
<1>4. PICK t : Trace(t, written) /\ Agrees(t, written) /\ Closes(t, written, k, part)
  BY DEF ReplayInv, HereInv, Here, Busy
<1>5. written \in 0..written
  BY DEF CheckpointInv, TypeOK
<1> HIDE DEF k
<1>6. p.name = part.name /\ p.lo = part.lo /\ p.hi = part.hi
  BY <1>1, <1>3, <1>4, <1>5, ClosesOnce
<1>7. Content(Digest(part), part)
  BY InHand DEF Busy
<1>8. Digest(part) \in Digests
  BY DigestType
<1>9. saved[k].digest = Digest(part)
  <2>1. PICK d \in Digests, e \in Digests : d = saved[k].digest /\ e = Digest(part)
    BY <1>1, <1>8
  <2>2. d.columns = e.columns /\ d.body = e.body /\ d.stamp = e.stamp
    BY <1>2, <1>6, <1>7, <2>1 DEF Content
  <2>3. d = e
    BY <2>2 DEF Digests
  <2> QED BY <2>1, <2>3
<1> QED BY <1>2, <1>6, <1>9 DEF Matches, k

\* At the end of an attempt every part there can be has been generated.
LEMMA AllClosed ==
  ASSUME CheckpointInv, ReplayInv, changes = 0, Over, NEW k \in Nat, NEW p, Made(k, p)
  PROVE  k \in DOMAIN results /\ results[k].name = p.name
<1>1. pc # "idle" /\ TypeOK /\ Len(results) \in Nat /\ DOMAIN results = 1..Len(results)
  BY DEF Over, CheckpointInv, TypeOK
<1>2. PICK t : Trace(t, written) /\ Agrees(t, written) /\ Here(t)
  BY <1>1 DEF ReplayInv, HereInv
<1>3. PICK m, u : Trace(u, m) /\ Closes(u, m, k, p)
  BY DEF Made
<1>4. /\ written = Len(data) /\ written \in Nat
      /\ Len(results) = IF t[written].lo <= written \/ t[written].parts = 0
                        THEN t[written].parts + 1 ELSE t[written].parts
  BY <1>2 DEF Here, CheckpointInv, TypeOK
<1>5. /\ m \in 0..written /\ m \in 0..m /\ written \in 0..written
      /\ m > 0 => m - 1 \in 0..m
  BY <1>3, <1>4 DEF Trace
<1>6. /\ u[m] = t[m] /\ t[m].parts <= t[written].parts /\ t[m].parts \in Nat
      /\ t[written].parts \in Nat
      /\ m > 0 => u[m - 1].parts \in Nat
  <2>1. \A c \in Cells : c.parts \in Nat
    BY DEF Cells
  <2>2. u[m] = t[m]
    BY <1>2, <1>3, <1>4, <1>5 DEF Agrees
  <2>3. t[m].parts <= t[written].parts
    <3>1. m <= written
      BY <1>4, <1>5
    <3> QED BY <1>2, <1>5, <3>1 DEF Trace
  <2> QED BY <1>2, <1>3, <1>5, <2>1, <2>2, <2>3 DEF Trace
<1>7. k \in 1..Len(results)
  <2>1. CASE m > 0 /\ u[m].parts = k /\ u[m - 1].parts = k - 1
    BY <1>4, <1>6, <2>1
  <2>2. CASE m = Len(data) /\ k = u[m].parts + 1 /\ (u[m].lo <= m \/ u[m].parts = 0)
    BY <1>4, <1>6, <2>2
  <2> QED BY <1>3, <2>1, <2>2 DEF Closes
<1>8. PICK n \in 0..written : Closes(t, n, k, results[k])
  BY <1>1, <1>2, <1>7 DEF Here
<1>9. p.name = results[k].name
  BY <1>1, <1>2, <1>3, <1>8, ClosesOnce
<1> QED BY <1>1, <1>7, <1>9

LEMMA NoneShort ==
  ASSUME CheckpointInv, ReplayInv, changes = 0, pc = "end"
  PROVE  ~(Len(results) < known)
<1> SUFFICES ASSUME Len(results) < known PROVE FALSE
  OBVIOUS
<1>1. /\ Len(results) + 1 \in DOMAIN saved /\ Len(results) + 1 \in Nat
      /\ Len(results) + 1 \notin DOMAIN results
  BY DEF CheckpointInv, TypeOK
<1>2. PICK p \in Parts : Made(Len(results) + 1, p)
  BY <1>1 DEF ReplayInv, MadeInv
<1> QED BY <1>1, <1>2, AllClosed DEF Over

LEMMA CompleteReplays ==
  ASSUME CheckpointInv, ReplayInv, Complete, changes = 0
  PROVE  ReplayInv'
<1>1. /\ pc = "end" /\ pc' = "done" /\ data' = data /\ changes' = 0 /\ saved' = saved
      /\ UNCHANGED <<read, written, columns, fill, part, results, error, remote>>
  BY DEF Complete, queries, job, splitter
<1>2. PICK t : Trace(t, written) /\ Agrees(t, written) /\ Here(t)
  BY <1>1 DEF ReplayInv, HereInv
<1>3. Here(t)'
  BY <1>1, <1>2 DEF Here, Busy, Over, Closes
<1>4. HereInv' /\ MadeInv'
  BY <1>1, <1>2, <1>3, HereNext, MadeStays DEF ReplayInv
<1> QED BY <1>1, <1>4, DataStays DEF ReplayInv, ReadInv, ColumnsInv, FreshInv

\* A record is complete only when all of its checkpoints were matched.
DoneInv == pc = "done" => Len(results) >= known

LEMMA DoneStep == DoneInv /\ [Next]_vars => DoneInv'
<1> SUFFICES ASSUME DoneInv, [Next]_vars PROVE DoneInv'
  OBVIOUS
<1> QED
  BY DEF DoneInv, Next, vars, StartAttempt, ReadColumns, WriteRecord, EndOfRecords, Match, Mismatch,
         Upload, UploadFails, Checkpoint, Complete, Short, Stop, Raise, PartDone, DataChanges, job

LEMMA ReplayStep == CheckpointInv /\ CheckpointInv' /\ ReplayInv /\ [Next]_vars => ReplayInv'
<1> SUFFICES ASSUME CheckpointInv, CheckpointInv', ReplayInv, [Next]_vars, changes' = 0
             PROVE  ReplayInv'
  BY DEF ReplayInv
<1>1. changes = 0 /\ ~\E i \in 1..(Len(data) + 1), new \in UNION {[1..n -> Records] : n \in 0..2} :
                         DataChanges(i, new)
  <2>1. changes \in Nat
    BY DEF CheckpointInv, TypeOK
  <2>2. changes' = changes \/ changes' = changes + 1
    BY DEF Next, vars, queries, StartAttempt, ReadColumns, WriteRecord, EndOfRecords, Match,
           Mismatch, Upload, UploadFails, Checkpoint, Complete, Short, Stop, Raise, DataChanges
  <2>3. changes = 0 /\ changes' # changes + 1
    BY <2>1, <2>2
  <2>4. \A i, new : DataChanges(i, new) => changes' = changes + 1
    BY DEF DataChanges
  <2> QED BY <2>3, <2>4
<1>2. CASE Mismatch
  <2>1. Compress
    BY <1>1, <1>2, NoMismatch DEF Mismatch
  <2> QED BY <1>1, <1>2, <2>1, RaiseReplays DEF Mismatch
<1>3. CASE UploadFails
  BY <1>1, <1>3, RaiseReplays DEF UploadFails
<1>4. CASE Short
  BY <1>1, <1>4, NoneShort DEF Short
<1>5. CASE Stop
  BY <1>1, <1>5, RaiseReplays DEF Stop
<1>6. CASE UNCHANGED vars
  <2>1. /\ data' = data /\ changes' = 0 /\ saved' = saved /\ remote' = remote
        /\ UNCHANGED <<pc, read, written, columns, fill, part, results, error>>
    BY <1>1, <1>6 DEF vars
  <2>2. MadeInv'
    BY <1>1, <2>1, MadeStays DEF ReplayInv
  <2>3. HereInv'
    <3>1. CASE pc = "idle"
      BY <2>1, <3>1 DEF HereInv
    <3>2. CASE pc # "idle"
      <4>1. PICK t : Trace(t, written) /\ Agrees(t, written) /\ Here(t)
        BY <1>1, <3>2 DEF ReplayInv, HereInv
      <4>2. Here(t)'
        BY <2>1, <4>1 DEF Here, Busy, Over, Closes, NextLo
      <4> QED BY <2>1, <4>1, <4>2, HereNext
    <3> QED BY <3>1, <3>2
  <2> QED BY <1>1, <2>1, <2>2, <2>3, DataStays DEF ReplayInv, ReadInv, ColumnsInv, FreshInv
<1> QED
  BY <1>1, <1>2, <1>3, <1>4, <1>5, <1>6, StartReplays, ColumnsReplay, WriteReplays, EndReplays,
     MatchReplays, UploadReplays, CheckpointReplays, CompleteReplays DEF Next

LEMMA ReplayAlways == Spec => [](CheckpointInv /\ ReplayInv /\ DoneInv)
<1>1. Init => CheckpointInv /\ ReplayInv /\ DoneInv
  BY CheckpointInit, ReplayInit DEF Init, DoneInv
<1>2. CheckpointInv /\ ReplayInv /\ DoneInv /\ [Next]_vars
        => (CheckpointInv /\ ReplayInv /\ DoneInv)'
  BY CheckpointStep, ReplayStep, DoneStep
<1> QED BY <1>1, <1>2, PTL DEF Spec

\* The result, the checkpoints and the destination of a completed export agree:
\* no checkpointed part has dropped out of it, and unless the data changed no file
\* is left that it does not list, however often it was stopped and resumed.
THEOREM Agreement == Spec => []RecordAgrees
<1>1. CheckpointInv /\ ReplayInv /\ DoneInv => RecordAgrees
  <2> SUFFICES ASSUME CheckpointInv, ReplayInv, DoneInv, pc = "done" PROVE RecordAgrees
    BY DEF RecordAgrees, CheckpointsAreTheResult, NoLeftovers
  <2>1. Len(saved) = Len(results) /\ DOMAIN saved = DOMAIN results
    BY DEF CheckpointInv, TypeOK, SavedInv, DoneInv
  <2>2. CheckpointsAreTheResult
    BY <2>1 DEF CheckpointsAreTheResult, CheckpointInv, SavedInv
  <2>3. NoLeftovers
    <3> SUFFICES ASSUME changes = 0, NEW n \in Names, remote[n] # Absent
                 PROVE  \E k \in DOMAIN results : results[k].name = n
      BY DEF NoLeftovers
    <3>1. PICK k \in Nat, p \in Parts : Made(k, p) /\ p.name = n
      BY DEF ReplayInv, MadeInv
    <3> QED BY <3>1, AllClosed DEF Over
  <2> QED BY <2>2, <2>3 DEF RecordAgrees
<1> QED BY <1>1, ReplayAlways, PTL

\* When the queries keep answering the same and parts are not compressed, no resume
\* is refused: an attempt regenerates every part that an earlier one checkpointed.
THEOREM Resumes == ASSUME ~Compress PROVE Spec => []UnchangedDataResumes
<1>1. ReplayInv => UnchangedDataResumes
  BY DEF ReplayInv, UnchangedDataResumes
<1> QED BY <1>1, ReplayAlways, PTL
=============================================================================
