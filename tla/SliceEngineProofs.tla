--------------------------- MODULE SliceEngineProofs --------------------------
(***************************************************************************)
(* Adaptive slicing loses no document, for every range, slice length,      *)
(* record target and distribution of the documents over time.              *)
(***************************************************************************)
EXTENDS SliceEngine, FiniteSetTheorems, SequenceTheorems, WellFoundedInduction, TLAPS

-----------------------------------------------------------------------------
(***************************************************************************)
(* Arithmetic                                                              *)
(***************************************************************************)
\* Every inhabited set of naturals has a least element.
LEMMA Least ==
  ASSUME NEW S, S \subseteq Nat, S # {}
  PROVE  \E n \in S : \A m \in S : n <= m
<1> DEFINE R == {ss \in Nat \X Nat : ss[1] < ss[2]}
<1>1. IsWellFoundedOn(R, Nat)
  BY NatLessThanWellFounded DEF OpToRel
<1>2. \A m, n \in Nat : m < n => <<m, n>> \in R
  OBVIOUS
<1> HIDE DEF R
<1>3. \E n \in S : \A m \in S : <<m, n>> \notin R
  BY <1>1, WFMin
<1>4. PICK n \in S : \A m \in S : <<m, n>> \notin R
  BY <1>3
<1>5. ASSUME NEW m \in S PROVE n <= m
  <2>1. m \in Nat /\ n \in Nat
    OBVIOUS
  <2>2. <<m, n>> \notin R
    BY <1>4
  <2>3. m < n => <<m, n>> \in R
    BY <1>2, <2>1
  <2> QED BY <2>1, <2>2, <2>3
<1> QED BY <1>5

LEMMA DivFacts ==
  ASSUME NEW t \in Nat, NEW k \in Nat \ {0}
  PROVE  /\ t \div k \in Nat
         /\ (t \div k) * k \in Nat /\ (t \div k) * k <= t
         /\ \A u \in Nat : t <= u => t \div k <= u \div k
         /\ \A q \in Nat : q * k <= t => q <= t \div k
  OBVIOUS

LEMMA MillisType == ASSUME NEW t \in Nat PROVE Millis(t) \in Nat /\ Millis(t) <= t
  BY ExportAssumption, DivFacts DEF Millis

LEMMA MulMono == \A a, b, c \in Nat : a * b \in Nat /\ (a <= b => a * c <= b * c)
  OBVIOUS

\* Rounding down to milliseconds leaves a time in its day.
LEMMA MillisDay ==
  ASSUME NEW t \in Nat, NEW a \in Nat, Millis(t) <= a
  PROVE  t \div Window <= a \div Window
<1>1. PICK n \in Nat : Window = n * Tick
  <2>1. Window = (Window \div Tick) * Tick
    BY ExportAssumption
  <2> QED BY <2>1, ExportAssumption, DivFacts
<1>2. PICK q \in Nat : q = t \div Window /\ q * Window <= t
  BY ExportAssumption, DivFacts
<1>3. q * n \in Nat /\ (q * n) * Tick = q * Window
  BY <1>1, ExportAssumption
<1>4. PICK m \in Nat : m = t \div Tick /\ Millis(t) = m * Tick
  BY ExportAssumption, DivFacts DEF Millis
<1>5. q * n <= m
  BY <1>2, <1>3, <1>4, ExportAssumption, DivFacts
<1>6. (q * n) * Tick <= m * Tick
  BY <1>3, <1>5, ExportAssumption, MulMono
<1>7. q * Window \in Nat /\ m * Tick \in Nat
  BY ExportAssumption
<1>8. q * Window <= a
  BY <1>3, <1>4, <1>6, <1>7
<1> QED BY <1>2, <1>8, ExportAssumption, DivFacts

-----------------------------------------------------------------------------
(***************************************************************************)
(* Windows, seeds and the stack of slices                                  *)
(***************************************************************************)
SliceRecord == [start : Nat, end : Nat]

LEMMA WindowFacts ==
  ASSUME lo \in Start..End
  PROVE  /\ lo \in Nat /\ WindowEnd \in Start..End /\ WindowEnd \in Nat
         /\ lo <= WindowEnd /\ (lo < End => lo < WindowEnd)
  BY ExportAssumption DEF WindowEnd, Min2

\* Consecutive cuts leave no gap: every point lies between two of them.
LEMMA CutsCover ==
  ASSUME NEW n \in Nat \ {0}, NEW f \in [0..n -> Nat], NEW t \in Nat, f[0] <= t, t < f[n]
  PROVE  \E k \in 1..n : f[k - 1] <= t /\ t < f[k]
<1> DEFINE S == {i \in 0..n : t < f[i]}
<1>1. S \subseteq Nat /\ n \in S
  OBVIOUS
<1>2. PICK k \in S : \A i \in S : k <= i
  <2> HIDE DEF S
  <2> QED BY <1>1, Least
<1>3. k \in 1..n /\ k - 1 \in 0..n
  OBVIOUS
<1>4. ~(t < f[k - 1])
  BY <1>2, <1>3
<1> QED BY <1>3, <1>4

LEMMA SeedsCover ==
  ASSUME lo \in Start..End, NEW count \in Nat \ {0}, NEW t \in Nat,
         Millis(lo) <= t, t < Millis(WindowEnd)
  PROVE  \E k \in DOMAIN SeedSlices(count) :
           Millis(SeedSlices(count)[k].start) <= t /\ t < Millis(SeedSlices(count)[k].end)
<1> DEFINE duration == WindowEnd - lo
           planned == Max2(1, (Target * 8) \div 10)
           desired == (count + planned - 1) \div planned
           number == Min2(desired, Max2(1, duration \div MinSlice))
           Cut(i) == lo + (duration * i) \div number
           Edge(i) == IF i = number THEN WindowEnd ELSE Cut(i)
<1>1. duration \in Nat /\ lo \in Nat /\ WindowEnd \in Nat
  BY WindowFacts
<1>2. number \in Nat \ {0}
  <2>1. planned \in Nat \ {0}
    BY ExportAssumption, DivFacts DEF Max2
  <2>2. desired \in Nat \ {0}
    BY <2>1, DivFacts
  <2>3. duration \div MinSlice \in Nat
    BY <1>1, ExportAssumption, DivFacts
  <2> HIDE DEF desired
  <2> QED BY <2>2, <2>3 DEF Max2, Min2
<1>3. CASE duration <= MinSlice
  <2>1. SeedSlices(count) = <<Slice(lo, WindowEnd)>>
    BY <1>3 DEF SeedSlices
  <2> QED BY <2>1 DEF Slice
<1>4. CASE ~(duration <= MinSlice)
  <2>1. SeedSlices(count) = [i \in 1..number |-> Slice(Cut(i - 1), Edge(i))]
    BY <1>4 DEF SeedSlices
  <2> HIDE DEF number
  <2>2. \A i \in 0..number : Cut(i) \in Nat /\ Edge(i) \in Nat
    BY <1>1, <1>2, DivFacts, MulMono
  <2>3. Cut(0) = lo /\ Edge(0) = lo /\ Edge(number) = WindowEnd
    BY <1>1, <1>2
  <2> HIDE DEF Cut, Edge
  <2> DEFINE f == [i \in 0..number |-> Millis(Edge(i))]
  <2>4. f \in [0..number -> Nat] /\ f[0] <= t /\ t < f[number]
    BY <1>2, <2>2, <2>3, MillisType
  <2>5. PICK k \in 1..number : f[k - 1] <= t /\ t < f[k]
    <3> HIDE DEF f
    <3> QED BY <1>2, <2>4, CutsCover
  <2>6. k - 1 \in 0..number /\ k \in 0..number /\ k - 1 # number
    BY <1>2
  <2>7. Edge(k - 1) = Cut(k - 1)
    BY <2>6 DEF Edge
  <2> QED BY <2>1, <2>5, <2>6, <2>7 DEF Slice
<1> QED BY <1>3, <1>4

LEMMA SeedsType ==
  ASSUME lo \in Start..End, NEW count \in Nat
  PROVE  /\ SeedSlices(count) \in Seq(SliceRecord)
         /\ count = 0 => SeedSlices(count) = <<>>
<1> DEFINE duration == WindowEnd - lo
           planned == Max2(1, (Target * 8) \div 10)
           desired == (count + planned - 1) \div planned
           number == Min2(desired, Max2(1, duration \div MinSlice))
           Cut(i) == lo + (duration * i) \div number
           Edge(i) == IF i = number THEN WindowEnd ELSE Cut(i)
<1>1. duration \in Nat /\ lo \in Nat /\ WindowEnd \in Nat
  BY WindowFacts
<1>2. count # 0 => number \in Nat \ {0}
  <2>1. planned \in Nat \ {0}
    BY ExportAssumption, DivFacts DEF Max2
  <2>2. count # 0 => desired \in Nat \ {0}
    BY <2>1, DivFacts
  <2>3. duration \div MinSlice \in Nat
    BY <1>1, ExportAssumption, DivFacts
  <2> HIDE DEF desired
  <2> QED BY <2>2, <2>3 DEF Max2, Min2
<1>3. CASE count = 0
  BY <1>3 DEF SeedSlices
<1>4. CASE count # 0 /\ duration <= MinSlice
  <2>1. SeedSlices(count) = <<Slice(lo, WindowEnd)>>
    BY <1>4 DEF SeedSlices
  <2> QED BY <1>1, <1>4, <2>1 DEF Slice, SliceRecord
<1>5. CASE count # 0 /\ ~(duration <= MinSlice)
  <2>1. SeedSlices(count) = [i \in 1..number |-> Slice(Cut(i - 1), Edge(i))]
    BY <1>5 DEF SeedSlices
  <2> HIDE DEF number
  <2>2. \A i \in 0..number : Cut(i) \in Nat /\ Edge(i) \in Nat
    BY <1>1, <1>2, <1>5, DivFacts, MulMono
  <2> HIDE DEF Cut, Edge
  <2>3. \A i \in 1..number : Slice(Cut(i - 1), Edge(i)) \in SliceRecord
    BY <1>2, <1>5, <2>2 DEF Slice, SliceRecord
  <2> QED BY <1>2, <1>5, <2>1, <2>3
<1> QED BY <1>3, <1>4, <1>5

\* Dropping or halving the top slice leaves the others on the stack.
LEMMA TailKeeps ==
  ASSUME NEW S, NEW s \in Seq(S), s # <<>>
  PROVE  /\ Tail(s) \in Seq(S) /\ Head(s) = s[1] /\ 1 \in DOMAIN s /\ Head(s) \in S
         /\ \A k \in DOMAIN s : k # 1 => k - 1 \in DOMAIN Tail(s) /\ Tail(s)[k - 1] = s[k]
  OBVIOUS

LEMMA HalvesKeep ==
  ASSUME NEW S, NEW s \in Seq(S), s # <<>>, NEW a \in S, NEW b \in S
  PROVE  /\ <<a, b>> \o Tail(s) \in Seq(S)
         /\ {1, 2} \subseteq DOMAIN (<<a, b>> \o Tail(s))
         /\ (<<a, b>> \o Tail(s))[1] = a /\ (<<a, b>> \o Tail(s))[2] = b
         /\ \A k \in DOMAIN s : k # 1 => /\ k + 1 \in DOMAIN (<<a, b>> \o Tail(s))
                                         /\ (<<a, b>> \o Tail(s))[k + 1] = s[k]
  OBVIOUS

-----------------------------------------------------------------------------
(***************************************************************************)
(* The inductive invariant.  In the partition being read every document    *)
(* has been yielded, is in hand, or lies in a slice on the stack; those of *)
(* earlier partitions have all been yielded.                               *)
(***************************************************************************)
Settled(d) ==
  \/ at[d] < Millis(lo)
  \/ /\ at[d] < Millis(WindowEnd)
     /\ \E i \in FirstUses : i < src /\ Selected[i] = SourceOf[d]

Current(d) ==
  /\ Millis(lo) <= at[d] /\ at[d] < Millis(WindowEnd)
  /\ SourceOf[d] = Selected[src]

Queued(d) ==
  \E k \in DOMAIN stack : Millis(stack[k].start) <= at[d] /\ at[d] < Millis(stack[k].end)

ReadInv ==
  Len(out) < Limit =>
    \A d \in Docs \ moved : Wanted(d) =>
      /\ Settled(d) => Yielded(d)
      /\ pc \in {"probe", "emit"} /\ Current(d) => Yielded(d) \/ d \in hits \/ Queued(d)

InHandInv ==
  /\ \A d \in seen : Yielded(d)
  /\ pc \in {"plan", "count", "probe"} => hits = {}
  /\ pc = "done" => lo >= End \/ Len(out) >= Limit

LEMMA SliceTypeInit == Init => TypeOK
<1>1. Start \in Start..End /\ 1 \in DOMAIN Selected /\ 0 \in 0..MaxChanges
  BY ExportAssumption
<1> QED BY <1>1 DEF Init, TypeOK

\* The next source is the next one in the order of selection.
LEMMA NextSource ==
  ASSUME NextPartition, SourceAfter(src) # {}
  PROVE  src' \in SourceAfter(src) /\ \A i \in SourceAfter(src) : src' <= i
<1>1. SourceAfter(src) \subseteq Nat
  BY ExportAssumption DEF SourceAfter, FirstUses
<1>2. \E k \in SourceAfter(src) : \A i \in SourceAfter(src) : k <= i
  BY <1>1, Least
<1>3. src' = CHOOSE k \in SourceAfter(src) : \A i \in SourceAfter(src) : k <= i
  BY DEF NextPartition
<1> QED BY <1>2, <1>3

LEMMA NextPartitionType == ASSUME TypeOK, NextPartition PROVE TypeOK'
<1>1. src' \in DOMAIN Selected
  <2>1. CASE SourceAfter(src) = {}
    BY <2>1, ExportAssumption DEF NextPartition
  <2>2. CASE SourceAfter(src) # {}
    BY <2>2, NextSource DEF SourceAfter, FirstUses
  <2> QED BY <2>1, <2>2
<1>2. lo' \in Start..End
  BY WindowFacts DEF NextPartition, TypeOK
<1> QED BY <1>1, <1>2 DEF NextPartition, TypeOK, server

LEMMA SliceTypeStep == TypeOK /\ [Next]_vars => TypeOK'
<1> SUFFICES ASSUME TypeOK, [Next]_vars PROVE TypeOK'
  OBVIOUS
<1> USE ExportAssumption DEF TypeOK, server, partition
<1>1. CASE BeginPartition
  BY <1>1 DEF BeginPartition
<1>2. CASE AllRead
  BY <1>2 DEF AllRead
<1>3. CASE Count
  <2>1. Cardinality(Matching(lo, WindowEnd)) \in Nat
    BY FS_Subset, FS_CardinalityType DEF Matching
  <2>2. stack' \in Seq([start : Nat, end : Nat])
    BY <1>3, <2>1, SeedsType DEF Count, SliceRecord
  <2> QED BY <1>3, <2>2 DEF Count
<1>4. CASE Probe
  <2>1. stack' \in Seq([start : Nat, end : Nat])
    BY <1>4, TailKeeps DEF Probe
  <2> QED BY <1>4, <2>1 DEF Probe, Matching
<1>5. CASE SplitSlice
  <2> DEFINE mid == Top.start + (Top.end - Top.start) \div 2
  <2>1. Top \in [start : Nat, end : Nat] /\ Top.start <= Top.end
    <3>1. stack \in Seq(SliceRecord) /\ stack # <<>> /\ ~TooShort
      BY <1>5 DEF SplitSlice, SliceRecord
    <3>2. Top \in SliceRecord
      BY <3>1, TailKeeps DEF Top
    <3> QED BY <3>1, <3>2 DEF SliceRecord, TooShort
  <2>2. mid \in Nat
    BY <2>1, DivFacts, SMTT(60)
  <2>3. stack' \in Seq([start : Nat, end : Nat])
    BY <1>5, <2>1, <2>2, HalvesKeep DEF SplitSlice, SplitTop, Slice
  <2> QED BY <1>5, <2>3 DEF SplitSlice
<1>6. CASE DenseSlice
  BY <1>6 DEF DenseSlice
<1>7. ASSUME NEW d \in Docs, Emit(d) PROVE TypeOK'
  BY <1>7 DEF Emit
<1>8. ASSUME NEW d \in Docs, SkipDuplicate(d) PROVE TypeOK'
  BY <1>8 DEF SkipDuplicate
<1>9. CASE LimitReached
  BY <1>9, NextPartitionType DEF LimitReached
<1>10. CASE PartitionRead
  BY <1>10, NextPartitionType DEF PartitionRead
<1>11. CASE Fail
  BY <1>11 DEF Fail
<1>12. CASE Cancel
  BY <1>12 DEF Cancel
<1>13. ASSUME NEW d \in Docs, NEW t \in Times, Redate(d, t) PROVE TypeOK'
  BY <1>13 DEF Redate
<1>14. CASE UNCHANGED vars
  BY <1>14 DEF vars
<1> QED
  BY <1>1, <1>2, <1>3, <1>4, <1>5, <1>6, <1>7, <1>8, <1>9, <1>10, <1>11, <1>12, <1>13,
     <1>14 DEF Next, Engine

LEMMA FirstUse ==
  ASSUME NEW d, Wanted(d)
  PROVE  \E i \in FirstUses : Selected[i] = SourceOf[d]
<1> DEFINE S == {i \in DOMAIN Selected : Selected[i] = SourceOf[d]}
<1>1. S \subseteq Nat /\ S # {}
  BY ExportAssumption DEF Wanted
<1>2. PICK i \in S : \A k \in S : i <= k
  <2> HIDE DEF S
  <2> QED BY <1>1, Least
<1>3. i \in DOMAIN Selected /\ Selected[i] = SourceOf[d]
  OBVIOUS
<1>4. \A k \in 1..(i - 1) : k \in DOMAIN Selected /\ ~(i <= k)
  BY <1>3, ExportAssumption
<1>5. \A k \in 1..(i - 1) : Selected[k] # Selected[i]
  BY <1>2, <1>3, <1>4
<1> QED BY <1>3, <1>5 DEF FirstUses

\* The day's index is among those the partition's query names, so a query for a
\* slice finds every document of the partition that is dated within the slice.
LEMMA QueryFinds ==
  ASSUME TypeOK, NEW d \in Docs, Current(d), NEW s, NEW e,
         Millis(s) <= at[d], at[d] < Millis(e)
  PROVE  d \in Matching(s, e)
<1>1. at[d] \in Nat /\ lo \in Nat /\ WindowEnd \in Nat
  BY ExportAssumption, WindowFacts DEF TypeOK
<1>2. lo \div Window <= at[d] \div Window
  BY <1>1, MillisDay DEF Current
<1>3. Millis(WindowEnd) \in Nat /\ Millis(WindowEnd) <= WindowEnd
  BY <1>1, MillisType
<1>4. WindowEnd - 1 \in Nat /\ at[d] <= WindowEnd - 1
  BY <1>1, <1>3 DEF Current
<1>5. at[d] \div Window <= (WindowEnd - 1) \div Window
  BY <1>1, <1>4, ExportAssumption, DivFacts
<1>6. /\ at[d] \div Window \in Nat /\ lo \div Window \in Nat
      /\ (WindowEnd - 1) \div Window \in Nat
  BY <1>1, <1>4, ExportAssumption, DivFacts
<1>7. at[d] \div Window \in CoveredDates(lo, WindowEnd)
  BY <1>2, <1>5, <1>6 DEF CoveredDates
<1> QED BY <1>7 DEF Matching, Current

LEMMA YieldedStays ==
  ASSUME TypeOK, NEW e, out' = Append(out, e)
  PROVE  /\ \A d : Yielded(d) => Yielded(d)'
         /\ Yielded(e.doc)'
         /\ Len(out') < Limit => Len(out) < Limit
<1>1. /\ DOMAIN out \subseteq DOMAIN out' /\ \A i \in DOMAIN out : out'[i] = out[i]
      /\ Len(out') \in DOMAIN out' /\ out'[Len(out')] = e
      /\ Len(out') = Len(out) + 1 /\ Len(out) \in Nat
  BY DEF TypeOK
<1> QED BY <1>1, ExportAssumption DEF Yielded

\* A partition may be left when all its documents have been yielded.
LEMMA LeavePartition ==
  ASSUME TypeOK, ReadInv, InHandInv, NextPartition,
         Len(out) < Limit => \A d \in Docs \ moved : Wanted(d) /\ Current(d) => Yielded(d)
  PROVE  ReadInv' /\ InHandInv'
<1>1. /\ UNCHANGED <<at, moved, seen, out>> /\ pc' = "plan" /\ hits' = {}
  BY DEF NextPartition, server
<1>2. InHandInv'
  BY <1>1 DEF InHandInv, Yielded
<1>3. ASSUME Len(out) < Limit, NEW d \in Docs \ moved, Wanted(d), Settled(d)'
      PROVE  Yielded(d)
  <2>1. \/ at[d] < Millis(lo)
        \/ /\ at[d] < Millis(WindowEnd)
           /\ \E k \in FirstUses : ~(src < k) /\ Selected[k] = SourceOf[d]
    <3>1. CASE SourceAfter(src) = {}
      <4>1. src' = 1 /\ lo' = WindowEnd
        BY <3>1 DEF NextPartition
      <4>2. \A k \in FirstUses : ~(k < 1)
        BY ExportAssumption DEF FirstUses
      <4>3. at[d] < Millis(WindowEnd)
        BY <1>1, <1>3, <4>1, <4>2 DEF Settled, Millis
      <4> QED BY <1>3, <3>1, <4>3, FirstUse DEF SourceAfter
    <3>2. CASE SourceAfter(src) # {}
      <4>1. lo' = lo /\ WindowEnd' = WindowEnd
        BY <3>2 DEF NextPartition, WindowEnd
      <4>2. \A k \in FirstUses : k < src' => ~(src < k)
        <5>1. \A k \in SourceAfter(src) : src' <= k /\ k \in Nat
          BY <3>2, NextSource, ExportAssumption DEF SourceAfter, FirstUses
        <5>2. src' \in Nat
          BY <3>2, NextSource, <5>1
        <5> QED BY <5>1, <5>2 DEF SourceAfter
      <4> QED BY <1>1, <1>3, <4>1, <4>2 DEF Settled, Millis
    <3> QED BY <3>1, <3>2
  <2>2. CASE Settled(d)
    BY <1>3, <2>2 DEF ReadInv
  <2>3. CASE ~Settled(d)
    <3>1. at[d] \in Nat /\ Millis(lo) \in Nat /\ src \in Nat
      <4>1. lo \in Nat /\ at[d] \in Nat
        BY ExportAssumption, WindowFacts DEF TypeOK
      <4>2. src \in Nat
        BY ExportAssumption DEF TypeOK
      <4> QED BY <4>1, <4>2, MillisType
    <3>2. PICK k \in FirstUses : ~(src < k) /\ Selected[k] = SourceOf[d]
      BY <2>1, <2>3 DEF Settled
    <3>3. k \in Nat /\ ~(k < src)
      BY <2>1, <2>3, <3>2, ExportAssumption DEF Settled, FirstUses
    <3>4. Selected[src] = SourceOf[d]
      BY <3>1, <3>2, <3>3
    <3>5. Current(d)
      BY <2>1, <2>3, <3>1, <3>4 DEF Settled, Current
    <3> QED BY <1>3, <3>5
  <2> QED BY <2>2, <2>3
<1>4. \A d : (Wanted(d)' <=> Wanted(d)) /\ (Yielded(d)' <=> Yielded(d))
  BY <1>1 DEF Wanted, Yielded
<1> QED BY <1>1, <1>2, <1>3, <1>4 DEF ReadInv

LEMMA ReadInit == Init => ReadInv /\ InHandInv
<1> SUFFICES ASSUME Init PROVE ReadInv /\ InHandInv
  OBVIOUS
<1>1. ASSUME NEW d \in Docs, Wanted(d) PROVE ~Settled(d)
  <2>1. at[d] \in Nat /\ Millis(Start) \in Nat /\ Millis(Start) <= at[d]
    BY <1>1, ExportAssumption, MillisType DEF Init, Wanted
  <2>2. \A i \in FirstUses : ~(i < 1)
    BY ExportAssumption DEF FirstUses
  <2> QED BY <2>1, <2>2 DEF Init, Settled, Millis
<1> QED BY <1>1 DEF Init, ReadInv, InHandInv

\* A step that stays in the partition and changes neither documents nor output.
LEMMA SamePartition ==
  ASSUME UNCHANGED <<at, moved, lo, src, out>>
  PROVE  \A d : /\ Wanted(d)' <=> Wanted(d)
                /\ Yielded(d)' <=> Yielded(d)
                /\ Settled(d)' <=> Settled(d)
                /\ Current(d)' <=> Current(d)
  BY DEF Wanted, Yielded, Settled, Current, Millis, WindowEnd

LEMMA ReadStep ==
  TypeOK /\ TypeOK' /\ ReadInv /\ InHandInv /\ [Next]_vars => ReadInv' /\ InHandInv'
<1> SUFFICES ASSUME TypeOK, TypeOK', ReadInv, InHandInv, [Next]_vars
             PROVE  ReadInv' /\ InHandInv'
  OBVIOUS
<1>1. CASE BeginPartition
  BY <1>1, SamePartition DEF BeginPartition, server, partition, ReadInv, InHandInv
<1>2. CASE AllRead
  BY <1>2, SamePartition DEF AllRead, server, partition, ReadInv, InHandInv
<1>3. CASE Count
  <2>1. /\ UNCHANGED <<at, moved, lo, src, out, hits, seen>> /\ pc' = "probe" /\ pc = "count"
        /\ stack' = SeedSlices(Cardinality(Matching(lo, WindowEnd)))
    BY <1>3 DEF Count, server, partition
  <2>2. ASSUME NEW d \in Docs, Current(d) PROVE Queued(d)'
    <3>1. d \in Matching(lo, WindowEnd)
      BY <2>2, QueryFinds DEF Current
    <3>2. Cardinality(Matching(lo, WindowEnd)) \in Nat \ {0}
      <4>1. IsFiniteSet(Matching(lo, WindowEnd))
        BY ExportAssumption, FS_Subset DEF Matching
      <4> QED BY <3>1, <4>1, FS_CardinalityType, FS_EmptySet
    <3>3. at[d] \in Nat /\ lo \in Start..End
      BY ExportAssumption DEF TypeOK
    <3> QED BY <2>1, <2>2, <3>2, <3>3, SeedsCover DEF Current, Queued, Millis
  <2> QED BY <2>1, <2>2, SamePartition DEF ReadInv, InHandInv
<1>4. CASE Probe
  <2>1. /\ UNCHANGED <<at, moved, lo, src, out, seen>> /\ pc' \in {"probe", "emit"}
        /\ pc = "probe" /\ (pc' = "probe" => hits' = {})
        /\ hits' = Matching(Top.start, Top.end)
        /\ stack' = Tail(stack) /\ stack # <<>> /\ stack \in Seq(SliceRecord)
    BY <1>4 DEF Probe, server, partition, TypeOK, SliceRecord
  <2>2. ASSUME NEW d \in Docs, Current(d), Queued(d) PROVE d \in hits' \/ Queued(d)'
    <3>1. PICK k \in DOMAIN stack :
            Millis(stack[k].start) <= at[d] /\ at[d] < Millis(stack[k].end)
      BY <2>2 DEF Queued
    <3>2. CASE k = 1
      BY <2>1, <2>2, <3>1, <3>2, QueryFinds, TailKeeps DEF Top
    <3>3. CASE k # 1
      <4>1. k - 1 \in DOMAIN stack' /\ stack'[k - 1] = stack[k]
        BY <2>1, <3>3, TailKeeps
      <4> QED BY <2>1, <3>1, <4>1 DEF Queued, Millis
    <3> QED BY <3>2, <3>3
  <2>3. hits = {}
    BY <2>1 DEF InHandInv
  <2> QED BY <2>1, <2>2, <2>3, SamePartition DEF ReadInv, InHandInv
<1>5. CASE SplitSlice
  <2> DEFINE mid == Top.start + (Top.end - Top.start) \div 2
             a == Slice(Top.start, mid)
             b == Slice(mid, Top.end)
  <2>1. /\ UNCHANGED <<at, moved, lo, src, out, seen, hits, pc>> /\ pc = "probe"
        /\ stack' = <<a, b>> \o Tail(stack)
        /\ stack # <<>> /\ stack \in Seq(SliceRecord) /\ ~TooShort
    BY <1>5 DEF SplitSlice, SplitTop, server, partition, TypeOK, SliceRecord
  <2>2. Top \in SliceRecord /\ Top = stack[1]
    BY <2>1, TailKeeps DEF Top
  <2>3. mid \in Nat
    <3>1. Top.start \in Nat /\ Top.end \in Nat /\ MinSlice \in Nat
      BY <2>2, ExportAssumption DEF SliceRecord
    <3>2. ~(Top.end - Top.start <= MinSlice)
      BY <2>1 DEF TooShort
    <3>3. Top.start <= Top.end
      BY <3>1, <3>2
    <3> QED BY <3>1, <3>3, DivFacts
  <2>4. a \in SliceRecord /\ b \in SliceRecord
    BY <2>2, <2>3 DEF SliceRecord, Slice
  <2>5. a.start = Top.start /\ a.end = mid /\ b.start = mid /\ b.end = Top.end
    BY DEF Slice
  <2> HIDE DEF mid, a, b
  <2>6. ASSUME NEW d \in Docs, Queued(d) PROVE Queued(d)'
    <3>1. PICK k \in DOMAIN stack :
            Millis(stack[k].start) <= at[d] /\ at[d] < Millis(stack[k].end)
      BY <2>6 DEF Queued
    <3>2. CASE k = 1
      <4>1. at[d] \in Nat /\ Millis(mid) \in Nat
        BY <2>3, MillisType, ExportAssumption DEF TypeOK
      <4>2. \/ Millis(a.start) <= at[d] /\ at[d] < Millis(a.end)
            \/ Millis(b.start) <= at[d] /\ at[d] < Millis(b.end)
        BY <2>2, <2>5, <3>1, <3>2, <4>1
      <4>3. /\ 1 \in DOMAIN stack' /\ stack'[1] = a
            /\ 2 \in DOMAIN stack' /\ stack'[2] = b
        BY <2>1, <2>4, HalvesKeep
      <4> QED BY <2>1, <4>2, <4>3 DEF Queued, Millis
    <3>3. CASE k # 1
      <4>1. k + 1 \in DOMAIN stack' /\ stack'[k + 1] = stack[k]
        BY <2>1, <2>4, <3>3, HalvesKeep
      <4> QED BY <2>1, <3>1, <4>1 DEF Queued, Millis
    <3> QED BY <3>2, <3>3
  <2> QED BY <2>1, <2>6, SamePartition DEF ReadInv, InHandInv
<1>6. CASE DenseSlice
  BY <1>6, SamePartition DEF DenseSlice, server, partition, ReadInv, InHandInv
<1>7. ASSUME NEW e \in Docs, Emit(e) PROVE ReadInv' /\ InHandInv'
  <2>1. /\ UNCHANGED <<at, moved, lo, src, stack>> /\ pc = "emit" /\ pc' \in {"probe", "emit"}
        /\ hits' = hits \ {e} /\ seen' = seen \cup {e} /\ (pc' = "probe" => hits' = {})
        /\ out' = Append(out, [doc |-> e, lo |-> lo, src |-> src])
    BY <1>7 DEF Emit, server, partition
  <2>2. /\ \A d : Yielded(d) => Yielded(d)'
        /\ Yielded(e)'
        /\ Len(out') < Limit => Len(out) < Limit
    BY <2>1, YieldedStays
  <2>3. \A d : /\ Wanted(d)' <=> Wanted(d)
               /\ Settled(d)' <=> Settled(d)
               /\ Current(d)' <=> Current(d)
               /\ Queued(d)' <=> Queued(d)
    BY <2>1 DEF Wanted, Settled, Current, Queued, Millis, WindowEnd
  <2> QED BY <2>1, <2>2, <2>3 DEF ReadInv, InHandInv
<1>8. ASSUME NEW e \in Docs, SkipDuplicate(e) PROVE ReadInv' /\ InHandInv'
  <2>1. /\ UNCHANGED <<at, moved, lo, src, stack, seen, out>> /\ e \in seen
        /\ pc = "emit" /\ pc' \in {"probe", "emit"}
        /\ hits' = hits \ {e} /\ (pc' = "probe" => hits' = {})
    BY <1>8 DEF SkipDuplicate, server, partition
  <2>2. \A d : Queued(d)' <=> Queued(d)
    BY <2>1 DEF Queued, Millis
  <2> QED BY <2>1, <2>2, SamePartition DEF ReadInv, InHandInv
<1>9. CASE LimitReached
  BY <1>9, LeavePartition, ExportAssumption, SMTT(60) DEF LimitReached, TypeOK
<1>10. CASE PartitionRead
  <2>1. \A d : ~Queued(d)
    BY <1>10 DEF PartitionRead, Queued
  <2>2. Len(out) < Limit => \A d \in Docs \ moved : Wanted(d) /\ Current(d) => Yielded(d)
    BY <1>10, <2>1 DEF PartitionRead, ReadInv, InHandInv
  <2> QED BY <1>10, <2>2, LeavePartition DEF PartitionRead
<1>11. CASE Fail
  BY <1>11, SamePartition DEF Fail, server, partition, ReadInv, InHandInv
<1>12. CASE Cancel
  BY <1>12, SamePartition DEF Cancel, server, partition, ReadInv, InHandInv
<1>13. ASSUME NEW e \in Docs, NEW t \in Times, Redate(e, t) PROVE ReadInv' /\ InHandInv'
  <2>1. /\ UNCHANGED <<pc, lo, src, stack, hits, seen, out>> /\ moved' = moved \cup {e}
        /\ \A d \in Docs : d # e => at'[d] = at[d]
    BY <1>13 DEF Redate, partition, TypeOK
  <2>2. \A d : Yielded(d)' <=> Yielded(d)
    BY <2>1 DEF Yielded
  <2>3. \A d \in Docs \ moved' : /\ d \in Docs \ moved
                                 /\ Wanted(d)' <=> Wanted(d)
                                 /\ Settled(d)' <=> Settled(d)
                                 /\ Current(d)' <=> Current(d)
                                 /\ Queued(d)' <=> Queued(d)
    BY <2>1 DEF Wanted, Settled, Current, Queued, Millis, WindowEnd
  <2> QED BY <2>1, <2>2, <2>3 DEF ReadInv, InHandInv
<1>14. CASE UNCHANGED vars
  BY <1>14, SamePartition DEF vars, ReadInv, InHandInv, Queued, Millis
<1> QED
  BY <1>1, <1>2, <1>3, <1>4, <1>5, <1>6, <1>7, <1>8, <1>9, <1>10, <1>11, <1>12, <1>13,
     <1>14 DEF Next, Engine

\* An export that ends below its record limit has yielded every document that was in
\* its range throughout, whatever was split, timed out or re-dated meanwhile.
THEOREM NothingLost == Spec => []ExportIsComplete
<1>1. Init => TypeOK /\ ReadInv /\ InHandInv
  BY SliceTypeInit, ReadInit
<1>2. TypeOK /\ ReadInv /\ InHandInv /\ [Next]_vars => (TypeOK /\ ReadInv /\ InHandInv)'
  BY SliceTypeStep, ReadStep
<1>3. TypeOK /\ ReadInv /\ InHandInv => ExportIsComplete
  <2> SUFFICES ASSUME TypeOK, ReadInv, InHandInv, pc = "done", Len(out) < Limit,
                      NEW d \in Docs \ moved, Wanted(d)
               PROVE  Yielded(d)
    BY DEF ExportIsComplete
  <2>1. lo = End
    BY ExportAssumption DEF InHandInv, TypeOK
  <2>2. Settled(d)
    BY <2>1 DEF Wanted, Settled
  <2> QED BY <2>2 DEF ReadInv
<1> QED BY <1>1, <1>2, <1>3, PTL DEF Spec

\* The engine's stack, hits and output stay well formed: no window begins outside the
\* range and no slice has a bound that is not a time, for any range and slice length.
THEOREM SliceTypes == Spec => []TypeOK
BY SliceTypeInit, SliceTypeStep, PTL DEF Spec
-----------------------------------------------------------------------------
(***************************************************************************)
(* The order of the stream.  Partitions are read one after another, in a   *)
(* window by the first use of their sources; the slices of one lie in its  *)
(* window, the next ones later than those before; what is in hand is older *)
(* than every slice still to read.                                         *)
(***************************************************************************)
EndOf(window) == Min2(End, window + Window)

\* While a document keeps its time, it lies where it was yielded.
Within(e) ==
  /\ SourceOf[e.doc] = Selected[e.src]
  /\ Millis(e.lo) <= at[e.doc] /\ at[e.doc] < Millis(EndOf(e.lo))

Here(e) == e.lo = lo /\ e.src = src

\* An entry of the stream comes from this partition or from an earlier one.
Placed(e) ==
  /\ e.src \in FirstUses
  /\ e.lo # lo => EndOf(e.lo) <= lo
  /\ e.lo = lo => e.src <= src
  /\ Here(e) => pc \notin {"plan", "count"} /\ (pc \in {"probe", "emit"} => e.doc \in seen)
  /\ e.doc \notin moved => Within(e)

StreamInv ==
  /\ src \in FirstUses
  /\ pc \in {"count", "probe", "emit"} => lo < End
  /\ \A i \in DOMAIN out : Placed(out[i])

StackInv ==
  /\ pc \in {"plan", "count"} => stack = <<>>
  /\ \A k \in DOMAIN stack : /\ lo <= stack[k].start /\ stack[k].start <= stack[k].end
                             /\ stack[k].end <= WindowEnd
  /\ \A k, m \in DOMAIN stack : k < m => stack[k].end <= stack[m].start

HitsInv ==
  \A d \in hits \ moved : Current(d) /\ \A k \in DOMAIN stack : at[d] < Millis(stack[k].start)

OrderInv == StreamInv /\ StackInv /\ HitsInv /\ YieldedOnce /\ OldestFirst

LEMMA MillisMono == ASSUME NEW t \in Nat, NEW u \in Nat, t <= u PROVE Millis(t) <= Millis(u)
<1>1. t \div Tick \in Nat /\ u \div Tick \in Nat /\ t \div Tick <= u \div Tick
  BY ExportAssumption, DivFacts
<1> QED BY <1>1, ExportAssumption, MulMono DEF Millis

LEMMA DivExact == ASSUME NEW d \in Nat, NEW n \in Nat \ {0} PROVE (d * n) \div n = d
<1> DEFINE q == (d * n) \div n
<1>1. d * n \in Nat /\ d * n <= d * n
  BY MulMono
<1>2. q \in Nat /\ q * n <= d * n /\ d <= q
  BY <1>1, DivFacts
<1>3. q >= d + 1 => (d + 1) * n <= q * n
  BY <1>2, MulMono
<1>4. (d + 1) * n = d * n + n /\ q * n \in Nat
  BY <1>2
<1> HIDE DEF q
<1>5. q = d
  BY <1>1, <1>2, <1>3, <1>4
<1> QED BY <1>5 DEF q

\* The seeds of a partition follow one another from its start to its end.
LEMMA SeedsSorted ==
  ASSUME lo \in Start..End, NEW count \in Nat
  PROVE  /\ \A k \in DOMAIN SeedSlices(count) :
              /\ lo <= SeedSlices(count)[k].start
              /\ SeedSlices(count)[k].start <= SeedSlices(count)[k].end
              /\ SeedSlices(count)[k].end <= WindowEnd
         /\ \A k, m \in DOMAIN SeedSlices(count) :
              k < m => SeedSlices(count)[k].end <= SeedSlices(count)[m].start
<1> DEFINE duration == WindowEnd - lo
           planned == Max2(1, (Target * 8) \div 10)
           desired == (count + planned - 1) \div planned
           number == Min2(desired, Max2(1, duration \div MinSlice))
           Cut(i) == lo + (duration * i) \div number
           Edge(i) == IF i = number THEN WindowEnd ELSE Cut(i)
<1>1. duration \in Nat /\ lo \in Nat /\ WindowEnd \in Nat /\ lo + duration = WindowEnd
  BY WindowFacts
<1>2. count # 0 => number \in Nat \ {0}
  <2>1. planned \in Nat \ {0}
    BY ExportAssumption, DivFacts DEF Max2
  <2>2. count # 0 => desired \in Nat \ {0}
    BY <2>1, DivFacts
  <2>3. duration \div MinSlice \in Nat
    BY <1>1, ExportAssumption, DivFacts
  <2> HIDE DEF desired
  <2> QED BY <2>2, <2>3 DEF Max2, Min2
<1>3. CASE count = 0
  BY <1>3 DEF SeedSlices
<1>4. CASE count # 0 /\ duration <= MinSlice
  <2>1. SeedSlices(count) = <<Slice(lo, WindowEnd)>>
    BY <1>4 DEF SeedSlices
  <2>2. DOMAIN SeedSlices(count) = {1} /\ SeedSlices(count)[1] = Slice(lo, WindowEnd)
    BY <2>1
  <2> QED BY <1>1, <2>2 DEF Slice
<1>5. CASE count # 0 /\ ~(duration <= MinSlice)
  <2>1. SeedSlices(count) = [i \in 1..number |-> Slice(Cut(i - 1), Edge(i))]
    BY <1>5 DEF SeedSlices
  <2> HIDE DEF number, duration
  <2>2. \A i \in 0..number : Cut(i) \in Nat /\ lo <= Cut(i)
    BY <1>1, <1>2, <1>5, DivFacts, MulMono
  <2>3. ASSUME NEW i \in 0..number, NEW j \in 0..number, i <= j PROVE Cut(i) <= Cut(j)
    <3>1. i \in Nat /\ j \in Nat /\ number \in Nat \ {0}
      BY <1>2, <1>5
    <3>2. duration * i \in Nat /\ duration * j \in Nat /\ duration * i <= duration * j
      BY <1>1, <2>3, <3>1, MulMono
    <3>3. /\ (duration * i) \div number <= (duration * j) \div number
          /\ (duration * i) \div number \in Nat /\ (duration * j) \div number \in Nat
      BY <3>1, <3>2, DivFacts
    <3> QED BY <1>1, <3>3
  <2>4. Cut(number) = WindowEnd
    BY <1>1, <1>2, <1>5, DivExact
  <2> HIDE DEF Cut
  <2>5. \A i \in 0..number : Edge(i) = Cut(i)
    BY <2>4
  <2> HIDE DEF Edge
  <2>6. \A k \in 1..number : /\ k - 1 \in 0..number /\ k \in 0..number /\ number \in 0..number
                             /\ k - 1 <= k /\ k <= number
    BY <1>2, <1>5
  <2>7. \A k \in 1..number : lo <= Cut(k - 1) /\ Cut(k - 1) <= Edge(k) /\ Edge(k) <= WindowEnd
    BY <2>2, <2>3, <2>4, <2>5, <2>6
  <2>8. \A k, m \in 1..number : k < m => Edge(k) <= Cut(m - 1)
    <3>1. \A k, m \in 1..number : k < m => k <= m - 1
      BY <1>2, <1>5
    <3> QED BY <2>3, <2>5, <2>6, <3>1
  <2> QED BY <2>1, <2>7, <2>8 DEF Slice
<1> QED BY <1>3, <1>4, <1>5

\* The two halves of the top slice, and the slices under it.
LEMMA HalvesOnly ==
  ASSUME NEW S, NEW s \in Seq(S), s # <<>>, NEW a \in S, NEW b \in S,
         NEW k \in DOMAIN (<<a, b>> \o Tail(s))
  PROVE  \/ k = 1 /\ (<<a, b>> \o Tail(s))[k] = a
         \/ k = 2 /\ (<<a, b>> \o Tail(s))[k] = b
         \/ k > 2 /\ k - 1 \in DOMAIN s /\ k - 1 > 1 /\ (<<a, b>> \o Tail(s))[k] = s[k - 1]
  OBVIOUS

LEMMA TailOnly ==
  ASSUME NEW S, NEW s \in Seq(S), s # <<>>, NEW k \in DOMAIN Tail(s)
  PROVE  k \in Nat /\ k + 1 \in DOMAIN s /\ k + 1 > 1 /\ Tail(s)[k] = s[k + 1]
  OBVIOUS

\* What an entry of the stream is.
LEMMA EntryType ==
  ASSUME TypeOK, NEW i \in DOMAIN out
  PROVE  /\ out[i].doc \in Docs /\ at[out[i].doc] \in Nat
         /\ out[i].lo \in Start..End /\ out[i].lo \in Nat
         /\ out[i].src \in DOMAIN Selected /\ out[i].src \in Nat
<1> DEFINE Entry == [doc : Docs, lo : Start..End, src : DOMAIN Selected]
<1>1. out \in Seq(Entry)
  BY DEF TypeOK
<1>2. out[i] \in Entry
  <2> HIDE DEF Entry
  <2>1. i \in 1..Len(out)
    BY <1>1
  <2> QED BY <1>1, <2>1, ElementOfSeq
<1>3. /\ out[i].doc \in Docs /\ out[i].lo \in Start..End
      /\ out[i].src \in DOMAIN Selected
  BY <1>2
<1>4. \A d \in Docs : at[d] \in Nat
  BY ExportAssumption DEF TypeOK
<1>5. Start..End \subseteq Nat /\ DOMAIN Selected \subseteq Nat
  BY ExportAssumption
<1> QED BY <1>3, <1>4, <1>5

LEMMA OrderInit == Init => OrderInv
<1> SUFFICES ASSUME Init PROVE OrderInv
  OBVIOUS
<1>1. out = <<>> /\ stack = <<>> /\ hits = {} /\ src = 1 /\ pc = "plan"
  BY DEF Init
<1>2. DOMAIN out = {} /\ DOMAIN stack = {}
  BY <1>1
<1>3. 1 \in FirstUses
  BY ExportAssumption DEF FirstUses
<1> QED
  BY <1>1, <1>2, <1>3 DEF OrderInv, StreamInv, StackInv, HitsInv, YieldedOnce, OldestFirst

\* Where an entry is and when its slice was read do not change with the engine's
\* program counter, nor when documents in hand are let go.
LEMMA QuietKeeps ==
  ASSUME OrderInv, UNCHANGED <<at, moved, lo, src, stack, out>>, hits' \subseteq hits,
         pc' \in {"plan", "count"} => pc \in {"plan", "count"},
         pc' \in {"probe", "emit"} => pc \in {"probe", "emit"} /\ seen \subseteq seen',
         pc' = "count" => lo < End
  PROVE  OrderInv'
<1>1. \A e : Within(e)' <=> Within(e)
  BY DEF Within, Millis
<1>2. StreamInv'
  <2>1. ASSUME NEW i \in DOMAIN out PROVE Placed(out[i])'
    <3>1. Placed(out[i]) /\ out'[i] = out[i]
      BY DEF OrderInv, StreamInv
    <3> QED BY <1>1, <3>1 DEF Placed, Here
  <2> QED BY <2>1 DEF OrderInv, StreamInv
<1>3. StackInv'
  BY DEF OrderInv, StackInv, WindowEnd
<1>4. HitsInv'
  BY DEF OrderInv, HitsInv, Current, WindowEnd, Millis
<1>5. YieldedOnce' /\ OldestFirst'
  BY DEF OrderInv, YieldedOnce, OldestFirst, Millis
<1> QED BY <1>2, <1>3, <1>4, <1>5 DEF OrderInv

\* A step that puts other slices on the stack and fetches other documents.
LEMMA RestackKeeps ==
  ASSUME OrderInv, UNCHANGED <<at, moved, lo, src, out, seen>>,
         pc' \in {"probe", "emit"}, lo < End,
         \A e : Here(e) /\ (\E i \in DOMAIN out : out[i] = e) => pc \in {"probe", "emit"},
         StackInv', HitsInv', OldestFirst'
  PROVE  OrderInv'
<1>1. \A e : Within(e)' <=> Within(e)
  BY DEF Within, Millis
<1>2. StreamInv'
  <2>1. ASSUME NEW i \in DOMAIN out PROVE Placed(out[i])'
    <3>1. Placed(out[i]) /\ out'[i] = out[i]
      BY DEF OrderInv, StreamInv
    <3>2. Here(out[i]) => pc \in {"probe", "emit"}
      OBVIOUS
    <3> QED BY <1>1, <3>1, <3>2 DEF Placed, Here
  <2> QED BY <2>1 DEF OrderInv, StreamInv
<1>3. YieldedOnce'
  BY DEF OrderInv, YieldedOnce
<1> QED BY <1>2, <1>3 DEF OrderInv

LEMMA CountKeeps ==
  ASSUME TypeOK, InHandInv, OrderInv, Count
  PROVE  OrderInv'
<1>1. /\ UNCHANGED <<at, moved, lo, src, out, hits, seen>> /\ pc' = "probe" /\ pc = "count"
      /\ stack' = SeedSlices(Cardinality(Matching(lo, WindowEnd)))
  BY DEF Count, server, partition
<1>2. Cardinality(Matching(lo, WindowEnd)) \in Nat
  BY ExportAssumption, FS_Subset, FS_CardinalityType DEF Matching
<1>3. StackInv'
  <2>1. lo \in Start..End /\ WindowEnd' = WindowEnd
    BY <1>1 DEF TypeOK, WindowEnd
  <2> QED BY <1>1, <1>2, <2>1, SeedsSorted DEF StackInv
<1>4. \A i \in DOMAIN out : ~Here(out[i])
  BY <1>1 DEF OrderInv, StreamInv, Placed
<1>5. OldestFirst'
  BY <1>1, <1>4 DEF OldestFirst, Here
<1>6. HitsInv'
  BY <1>1 DEF InHandInv, HitsInv
<1>7. lo < End
  BY <1>1 DEF OrderInv, StreamInv
<1> QED BY <1>1, <1>3, <1>4, <1>5, <1>6, <1>7, RestackKeeps

\* What a probe finds lies in the top slice, before all the others.
LEMMA ProbeKeeps ==
  ASSUME TypeOK, OrderInv, Probe
  PROVE  OrderInv'
<1>1. /\ UNCHANGED <<at, moved, lo, src, out, seen>> /\ pc' \in {"probe", "emit"}
      /\ pc = "probe" /\ hits' = Matching(Top.start, Top.end)
      /\ stack' = Tail(stack) /\ stack # <<>> /\ stack \in Seq(SliceRecord)
  BY DEF Probe, server, partition, TypeOK, SliceRecord
<1>2. /\ 1 \in DOMAIN stack /\ Top = stack[1] /\ Top \in SliceRecord
      /\ Top.start \in Nat /\ Top.end \in Nat
  <2>1. 1 \in DOMAIN stack /\ Top = stack[1] /\ Top \in SliceRecord
    BY <1>1, TailKeeps DEF Top
  <2> QED BY <2>1 DEF SliceRecord
<1>3. \A k \in DOMAIN stack' :
        k \in Nat /\ k + 1 \in DOMAIN stack /\ k + 1 > 1 /\ stack'[k] = stack[k + 1]
  BY <1>1, TailOnly
<1>4. \A k, m \in DOMAIN stack' : k < m => k + 1 < m + 1
  BY <1>3
<1>5. WindowEnd' = WindowEnd
  BY <1>1 DEF WindowEnd
<1>6. StackInv'
  BY <1>1, <1>3, <1>4, <1>5 DEF OrderInv, StackInv
<1>7. /\ lo \in Nat /\ WindowEnd \in Nat /\ lo <= Top.start /\ Top.end <= WindowEnd
      /\ \A d \in Docs : at[d] \in Nat
  BY <1>2, WindowFacts, ExportAssumption DEF OrderInv, StackInv, TypeOK
<1>8. HitsInv'
  <2>1. ASSUME NEW d \in hits' PROVE Current(d)' /\ at[d] < Millis(Top.end) /\ d \in Docs
    <3>1. /\ SourceOf[d] = Selected[src] /\ d \in Docs
          /\ Millis(Top.start) <= at[d] /\ at[d] < Millis(Top.end)
      BY <1>1, <2>1 DEF Matching
    <3>2. Millis(lo) <= Millis(Top.start) /\ Millis(Top.end) <= Millis(WindowEnd)
      BY <1>2, <1>7, MillisMono
    <3>3. /\ Millis(lo) \in Nat /\ Millis(Top.start) \in Nat /\ at[d] \in Nat
          /\ Millis(Top.end) \in Nat /\ Millis(WindowEnd) \in Nat
      BY <1>2, <1>7, <3>1, MillisType
    <3>4. Millis(lo) <= at[d] /\ at[d] < Millis(WindowEnd)
      BY <3>1, <3>2, <3>3
    <3> QED BY <1>1, <1>5, <3>1, <3>4 DEF Current, Millis
  <2>2. ASSUME NEW d \in hits', NEW k \in DOMAIN stack' PROVE at[d] < Millis(stack'[k].start)
    <3>1. /\ k + 1 \in DOMAIN stack /\ 1 < k + 1 /\ stack'[k] = stack[k + 1]
          /\ stack[k + 1] \in SliceRecord
      BY <1>1, <1>3
    <3>2. Top.end <= stack'[k].start /\ stack'[k].start \in Nat
      BY <1>2, <3>1 DEF OrderInv, StackInv, SliceRecord
    <3>3. Millis(Top.end) <= Millis(stack'[k].start)
      BY <1>2, <3>2, MillisMono
    <3>4. Millis(Top.end) \in Nat /\ Millis(stack'[k].start) \in Nat /\ at[d] \in Nat
      BY <1>2, <1>7, <2>1, <3>2, MillisType
    <3> QED BY <2>1, <3>3, <3>4
  <2> QED BY <1>1, <2>1, <2>2 DEF HitsInv, Millis
<1>9. OldestFirst'
  BY <1>1, <1>3 DEF OrderInv, OldestFirst, Millis
<1>10. lo < End
  BY <1>1 DEF OrderInv, StreamInv
<1> QED BY <1>1, <1>6, <1>8, <1>9, <1>10, RestackKeeps

\* A half begins no earlier than its slice and ends no later.
LEMMA SplitKeeps ==
  ASSUME TypeOK, InHandInv, OrderInv, SplitSlice
  PROVE  OrderInv'
<1> DEFINE mid == Top.start + (Top.end - Top.start) \div 2
           a == Slice(Top.start, mid)
           b == Slice(mid, Top.end)
<1>1. /\ UNCHANGED <<at, moved, lo, src, out, seen, hits, pc>> /\ pc = "probe"
      /\ stack' = <<a, b>> \o Tail(stack)
      /\ stack # <<>> /\ stack \in Seq(SliceRecord)
  BY DEF SplitSlice, SplitTop, server, partition, TypeOK, SliceRecord
<1>2. /\ Top \in SliceRecord /\ Top = stack[1] /\ 1 \in DOMAIN stack
      /\ Top.start \in Nat /\ Top.end \in Nat
  <2>1. 1 \in DOMAIN stack /\ Top = stack[1] /\ Top \in SliceRecord
    BY <1>1, TailKeeps DEF Top
  <2> QED BY <2>1 DEF SliceRecord
<1>3. /\ lo <= Top.start /\ Top.start <= Top.end /\ Top.end <= WindowEnd
      /\ lo \in Nat /\ WindowEnd \in Nat
  BY <1>2, WindowFacts DEF OrderInv, StackInv, TypeOK
<1>4. mid \in Nat /\ Top.start <= mid /\ mid <= Top.end
  <2>1. Top.end - Top.start \in Nat
    BY <1>2, <1>3
  <2>2. /\ (Top.end - Top.start) \div 2 \in Nat
        /\ (Top.end - Top.start) \div 2 <= Top.end - Top.start
    BY <2>1
  <2> QED BY <1>2, <2>1, <2>2
<1>5. a \in SliceRecord /\ b \in SliceRecord
  BY <1>2, <1>4 DEF SliceRecord, Slice
<1>6. a.start = Top.start /\ a.end = mid /\ b.start = mid /\ b.end = Top.end
  BY DEF Slice
<1> HIDE DEF mid, a, b
<1>7. ASSUME NEW k \in DOMAIN stack'
      PROVE  \/ k = 1 /\ stack'[k] = a
             \/ k = 2 /\ stack'[k] = b
             \/ /\ k > 2 /\ k - 1 \in DOMAIN stack /\ k - 1 > 1 /\ stack'[k] = stack[k - 1]
                /\ stack[k - 1] \in SliceRecord /\ Top.end <= stack[k - 1].start
  BY <1>1, <1>2, <1>5, HalvesOnly DEF OrderInv, StackInv
<1>8. DOMAIN stack' \subseteq Nat
  BY <1>1, <1>5, HalvesKeep
<1>9. WindowEnd' = WindowEnd
  BY <1>1 DEF WindowEnd
<1>10. StackInv'
  <2>1. ASSUME NEW k \in DOMAIN stack'
        PROVE  /\ lo <= stack'[k].start /\ stack'[k].start <= stack'[k].end
               /\ stack'[k].end <= WindowEnd
    <3>1. CASE k > 2
      BY <1>7, <1>8, <3>1 DEF OrderInv, StackInv
    <3>2. CASE ~(k > 2)
      BY <1>2, <1>3, <1>4, <1>6, <1>7, <1>8, <3>2
    <3> QED BY <3>1, <3>2
  <2>2. ASSUME NEW k \in DOMAIN stack', NEW m \in DOMAIN stack', k < m
        PROVE  stack'[k].end <= stack'[m].start
    <3>0. k \in Nat /\ m \in Nat
      BY <1>8
    <3>1. CASE k > 2
      <4>1. m > 2 /\ k - 1 < m - 1
        BY <2>2, <3>0, <3>1
      <4>2. /\ k - 1 \in DOMAIN stack /\ stack'[k] = stack[k - 1]
            /\ m - 1 \in DOMAIN stack /\ stack'[m] = stack[m - 1]
        BY <1>7, <3>0, <3>1, <4>1
      <4> QED BY <4>1, <4>2 DEF OrderInv, StackInv
    <3>2. CASE ~(k > 2)
      <4>1. stack'[k].end \in Nat /\ stack'[k].end <= Top.end
        BY <1>2, <1>4, <1>6, <1>7, <3>0, <3>2
      <4>2. CASE m > 2
        <5>1. Top.end <= stack'[m].start /\ stack'[m].start \in Nat
          BY <1>7, <3>0, <4>2 DEF SliceRecord
        <5> QED BY <1>2, <4>1, <5>1
      <4>3. CASE ~(m > 2)
        <5>1. k = 1 /\ m = 2
          BY <1>7, <2>2, <3>0, <3>2, <4>3
        <5> QED BY <1>4, <1>6, <1>7, <5>1
      <4> QED BY <4>2, <4>3
    <3> QED BY <3>1, <3>2
  <2> QED BY <1>1, <1>9, <2>1, <2>2 DEF StackInv
<1>11. ASSUME NEW k \in DOMAIN stack'
       PROVE  \E n \in DOMAIN stack : /\ Millis(stack[n].start) <= Millis(stack'[k].start)
                                      /\ Millis(stack[n].start) \in Nat
                                      /\ Millis(stack'[k].start) \in Nat
  <2>1. CASE k > 2
    <3>1. k - 1 \in DOMAIN stack /\ stack'[k] = stack[k - 1] /\ stack[k - 1].start \in Nat
      BY <1>7, <1>8, <2>1 DEF SliceRecord
    <3> QED BY <3>1, MillisType
  <2>2. CASE ~(k > 2)
    <3>1. stack'[k].start \in Nat /\ stack[1].start <= stack'[k].start
      BY <1>2, <1>4, <1>6, <1>7, <1>8, <2>2
    <3> QED BY <1>2, <3>1, MillisMono, MillisType
  <2> QED BY <2>1, <2>2
<1>12. OldestFirst'
  <2>1. ASSUME NEW i \in DOMAIN out, NEW k \in DOMAIN stack', Here(out[i]),
               out[i].doc \notin moved
        PROVE  at[out[i].doc] < Millis(stack'[k].start)
    <3>1. PICK n \in DOMAIN stack : /\ Millis(stack[n].start) <= Millis(stack'[k].start)
                                    /\ Millis(stack[n].start) \in Nat
                                    /\ Millis(stack'[k].start) \in Nat
      BY <1>11
    <3>2. at[out[i].doc] < Millis(stack[n].start)
      BY <2>1 DEF OrderInv, OldestFirst, Here
    <3>3. at[out[i].doc] \in Nat
      BY EntryType
    <3> QED BY <3>1, <3>2, <3>3
  <2> QED BY <1>1, <2>1 DEF OldestFirst, Here, Millis
<1>13. HitsInv'
  BY <1>1 DEF InHandInv, HitsInv
<1>14. lo < End
  BY <1>1 DEF OrderInv, StreamInv
<1> QED BY <1>1, <1>10, <1>12, <1>13, <1>14, RestackKeeps

\* A document that kept its time is found in one window and under one source.
LEMMA OnePartition ==
  ASSUME TypeOK, StreamInv, NEW d \in Docs, Current(d), NEW i \in DOMAIN out,
         out[i].doc = d, d \notin moved
  PROVE  Here(out[i])
<1>2. out[i].lo \in Nat /\ out[i].src \in Nat /\ src \in Nat /\ lo \in Nat
  BY EntryType, ExportAssumption DEF TypeOK
<1>3. Placed(out[i]) /\ Within(out[i])
  BY DEF StreamInv, Placed
<1>4. out[i].src = src
  <2>1. Selected[out[i].src] = Selected[src]
    BY <1>3 DEF Within, Current
  <2>2. out[i].src \in FirstUses /\ src \in FirstUses /\ FirstUses \subseteq Nat \ {0}
    BY <1>3, ExportAssumption DEF Placed, StreamInv, FirstUses
  <2>3. \A j, k \in FirstUses : j < k => Selected[j] # Selected[k]
    <3>1. ASSUME NEW j \in FirstUses, NEW k \in FirstUses, j < k PROVE j \in 1..(k - 1)
      BY <2>2, <3>1
    <3> QED BY <3>1 DEF FirstUses
  <2>4. ~(out[i].src < src) /\ ~(src < out[i].src)
    BY <2>1, <2>2, <2>3
  <2> QED BY <1>2, <2>4
<1>5. out[i].lo = lo
  <2> SUFFICES ASSUME out[i].lo # lo PROVE FALSE
    OBVIOUS
  <2>1. EndOf(out[i].lo) <= lo
    BY <1>3 DEF Placed
  <2>2. EndOf(out[i].lo) \in Nat /\ lo \in Nat
    BY <1>2, ExportAssumption DEF EndOf, Min2
  <2>3. Millis(EndOf(out[i].lo)) <= Millis(lo)
    BY <2>1, <2>2, MillisMono
  <2>4. at[d] < Millis(EndOf(out[i].lo)) /\ Millis(lo) <= at[d]
    BY <1>3 DEF Within, Current
  <2>5. at[d] \in Nat /\ Millis(lo) \in Nat /\ Millis(EndOf(out[i].lo)) \in Nat
    BY <2>2, MillisType, ExportAssumption DEF TypeOK
  <2> QED BY <2>3, <2>4, <2>5
<1> QED BY <1>4, <1>5 DEF Here

LEMMA EmitKeeps ==
  ASSUME TypeOK, OrderInv, NEW d \in Docs, Emit(d)
  PROVE  OrderInv'
<1>0. PICK new : new = [doc |-> d, lo |-> lo, src |-> src]
  OBVIOUS
<1>a. PICK last \in Nat : last = Len(out) + 1
  BY DEF TypeOK
<1>1. /\ UNCHANGED <<at, moved, lo, src, stack>> /\ pc = "emit" /\ pc' \in {"probe", "emit"}
      /\ d \in hits /\ d \notin seen /\ hits' \subseteq hits
      /\ seen' = seen \cup {d} /\ out' = Append(out, new)
  BY <1>0 DEF Emit, server, partition
<1>2. /\ DOMAIN out' = DOMAIN out \cup {last} /\ out'[last] = new
      /\ \A i \in DOMAIN out : out'[i] = out[i] /\ i < last
  BY <1>1, <1>a DEF TypeOK
<1>3. new.doc = d /\ new.lo = lo /\ new.src = src
  BY <1>0
<1>4. d \notin moved => Current(d)
  BY <1>1 DEF OrderInv, HitsInv
<1>5. \A e : Within(e)' <=> Within(e)
  BY <1>1 DEF Within, Millis
<1>6. StreamInv'
  <2>1. ASSUME NEW i \in DOMAIN out PROVE Placed(out[i])'
    <3>1. Placed(out[i]) /\ out'[i] = out[i]
      BY <1>2 DEF OrderInv, StreamInv
    <3> QED BY <1>1, <1>5, <3>1 DEF Placed, Here
  <2>2. Placed(out[last])'
    <3>1. new.src \in FirstUses /\ src \in Nat
      BY <1>3, ExportAssumption DEF OrderInv, StreamInv, FirstUses
    <3>2. d \notin moved => Within(new)
      BY <1>3, <1>4 DEF Current, Within, EndOf, WindowEnd
    <3>3. out'[last] = new /\ (Within(new)' <=> Within(new))
      BY <1>2, <1>5
    <3> QED BY <1>1, <1>3, <3>1, <3>2, <3>3 DEF Placed, Here, Within
  <2>3. ASSUME NEW i \in DOMAIN out' PROVE Placed(out[i])'
    BY <1>2, <2>1, <2>2
  <2> QED BY <1>1, <2>3 DEF OrderInv, StreamInv
<1>7. StackInv'
  BY <1>1 DEF OrderInv, StackInv, WindowEnd
<1>8. HitsInv'
  BY <1>1 DEF OrderInv, HitsInv, Current, WindowEnd, Millis
<1>9. ASSUME NEW i \in DOMAIN out, out[i].doc = d
      PROVE  d \in moved /\ ~Here(out[i])
  <2>1. ~Here(out[i])
    BY <1>1, <1>9 DEF OrderInv, StreamInv, Placed
  <2> QED BY <1>4, <1>9, <2>1, OnePartition DEF OrderInv
<1>10. YieldedOnce'
  <2>1. ASSUME NEW i \in DOMAIN out', NEW k \in DOMAIN out', i < k, out'[i].doc = out'[k].doc
        PROVE  out'[i].doc \in moved /\ <<out'[i].lo, out'[i].src>> # <<out'[k].lo, out'[k].src>>
    <3>0. DOMAIN out \subseteq Nat
      BY DEF TypeOK
    <3>1. i \in DOMAIN out
      BY <1>2, <2>1, <3>0
    <3>2. CASE k \in DOMAIN out
      BY <1>2, <2>1, <3>1, <3>2 DEF OrderInv, YieldedOnce
    <3>3. CASE k = last
      BY <1>2, <1>3, <1>9, <2>1, <3>1, <3>3 DEF Here
    <3> QED BY <1>2, <3>2, <3>3
  <2> QED BY <1>1, <2>1 DEF YieldedOnce
<1>11. OldestFirst'
  <2>1. ASSUME NEW i \in DOMAIN out', NEW k \in DOMAIN stack, Here(out'[i]),
               out'[i].doc \notin moved
        PROVE  at[out'[i].doc] < Millis(stack[k].start)
    <3>1. CASE i \in DOMAIN out
      BY <1>2, <2>1, <3>1 DEF OrderInv, OldestFirst, Here
    <3>2. CASE i = last
      BY <1>1, <1>2, <1>3, <2>1, <3>2 DEF OrderInv, HitsInv
    <3> QED BY <1>2, <3>1, <3>2
  <2> QED BY <1>1, <2>1 DEF OldestFirst, Here, Millis
<1> QED BY <1>6, <1>7, <1>8, <1>10, <1>11 DEF OrderInv

\* The next partition lies behind everything yielded so far.
LEMMA LeaveKeeps ==
  ASSUME TypeOK, OrderInv, NextPartition, pc \in {"probe", "emit"}
  PROVE  OrderInv'
<1>1. /\ UNCHANGED <<at, moved, seen, out>> /\ pc' = "plan" /\ hits' = {} /\ stack' = <<>>
  BY DEF NextPartition, server
<1>2. /\ lo \in Nat /\ lo < WindowEnd /\ lo \in Start..End /\ WindowEnd = EndOf(lo)
      /\ WindowEnd \in Nat
  BY WindowFacts DEF OrderInv, StreamInv, TypeOK, WindowEnd, EndOf
<1>3. \A e : Within(e)' <=> Within(e)
  BY <1>1 DEF Within, Millis
<1>4. src' \in FirstUses
  <2>1. CASE SourceAfter(src) # {}
    BY <2>1, NextSource DEF SourceAfter
  <2>2. CASE SourceAfter(src) = {}
    BY <2>2, ExportAssumption DEF NextPartition, FirstUses
  <2> QED BY <2>1, <2>2
<1>5. ASSUME NEW i \in DOMAIN out PROVE Placed(out[i])'
  <2>2. out[i].lo \in Start..End /\ out[i].lo \in Nat /\ out[i].src \in Nat
    BY EntryType
  <2>3. EndOf(out[i].lo) \in Nat /\ out[i].lo <= EndOf(out[i].lo)
    BY <2>2, ExportAssumption DEF EndOf, Min2
  <2>4. Placed(out[i])
    BY DEF OrderInv, StreamInv
  <2>5. /\ out[i].lo # lo' => EndOf(out[i].lo) <= lo'
        /\ out[i].lo = lo' => out[i].src < src'
    <3>1. CASE SourceAfter(src) # {}
      <4>1. lo' = lo /\ src < src'
        BY <3>1, NextSource DEF NextPartition, SourceAfter
      <4>2. src \in Nat /\ src' \in Nat
        BY <1>4, ExportAssumption DEF TypeOK, FirstUses
      <4> QED BY <2>2, <2>4, <4>1, <4>2 DEF Placed
    <3>2. CASE SourceAfter(src) = {}
      <4>1. lo' = WindowEnd
        BY <3>2 DEF NextPartition
      <4>2. EndOf(out[i].lo) <= lo'
        <5>1. CASE out[i].lo = lo
          BY <1>2, <4>1, <5>1
        <5>2. CASE out[i].lo # lo
          BY <1>2, <2>3, <2>4, <4>1, <5>2 DEF Placed
        <5> QED BY <5>1, <5>2
      <4>3. out[i].lo # lo'
        <5>1. CASE out[i].lo = lo
          BY <1>2, <4>1, <5>1
        <5>2. CASE out[i].lo # lo
          BY <1>2, <2>2, <2>3, <2>4, <4>1, <5>2 DEF Placed
        <5> QED BY <5>1, <5>2
      <4> QED BY <4>2, <4>3
    <3> QED BY <3>1, <3>2
  <2>6. src' \in Nat
    BY <1>4, ExportAssumption DEF FirstUses
  <2>7. ~Here(out[i])' /\ (out[i].lo = lo' => out[i].src <= src')
    BY <1>1, <2>2, <2>5, <2>6 DEF Here
  <2> QED BY <1>1, <1>3, <2>4, <2>5, <2>7 DEF Placed, Here
<1>6. StreamInv'
  BY <1>1, <1>4, <1>5 DEF StreamInv
<1>7. DOMAIN stack' = {}
  BY <1>1
<1>8. StackInv' /\ OldestFirst' /\ HitsInv'
  BY <1>1, <1>7 DEF StackInv, OldestFirst, HitsInv
<1>9. YieldedOnce'
  BY <1>1 DEF OrderInv, YieldedOnce
<1> QED BY <1>6, <1>8, <1>9 DEF OrderInv

LEMMA RedateKeeps ==
  ASSUME TypeOK, OrderInv, NEW e \in Docs, NEW t \in Times, Redate(e, t)
  PROVE  OrderInv'
<1>1. /\ UNCHANGED <<pc, lo, src, stack, hits, seen, out>> /\ moved' = moved \cup {e}
      /\ \A d \in Docs : d # e => at'[d] = at[d]
  BY DEF Redate, partition, TypeOK
<1>2. ASSUME NEW i \in DOMAIN out PROVE Placed(out[i])' /\ out[i].doc \in Docs
  <2>2. Placed(out[i]) /\ out[i].doc \in Docs
    BY EntryType DEF OrderInv, StreamInv
  <2>3. out[i].doc \notin moved' => (Within(out[i])' <=> Within(out[i]))
    BY <1>1, <2>2 DEF Within, Millis
  <2> QED BY <1>1, <2>2, <2>3 DEF Placed, Here
<1>3. StreamInv'
  BY <1>1, <1>2 DEF OrderInv, StreamInv
<1>4. StackInv'
  BY <1>1 DEF OrderInv, StackInv, WindowEnd
<1>5. HitsInv'
  BY <1>1 DEF OrderInv, HitsInv, Current, WindowEnd, Millis, TypeOK
<1>6. YieldedOnce'
  BY <1>1 DEF OrderInv, YieldedOnce
<1>7. OldestFirst'
  BY <1>1, <1>2 DEF OrderInv, OldestFirst, Millis
<1> QED BY <1>3, <1>4, <1>5, <1>6, <1>7 DEF OrderInv

LEMMA OrderStep == TypeOK /\ InHandInv /\ OrderInv /\ [Next]_vars => OrderInv'
<1> SUFFICES ASSUME TypeOK, InHandInv, OrderInv, [Next]_vars PROVE OrderInv'
  OBVIOUS
<1> USE DEF server, partition
<1>1. CASE BeginPartition \/ AllRead
  BY <1>1, QuietKeeps DEF BeginPartition, AllRead
<1>2. CASE Count
  BY <1>2, CountKeeps
<1>3. CASE Probe
  BY <1>3, ProbeKeeps
<1>4. CASE SplitSlice
  BY <1>4, SplitKeeps
<1>5. CASE DenseSlice \/ Fail \/ Cancel
  BY <1>5, QuietKeeps DEF DenseSlice, Fail, Cancel
<1>6. ASSUME NEW d \in Docs, Emit(d) PROVE OrderInv'
  BY <1>6, EmitKeeps
<1>7. ASSUME NEW d \in Docs, SkipDuplicate(d) PROVE OrderInv'
  BY <1>7, QuietKeeps DEF SkipDuplicate
<1>8. CASE LimitReached \/ PartitionRead
  BY <1>8, LeaveKeeps DEF LimitReached, PartitionRead
<1>9. ASSUME NEW d \in Docs, NEW t \in Times, Redate(d, t) PROVE OrderInv'
  BY <1>9, RedateKeeps
<1>10. CASE UNCHANGED vars
  BY <1>10, QuietKeeps DEF vars, OrderInv, StreamInv
<1> QED
  BY <1>1, <1>2, <1>3, <1>4, <1>5, <1>6, <1>7, <1>8, <1>9, <1>10 DEF Next, Engine

\* The stream of an export holds no document twice unless it was re-dated across
\* partitions, and hands out what kept its time slice by slice from the oldest to the
\* newest, however often slices were halved (iter_documents, seen_identities).
THEOREM StreamInOrder == Spec => []YieldsInOrder
<1>1. Init => TypeOK /\ ReadInv /\ InHandInv /\ OrderInv
  BY SliceTypeInit, ReadInit, OrderInit
<1>2. TypeOK /\ ReadInv /\ InHandInv /\ OrderInv /\ [Next]_vars
        => (TypeOK /\ ReadInv /\ InHandInv /\ OrderInv)'
  BY SliceTypeStep, ReadStep, OrderStep
<1>3. OrderInv => YieldsInOrder
  BY DEF OrderInv, YieldsInOrder
<1> QED BY <1>1, <1>2, <1>3, PTL DEF Spec
=============================================================================
