----------------------------- MODULE WatchProofs -----------------------------
(***************************************************************************)
(* Theorems about the two systems that are built on the evaluator of       *)
(* Watch: one watch over time (WatchLoop), for every set of facts, watches *)
(* and bounds, and the host that delivers what the evaluator answers       *)
(* (WatchHost), for every set of run processes, worlds, signed assertions, *)
(* declared profiles and bounds.                                           *)
(***************************************************************************)
EXTENDS WatchLoop, WatchHost, SequenceTheorems, WellFoundedInduction, TLAPS

(***************************************************************************)
(* The first rule that applies                                             *)
(***************************************************************************)
LEMMA LeastNatural ==
  ASSUME NEW T, T \subseteq Nat, T # {} PROVE \E m \in T : \A k \in T : ~(k < m)
<1>1. IsWellFoundedOn(OpToRel(<, Nat), Nat)
  BY NatLessThanWellFounded
<1>2. \E m \in T : \A k \in T : ~(<<k, m>> \in OpToRel(<, Nat))
  BY <1>1, WFMin
<1> QED BY <1>2 DEF OpToRel

\* A list of rules whose last one always applies answers with the first that does.
LEMMA FirstRule ==
  ASSUME NEW n \in Nat, NEW rules, DOMAIN rules = 1..n, n \in 1..n, rules[n][1]
  PROVE  \E i \in 1..n : /\ rules[i][1] /\ \A j \in 1..(i - 1) : ~rules[j][1]
                         /\ FirstOf(rules) = rules[i][2]
<1> DEFINE T == {i \in 1..n : rules[i][1]}
           First(i) == i \in DOMAIN rules /\ rules[i][1] /\ \A j \in 1..(i - 1) : ~rules[j][1]
<1>1. PICK m \in T : \A k \in T : ~(k < m)
  <2>1. T \subseteq Nat /\ T # {}
    OBVIOUS
  <2> QED BY <2>1, LeastNatural
<1>2. First(m)
  BY <1>1
<1>3. First(CHOOSE i : First(i))
  BY <1>2
<1>4. FirstOf(rules) = rules[CHOOSE i \in DOMAIN rules :
                               rules[i][1] /\ \A j \in 1..(i - 1) : ~rules[j][1]][2]
  BY DEF FirstOf
<1>5. (CHOOSE i \in DOMAIN rules : rules[i][1] /\ \A j \in 1..(i - 1) : ~rules[j][1])
      = CHOOSE i : First(i)
  OBVIOUS
<1> QED BY <1>3, <1>4, <1>5

(***************************************************************************)
(* The rules of the planner and of the evaluator as alternatives           *)
(***************************************************************************)
LEMMA SubjectRules ==
  ASSUME NEW f
  PROVE  SubjectVersion(f) =
    IF f.pr.head # "UNKNOWN" THEN f.pr.head
    ELSE IF f.ci.head # "UNKNOWN" THEN f.ci.head
    ELSE IF f.git.head # "UNKNOWN" THEN f.git.head
    ELSE "NONE"
<1> DEFINE rules == <<
  <<f.pr.head # "UNKNOWN", f.pr.head>>,
  <<f.ci.head # "UNKNOWN", f.ci.head>>,
  <<f.git.head # "UNKNOWN", f.git.head>>,
  <<TRUE, "NONE">>>>
<1>1. SubjectVersion(f) = FirstOf(rules)
  BY DEF SubjectVersion
<1>2. DOMAIN rules = 1..4 /\ rules[4][1]
  OBVIOUS
<1>3. /\ rules[1][1] <=> f.pr.head # "UNKNOWN"
      /\ rules[2][1] <=> f.ci.head # "UNKNOWN"
      /\ rules[3][1] <=> f.git.head # "UNKNOWN"
  OBVIOUS
<1>4. /\ rules[1][2] = f.pr.head
      /\ rules[2][2] = f.ci.head
      /\ rules[3][2] = f.git.head
      /\ rules[4][2] = "NONE"
  OBVIOUS
<1> HIDE DEF rules
<1>5. PICK i \in 1..4 :
        /\ rules[i][1] /\ \A j \in 1..(i - 1) : ~rules[j][1]
        /\ FirstOf(rules) = rules[i][2]
  <2>1. 4 \in Nat /\ 4 \in 1..4
    OBVIOUS
  <2> QED BY <1>2, <2>1, FirstRule, Zenon
<1> QED BY <1>1, <1>3, <1>4, <1>5

\* The chains of the planner and of the evaluator as alternatives.
LEMMA AuditRules ==
  ASSUME NEW f
  PROVE  AuditOrAuthorize(f) =
    IF f.publication.audit = "FAIL" THEN "REPLAN_SEMANTIC_FAILURE"
    ELSE IF Audited(f) THEN "AUTHORIZE_PUBLICATION"
    ELSE "AUDIT_DIRTY_TREE"
<1> DEFINE rules == <<
  <<f.publication.audit = "FAIL", "REPLAN_SEMANTIC_FAILURE">>,
  <<Audited(f), "AUTHORIZE_PUBLICATION">>,
  <<TRUE, "AUDIT_DIRTY_TREE">>>>
<1>1. AuditOrAuthorize(f) = FirstOf(rules)
  BY DEF AuditOrAuthorize
<1>2. DOMAIN rules = 1..3 /\ rules[3][1]
  OBVIOUS
<1>3. /\ rules[1][1] <=> f.publication.audit = "FAIL"
      /\ rules[2][1] <=> Audited(f)
  OBVIOUS
<1>4. /\ rules[1][2] = "REPLAN_SEMANTIC_FAILURE"
      /\ rules[2][2] = "AUTHORIZE_PUBLICATION"
      /\ rules[3][2] = "AUDIT_DIRTY_TREE"
  OBVIOUS
<1> HIDE DEF rules
<1>5. PICK i \in 1..3 :
        /\ rules[i][1] /\ \A j \in 1..(i - 1) : ~rules[j][1]
        /\ FirstOf(rules) = rules[i][2]
  <2>1. 3 \in Nat /\ 3 \in 1..3
    OBVIOUS
  <2> QED BY <1>2, <2>1, FirstRule, Zenon
<1> QED BY <1>1, <1>3, <1>4, <1>5

LEMMA PRRules ==
  ASSUME NEW f
  PROVE  PRPipeline(f) =
    IF f.pr.state # "OPEN" THEN "WAIT_EXTERNAL"
    ELSE IF ~ExactTree(f) THEN "WAIT_EXACT_HEAD_CI"
    ELSE IF f.ci.state = "FAIL" /\ CIExact(f) THEN "REPLAN_SEMANTIC_FAILURE"
    ELSE IF f.ci.state # "PASS" \/ ~CIExact(f) THEN "WAIT_EXACT_HEAD_CI"
    ELSE IF ~ReviewClear(f) THEN "AUDIT_REVIEW"
    ELSE IF f.git.dirty # "NO" THEN "AUDIT_DIRTY_TREE"
    ELSE IF f.git.unpushed # "NO" THEN "WAIT_EXTERNAL"
    ELSE IF f.gates = "PENDING" THEN "WAIT_EXTERNAL"
    ELSE IF f.packet.risk = "HIGH" /\ ~Audited(f) THEN "WAIT_EXTERNAL"
    ELSE IF f.pr.mergeable # "YES" THEN "WAIT_EXTERNAL"
    ELSE "MERGE_READY"
<1> DEFINE rules == <<
  <<f.pr.state # "OPEN", "WAIT_EXTERNAL">>,
  <<~ExactTree(f), "WAIT_EXACT_HEAD_CI">>,
  <<f.ci.state = "FAIL" /\ CIExact(f), "REPLAN_SEMANTIC_FAILURE">>,
  <<f.ci.state # "PASS" \/ ~CIExact(f), "WAIT_EXACT_HEAD_CI">>,
  <<~ReviewClear(f), "AUDIT_REVIEW">>,
  <<f.git.dirty # "NO", "AUDIT_DIRTY_TREE">>,
  <<f.git.unpushed # "NO", "WAIT_EXTERNAL">>,
  <<f.gates = "PENDING", "WAIT_EXTERNAL">>,
  <<f.packet.risk = "HIGH" /\ ~Audited(f), "WAIT_EXTERNAL">>,
  <<f.pr.mergeable # "YES", "WAIT_EXTERNAL">>,
  <<TRUE, "MERGE_READY">>>>
<1>1. PRPipeline(f) = FirstOf(rules)
  BY DEF PRPipeline
<1>2. DOMAIN rules = 1..11 /\ rules[11][1]
  OBVIOUS
<1>3. /\ rules[1][1] <=> f.pr.state # "OPEN"
      /\ rules[2][1] <=> ~ExactTree(f)
      /\ rules[3][1] <=> f.ci.state = "FAIL" /\ CIExact(f)
      /\ rules[4][1] <=> f.ci.state # "PASS" \/ ~CIExact(f)
      /\ rules[5][1] <=> ~ReviewClear(f)
      /\ rules[6][1] <=> f.git.dirty # "NO"
      /\ rules[7][1] <=> f.git.unpushed # "NO"
      /\ rules[8][1] <=> f.gates = "PENDING"
      /\ rules[9][1] <=> f.packet.risk = "HIGH" /\ ~Audited(f)
      /\ rules[10][1] <=> f.pr.mergeable # "YES"
  OBVIOUS
<1>4. /\ rules[1][2] = "WAIT_EXTERNAL"
      /\ rules[2][2] = "WAIT_EXACT_HEAD_CI"
      /\ rules[3][2] = "REPLAN_SEMANTIC_FAILURE"
      /\ rules[4][2] = "WAIT_EXACT_HEAD_CI"
      /\ rules[5][2] = "AUDIT_REVIEW"
      /\ rules[6][2] = "AUDIT_DIRTY_TREE"
      /\ rules[7][2] = "WAIT_EXTERNAL"
      /\ rules[8][2] = "WAIT_EXTERNAL"
      /\ rules[9][2] = "WAIT_EXTERNAL"
      /\ rules[10][2] = "WAIT_EXTERNAL"
      /\ rules[11][2] = "MERGE_READY"
  OBVIOUS
<1> HIDE DEF rules
<1>5. PICK i \in 1..11 :
        /\ rules[i][1] /\ \A j \in 1..(i - 1) : ~rules[j][1]
        /\ FirstOf(rules) = rules[i][2]
  <2>1. 11 \in Nat /\ 11 \in 1..11
    OBVIOUS
  <2> QED BY <1>2, <2>1, FirstRule, Zenon
<1> QED BY <1>1, <1>3, <1>4, <1>5

Implementing(f) == ActiveWorker(f) /\ ~f.git.yielded

LEMMA PathRules ==
  ASSUME NEW f
  PROVE  ImplementationPath(f) =
    IF f.git.dirty = "YES" /\ ~Implementing(f) THEN AuditOrAuthorize(f)
    ELSE IF f.git.yielded THEN AuditOrAuthorize(f)
    ELSE IF Implementing(f) /\ f.worker.progress THEN "RESUME_WORKER"
    ELSE IF Implementing(f) THEN "WAIT_EXTERNAL"
    ELSE IF f.git.dirty = "UNKNOWN" \/ f.git.unpushed = "UNKNOWN" THEN "WAIT_EXTERNAL"
    ELSE IF f.git.dirty = "NO" /\ f.resource \in {"PASS", "WARN"} /\ f.admission = "ALLOW" THEN "ADMIT_IMPLEMENTATION"
    ELSE "WAIT_EXTERNAL"
<1> DEFINE rules == <<
  <<f.git.dirty = "YES" /\ ~Implementing(f), AuditOrAuthorize(f)>>,
  <<f.git.yielded, AuditOrAuthorize(f)>>,
  <<Implementing(f) /\ f.worker.progress, "RESUME_WORKER">>,
  <<Implementing(f), "WAIT_EXTERNAL">>,
  <<f.git.dirty = "UNKNOWN" \/ f.git.unpushed = "UNKNOWN", "WAIT_EXTERNAL">>,
  <<f.git.dirty = "NO" /\ f.resource \in {"PASS", "WARN"} /\ f.admission = "ALLOW", "ADMIT_IMPLEMENTATION">>,
  <<TRUE, "WAIT_EXTERNAL">>>>
<1>1. ImplementationPath(f) = FirstOf(rules)
  BY DEF ImplementationPath, Implementing
<1>2. DOMAIN rules = 1..7 /\ rules[7][1]
  OBVIOUS
<1>3. /\ rules[1][1] <=> f.git.dirty = "YES" /\ ~Implementing(f)
      /\ rules[2][1] <=> f.git.yielded
      /\ rules[3][1] <=> Implementing(f) /\ f.worker.progress
      /\ rules[4][1] <=> Implementing(f)
      /\ rules[5][1] <=> f.git.dirty = "UNKNOWN" \/ f.git.unpushed = "UNKNOWN"
      /\ rules[6][1] <=> f.git.dirty = "NO" /\ f.resource \in {"PASS", "WARN"} /\ f.admission = "ALLOW"
  OBVIOUS
<1>4. /\ rules[1][2] = AuditOrAuthorize(f)
      /\ rules[2][2] = AuditOrAuthorize(f)
      /\ rules[3][2] = "RESUME_WORKER"
      /\ rules[4][2] = "WAIT_EXTERNAL"
      /\ rules[5][2] = "WAIT_EXTERNAL"
      /\ rules[6][2] = "ADMIT_IMPLEMENTATION"
      /\ rules[7][2] = "WAIT_EXTERNAL"
  OBVIOUS
<1> HIDE DEF rules
<1>5. PICK i \in 1..7 :
        /\ rules[i][1] /\ \A j \in 1..(i - 1) : ~rules[j][1]
        /\ FirstOf(rules) = rules[i][2]
  <2>1. 7 \in Nat /\ 7 \in 1..7
    OBVIOUS
  <2> QED BY <1>2, <2>1, FirstRule, Zenon
<1> QED BY <1>1, <1>3, <1>4, <1>5

LEMMA PlanRules ==
  ASSUME NEW f
  PROVE  Plan(f) =
    IF f.packet.status = "COMPLETE" THEN "NOOP_COMPLETE"
    ELSE IF f.packet.status = "PAUSED" THEN "NOOP_PAUSED"
    ELSE IF f.packet.status = "BLOCKED" THEN "BLOCK_HUMAN"
    ELSE IF f.mutation.ambiguous \/ f.failure.class = "AMBIGUOUS_MUTATION" THEN "RECONCILE_AMBIGUOUS"
    ELSE IF StaleWorker(f) THEN "STALE_WORKER"
    ELSE IF f.failure.class = "SEMANTIC" \/ f.failure.identical >= 2 THEN "REPLAN_SEMANTIC_FAILURE"
    ELSE IF f.failure.class \in {"HUMAN_REQUIRED", "AUTHORITY"} THEN "BLOCK_HUMAN"
    ELSE IF ResourceBlocked(f) THEN "YIELD_RESOURCE"
    ELSE IF f.failure.class = "TRANSIENT" THEN TransientDecision(f)
    ELSE IF ~DependenciesEligible(f.packet) THEN "WAIT_EXTERNAL"
    ELSE IF f.pr.exists THEN PRPipeline(f)
    ELSE IF f.wait.external THEN "WAIT_EXTERNAL"
    ELSE ImplementationPath(f)
<1> DEFINE rules == <<
  <<f.packet.status = "COMPLETE", "NOOP_COMPLETE">>,
  <<f.packet.status = "PAUSED", "NOOP_PAUSED">>,
  <<f.packet.status = "BLOCKED", "BLOCK_HUMAN">>,
  <<f.mutation.ambiguous \/ f.failure.class = "AMBIGUOUS_MUTATION", "RECONCILE_AMBIGUOUS">>,
  <<StaleWorker(f), "STALE_WORKER">>,
  <<f.failure.class = "SEMANTIC" \/ f.failure.identical >= 2, "REPLAN_SEMANTIC_FAILURE">>,
  <<f.failure.class \in {"HUMAN_REQUIRED", "AUTHORITY"}, "BLOCK_HUMAN">>,
  <<ResourceBlocked(f), "YIELD_RESOURCE">>,
  <<f.failure.class = "TRANSIENT", TransientDecision(f)>>,
  <<~DependenciesEligible(f.packet), "WAIT_EXTERNAL">>,
  <<f.pr.exists, PRPipeline(f)>>,
  <<f.wait.external, "WAIT_EXTERNAL">>,
  <<TRUE, ImplementationPath(f)>>>>
<1>1. Plan(f) = FirstOf(rules)
  BY DEF Plan
<1>2. DOMAIN rules = 1..13 /\ rules[13][1]
  OBVIOUS
<1>3. /\ rules[1][1] <=> f.packet.status = "COMPLETE"
      /\ rules[2][1] <=> f.packet.status = "PAUSED"
      /\ rules[3][1] <=> f.packet.status = "BLOCKED"
      /\ rules[4][1] <=> f.mutation.ambiguous \/ f.failure.class = "AMBIGUOUS_MUTATION"
      /\ rules[5][1] <=> StaleWorker(f)
      /\ rules[6][1] <=> f.failure.class = "SEMANTIC" \/ f.failure.identical >= 2
      /\ rules[7][1] <=> f.failure.class \in {"HUMAN_REQUIRED", "AUTHORITY"}
      /\ rules[8][1] <=> ResourceBlocked(f)
      /\ rules[9][1] <=> f.failure.class = "TRANSIENT"
      /\ rules[10][1] <=> ~DependenciesEligible(f.packet)
      /\ rules[11][1] <=> f.pr.exists
      /\ rules[12][1] <=> f.wait.external
  OBVIOUS
<1>4. /\ rules[1][2] = "NOOP_COMPLETE"
      /\ rules[2][2] = "NOOP_PAUSED"
      /\ rules[3][2] = "BLOCK_HUMAN"
      /\ rules[4][2] = "RECONCILE_AMBIGUOUS"
      /\ rules[5][2] = "STALE_WORKER"
      /\ rules[6][2] = "REPLAN_SEMANTIC_FAILURE"
      /\ rules[7][2] = "BLOCK_HUMAN"
      /\ rules[8][2] = "YIELD_RESOURCE"
      /\ rules[9][2] = TransientDecision(f)
      /\ rules[10][2] = "WAIT_EXTERNAL"
      /\ rules[11][2] = PRPipeline(f)
      /\ rules[12][2] = "WAIT_EXTERNAL"
      /\ rules[13][2] = ImplementationPath(f)
  OBVIOUS
<1> HIDE DEF rules
<1>5. PICK i \in 1..13 :
        /\ rules[i][1] /\ \A j \in 1..(i - 1) : ~rules[j][1]
        /\ FirstOf(rules) = rules[i][2]
  <2>1. 13 \in Nat /\ 13 \in 1..13
    OBVIOUS
  <2> QED BY <1>2, <2>1, FirstRule, Zenon
<1> QED BY <1>1, <1>3, <1>4, <1>5

LEMMA EvaluateRules ==
  ASSUME NEW f, NEW w, NEW s
  PROVE  Evaluate(f, w, s) =
    IF s.terminal = "CLOSED" THEN Preserved("CLOSE_WATCH", s)
    ELSE IF StaleIdentity(f, w, s) THEN CloseStale(f, w, s)
    ELSE IF ObservationIsOlder(w, s) THEN Preserved("NO_CHANGE", s)
    ELSE IF f.mutation.ambiguous \/ f.failure.class = "AMBIGUOUS_MUTATION" THEN MapDecision(f, w, s, "RECONCILE_AMBIGUOUS")
    ELSE MapDecision(f, w, s, Plan(PlannerView(f, w, s)))
<1> DEFINE rules == <<
  <<s.terminal = "CLOSED", Preserved("CLOSE_WATCH", s)>>,
  <<StaleIdentity(f, w, s), CloseStale(f, w, s)>>,
  <<ObservationIsOlder(w, s), Preserved("NO_CHANGE", s)>>,
  <<f.mutation.ambiguous \/ f.failure.class = "AMBIGUOUS_MUTATION", MapDecision(f, w, s, "RECONCILE_AMBIGUOUS")>>,
  <<TRUE, MapDecision(f, w, s, Plan(PlannerView(f, w, s)))>>>>
<1>1. Evaluate(f, w, s) = FirstOf(rules)
  BY DEF Evaluate
<1>2. DOMAIN rules = 1..5 /\ rules[5][1]
  OBVIOUS
<1>3. /\ rules[1][1] <=> s.terminal = "CLOSED"
      /\ rules[2][1] <=> StaleIdentity(f, w, s)
      /\ rules[3][1] <=> ObservationIsOlder(w, s)
      /\ rules[4][1] <=> f.mutation.ambiguous \/ f.failure.class = "AMBIGUOUS_MUTATION"
  OBVIOUS
<1>4. /\ rules[1][2] = Preserved("CLOSE_WATCH", s)
      /\ rules[2][2] = CloseStale(f, w, s)
      /\ rules[3][2] = Preserved("NO_CHANGE", s)
      /\ rules[4][2] = MapDecision(f, w, s, "RECONCILE_AMBIGUOUS")
      /\ rules[5][2] = MapDecision(f, w, s, Plan(PlannerView(f, w, s)))
  OBVIOUS
<1> HIDE DEF rules
<1>5. PICK i \in 1..5 :
        /\ rules[i][1] /\ \A j \in 1..(i - 1) : ~rules[j][1]
        /\ FirstOf(rules) = rules[i][2]
  <2>1. 5 \in Nat /\ 5 \in 1..5
    OBVIOUS
  <2> QED BY <1>2, <2>1, FirstRule, Zenon
<1> QED BY <1>1, <1>3, <1>4, <1>5

\* What a decision is told as: its own name but for a resume that is not this
\* watch's, a resume only where it is allowed.
Said(f, decision, result, name, next, same) ==
  [result |-> result, decision |-> name, digest |-> Digest(f, decision), next |-> next,
   unchanged |-> same, terminal |-> IF result = "CLOSE_WATCH" THEN "CLOSED" ELSE "OPEN"]

Tells(f, w, s, decision, result, name, next) ==
  /\ \/ name = decision
     \/ name = "OUT_OF_SCOPE" /\ result = "BLOCK_RECONCILIATION" /\ decision = "RESUME_WORKER"
  /\ next \in {0, NextCheck(w, s, TRUE), NextCheck(w, s, FALSE)}
  /\ result = "RESUME_ADMITTED_WORKER" =>
       /\ decision = "RESUME_WORKER" /\ w.class = "worker_progress_or_yield"
       /\ ResumeAllowed(f)
  /\ result = "CLOSE_WATCH" => decision = "NOOP_COMPLETE" \/ f.packet.status = "COMPLETE"

LEMMA MapSays ==
  ASSUME NEW f, NEW w, NEW s, NEW decision
  PROVE  \E result, name, next, same :
           /\ MapDecision(f, w, s, decision) =
                Emit(f, w, s, Said(f, decision, result, name, next, same))
           /\ Tells(f, w, s, decision, result, name, next)
<1> DEFINE unchanged == s.digest = Digest(f, decision)
           Say(result, name, next, same) == Said(f, decision, result, name, next, same)
           recheck == Say("RECHECK_LATER", decision, NextCheck(w, s, unchanged), unchanged)
           noChange == Say("NO_CHANGE", decision, NextCheck(w, s, TRUE), TRUE)
           soon == NextCheck(w, s, FALSE)
           notified == s.key = NotificationKey(f, "NOTIFY_OWNER", SubjectVersion(f), decision)
           resume == decision = "RESUME_WORKER"
           rules == <<
  <<decision = "NOOP_COMPLETE" \/ f.packet.status = "COMPLETE", Say("CLOSE_WATCH", decision, 0, FALSE)>>,
  <<decision = "RECONCILE_AMBIGUOUS", Say("BLOCK_RECONCILIATION", decision, 0, FALSE)>>,
  <<decision = "BLOCK_HUMAN" /\ notified, noChange>>,
  <<decision = "BLOCK_HUMAN", Say("NOTIFY_OWNER", decision, 0, FALSE)>>,
  <<resume /\ w.class # "worker_progress_or_yield",
    Say("BLOCK_RECONCILIATION", "OUT_OF_SCOPE", 0, FALSE)>>,
  <<resume /\ ~ResumeAllowed(f), recheck>>,
  <<resume /\ s.decision = decision /\ unchanged, noChange>>,
  <<resume, Say("RESUME_ADMITTED_WORKER", decision, soon, FALSE)>>,
  <<decision \in WaitDecisions, recheck>>,
  <<s.decision = decision, noChange>>,
  <<TRUE, Say("WAKE_COORDINATOR", decision, soon, FALSE)>>>>
<1>1. MapDecision(f, w, s, decision) = Emit(f, w, s, FirstOf(rules))
  BY DEF MapDecision, Said
<1>2. DOMAIN rules = 1..11 /\ rules[11][1]
  OBVIOUS
<1>3. /\ rules[1][1] <=> decision = "NOOP_COMPLETE" \/ f.packet.status = "COMPLETE"
      /\ rules[5][1] <=> resume /\ w.class # "worker_progress_or_yield"
      /\ rules[6][1] <=> resume /\ ~ResumeAllowed(f)
      /\ rules[8][1] <=> resume
  OBVIOUS
<1>4. /\ rules[1][2] = Say("CLOSE_WATCH", decision, 0, FALSE)
      /\ rules[2][2] = Say("BLOCK_RECONCILIATION", decision, 0, FALSE)
      /\ rules[3][2] = noChange /\ rules[7][2] = noChange /\ rules[10][2] = noChange
      /\ rules[4][2] = Say("NOTIFY_OWNER", decision, 0, FALSE)
      /\ rules[5][2] = Say("BLOCK_RECONCILIATION", "OUT_OF_SCOPE", 0, FALSE)
      /\ rules[6][2] = recheck /\ rules[9][2] = recheck
      /\ rules[8][2] = Say("RESUME_ADMITTED_WORKER", decision, soon, FALSE)
      /\ rules[11][2] = Say("WAKE_COORDINATOR", decision, soon, FALSE)
  OBVIOUS
<1>5. unchanged \in BOOLEAN
  OBVIOUS
<1> HIDE DEF rules
<1>6. PICK i \in 1..11 :
        /\ rules[i][1] /\ \A j \in 1..(i - 1) : ~rules[j][1]
        /\ FirstOf(rules) = rules[i][2]
  <2>1. 11 \in Nat /\ 11 \in 1..11
    OBVIOUS
  <2> QED BY <1>2, <2>1, FirstRule, Zenon
<1> DEFINE Told(say) ==
      \E result, name, next, same :
        say = Say(result, name, next, same) /\ Tells(f, w, s, decision, result, name, next)
<1>7. Told(FirstOf(rules))
  <2>1. NextCheck(w, s, unchanged) \in {NextCheck(w, s, TRUE), NextCheck(w, s, FALSE)}
    BY <1>5
  <2>2. ASSUME NEW result \in {"NO_CHANGE", "NOTIFY_OWNER", "WAKE_COORDINATOR",
                               "BLOCK_RECONCILIATION", "RECHECK_LATER"},
               NEW next \in {0, NextCheck(w, s, TRUE), NextCheck(w, s, unchanged), soon}, NEW same
        PROVE  Told(Say(result, decision, next, same))
    <3>1. Tells(f, w, s, decision, result, decision, next)
      BY <2>1 DEF Tells
    <3> QED BY <3>1
  <2>3. CASE i = 1
    <3>1. Tells(f, w, s, decision, "CLOSE_WATCH", decision, 0)
      BY <1>3, <1>6, <2>3 DEF Tells
    <3>2. FirstOf(rules) = Say("CLOSE_WATCH", decision, 0, FALSE)
      BY <1>4, <1>6, <2>3
    <3> QED BY <3>1, <3>2
  <2>4. CASE i = 5
    <3>1. Tells(f, w, s, decision, "BLOCK_RECONCILIATION", "OUT_OF_SCOPE", 0)
      BY <1>3, <1>6, <2>4 DEF Tells
    <3>2. FirstOf(rules) = Say("BLOCK_RECONCILIATION", "OUT_OF_SCOPE", 0, FALSE)
      BY <1>4, <1>6, <2>4
    <3> QED BY <3>1, <3>2
  <2>5. CASE i = 8
    <3>1. rules[8][1] /\ ~rules[5][1] /\ ~rules[6][1]
      BY <1>6, <2>5
    <3>2. Tells(f, w, s, decision, "RESUME_ADMITTED_WORKER", decision, soon)
      BY <1>3, <3>1 DEF Tells
    <3>3. FirstOf(rules) = Say("RESUME_ADMITTED_WORKER", decision, soon, FALSE)
      BY <1>4, <1>6, <2>5
    <3> QED BY <3>2, <3>3
  <2>6. CASE i \in {2, 3, 4, 6, 7, 9, 10, 11}
    <3> HIDE DEF Told, Say
    <3>1. FirstOf(rules) \in {Say("BLOCK_RECONCILIATION", decision, 0, FALSE), noChange, recheck,
                              Say("NOTIFY_OWNER", decision, 0, FALSE),
                              Say("WAKE_COORDINATOR", decision, soon, FALSE)}
      BY <1>4, <1>6, <2>6
    <3> QED BY <2>2, <3>1, Zenon
  <2> QED BY <2>3, <2>4, <2>5, <2>6
<1> HIDE DEF rules
<1> QED BY <1>1, <1>7

(***************************************************************************)
(* What an evaluation may answer                                           *)
(***************************************************************************)
\* The planner and the rules of MapDecision choose what to say; the key and the
\* state follow from that alone.
LEMMA EvaluateForms ==
  ASSUME NEW f, NEW w, NEW s
  PROVE  \/ Evaluate(f, w, s) \in {Preserved("CLOSE_WATCH", s), Preserved("NO_CHANGE", s),
                                   CloseStale(f, w, s)}
         \/ \E decision : Evaluate(f, w, s) = MapDecision(f, w, s, decision)
  BY EvaluateRules, Zenon

LEMMA MapEmits ==
  ASSUME NEW f, NEW w, NEW s, NEW decision
  PROVE  \E say : MapDecision(f, w, s, decision) = Emit(f, w, s, say)
  BY MapSays, Zenon

\* A typed result is told under the identity of what was observed; any other answer
\* leaves a typed key in the state only where there was one.
LEMMA EvaluateAnswer ==
  ASSUME NEW f, NEW w, NEW s, NEW a, a = Evaluate(f, w, s)
  PROVE  /\ a.result \in TypedResults =>
              /\ a.state.rev = f.packet.rev /\ a.state.subject = SubjectVersion(f)
              /\ a.key = <<f.packet.rev, a.result, a.decision, SubjectVersion(f)>>
              /\ a.state.key = a.key
         /\ a.result \notin TypedResults =>
              \/ a.state.key = s.key
              \/ a.state.key # <<>> /\ a.state.key[2] \notin TypedResults
<1>1. CASE a = Preserved("CLOSE_WATCH", s) \/ a = Preserved("NO_CHANGE", s)
  BY <1>1 DEF Preserved, TypedResults
<1>2. CASE a = CloseStale(f, w, s)
  <2>1. PICK r, x, say, key :
          /\ key = NotificationKey(f, "CLOSE_WATCH", x, "STALE_WATCH")
          /\ a = [result |-> "CLOSE_WATCH", decision |-> "STALE_WATCH", key |-> key,
                  state |-> [Persist(f, w, s, say, key) EXCEPT !.rev = r, !.subject = x]]
    BY <1>2 DEF CloseStale
  <2>2. a.result = "CLOSE_WATCH" /\ a.state.key = NotificationKey(f, "CLOSE_WATCH", x, "STALE_WATCH")
    <3>1. \E sb, dg, dc, tr, ob, fl, nx, tm : Persist(f, w, s, say, key) =
            [rev |-> f.packet.rev, subject |-> sb, digest |-> dg, decision |-> dc, key |-> key,
             transition |-> tr, observed |-> ob, failures |-> fl, next |-> nx, terminal |-> tm]
      BY DEF Persist
    <3>2. [Persist(f, w, s, say, key) EXCEPT !.rev = r, !.subject = x].key = key
      BY <3>1
    <3>3. a.state = [Persist(f, w, s, say, key) EXCEPT !.rev = r, !.subject = x]
      BY <2>1
    <3>4. a.result = "CLOSE_WATCH"
      BY <2>1
    <3> QED BY <2>1, <3>2, <3>3, <3>4
  <2>3. a.state.key # <<>> /\ a.state.key[2] = "CLOSE_WATCH"
    BY <2>2 DEF NotificationKey
  <2> QED BY <2>2, <2>3 DEF TypedResults
<1>3. ASSUME NEW say, a = Emit(f, w, s, say)
      PROVE  /\ a.result \in TypedResults =>
                  /\ a.state.rev = f.packet.rev /\ a.state.subject = SubjectVersion(f)
                  /\ a.key = <<f.packet.rev, a.result, a.decision, SubjectVersion(f)>>
                  /\ a.state.key = a.key
             /\ a.result \notin TypedResults =>
                  \/ a.state.key = s.key
                  \/ a.state.key # <<>> /\ a.state.key[2] \notin TypedResults
  <2>1. /\ a.result = say.result /\ a.decision = say.decision
        /\ a.state.rev = f.packet.rev /\ a.state.subject = SubjectVersion(f)
        /\ a.state.key = a.key
        /\ a.key = IF say.result = "NO_CHANGE" /\ s.key # <<>> THEN s.key
                   ELSE <<f.packet.rev, say.result, say.decision, SubjectVersion(f)>>
    BY <1>3 DEF Emit, Persist, NotificationKey
  <2>2. CASE say.result = "NO_CHANGE"
    <3>1. a.result \notin TypedResults
      BY <2>1, <2>2 DEF TypedResults
    <3>2. CASE s.key # <<>>
      BY <2>1, <2>2, <3>1, <3>2
    <3>3. CASE s.key = <<>>
      <4>1. a.state.key = <<f.packet.rev, "NO_CHANGE", say.decision, SubjectVersion(f)>>
        BY <2>1, <2>2, <3>3
      <4> QED BY <3>1, <4>1 DEF TypedResults
    <3> QED BY <3>2, <3>3
  <2>3. CASE say.result # "NO_CHANGE"
    <3>1. a.key = <<f.packet.rev, a.result, a.decision, SubjectVersion(f)>>
      BY <2>1, <2>3
    <3>2. a.state.key[2] = a.result /\ a.state.key # <<>>
      BY <2>1, <3>1
    <3> QED BY <2>1, <3>1, <3>2
  <2> QED BY <2>2, <2>3
<1> QED BY <1>1, <1>2, <1>3, EvaluateForms, MapEmits

(***************************************************************************)
(* What the planner sees and what opens a gate                             *)
(***************************************************************************)
\* The planner's view differs from the facts in the retries and in a paused
\* packet whose pull request is out.
LEMMA ViewFields ==
  ASSUME NEW f \in Facts, NEW w, NEW s
  PROVE  LET v == PlannerView(f, w, s)
         IN  /\ v.worker = f.worker /\ v.git = f.git /\ v.resource = f.resource
             /\ v.admission = f.admission /\ v.mutation = f.mutation /\ v.failure = f.failure
             /\ v.publication = f.publication /\ v.pr = f.pr /\ v.ci = f.ci /\ v.review = f.review
             /\ v.gates = f.gates /\ v.packet.rev = f.packet.rev /\ v.packet.risk = f.packet.risk
             /\ v.wait.budget = f.wait.budget
             /\ v.wait.count = IF f.failure.class = "TRANSIENT" /\ s.failures > f.wait.count
                               THEN s.failures ELSE f.wait.count
             /\ \/ v.packet.status = f.packet.status
                \/ /\ f.packet.status = "PAUSED" /\ f.pr.exists
                   /\ w.class \in {"exact_head_ci", "review_state"}
<1>1. f = [s1 \in Sections \cup {"packet"} |-> f[s1]] /\ f.packet \in Packet /\ f.wait \in Wait
  BY DEF Facts, Sections
<1> DEFINE b == BindTransientRetry(f, s)
<1>2. /\ b.worker = f.worker /\ b.git = f.git /\ b.resource = f.resource
      /\ b.admission = f.admission /\ b.mutation = f.mutation /\ b.failure = f.failure
      /\ b.publication = f.publication /\ b.pr = f.pr /\ b.ci = f.ci /\ b.review = f.review
      /\ b.gates = f.gates /\ b.packet = f.packet /\ b.wait.budget = f.wait.budget
      /\ b.wait.count = IF f.failure.class = "TRANSIENT" /\ s.failures > f.wait.count
                        THEN s.failures ELSE f.wait.count
      /\ b = [s1 \in Sections \cup {"packet"} |-> b[s1]]
  BY <1>1 DEF BindTransientRetry, Sections, Wait
<1> HIDE DEF b
<1>3. PlannerView(f, w, s) = b \/ /\ PlannerView(f, w, s) = [b EXCEPT !.packet.status = "ACTIVE"]
                                  /\ f.packet.status = "PAUSED" /\ f.pr.exists
                                  /\ w.class \in {"exact_head_ci", "review_state"}
  BY DEF PlannerView, b
<1> QED BY <1>1, <1>2, <1>3 DEF Sections, Packet

\* Nothing but an open packet without doubt, strangers or need opens a gate.
Acts == {"RESUME_WORKER", "ADMIT_IMPLEMENTATION", "AUTHORIZE_PUBLICATION", "MERGE_READY"}
LEMMA PlanOpens ==
  ASSUME NEW v, Plan(v) \in Acts
  PROVE  /\ v.packet.status \notin {"COMPLETE", "PAUSED", "BLOCKED"}
         /\ ~v.mutation.ambiguous /\ v.failure.class # "AMBIGUOUS_MUTATION"
         /\ ~StaleWorker(v) /\ ~ResourceBlocked(v)
         /\ \/ v.pr.exists /\ Plan(v) = PRPipeline(v)
            \/ ~v.pr.exists /\ Plan(v) = ImplementationPath(v)
  BY PlanRules DEF Acts, TransientDecision

LEMMA PRMerges ==
  ASSUME NEW v, PRPipeline(v) \in Acts
  PROVE  /\ PRPipeline(v) = "MERGE_READY"
         /\ v.pr.state = "OPEN" /\ ExactTree(v) /\ v.ci.state = "PASS" /\ CIExact(v)
         /\ ReviewClear(v) /\ v.git.dirty = "NO" /\ v.git.unpushed = "NO"
         /\ v.pr.mergeable = "YES" /\ (v.packet.risk = "HIGH" => Audited(v))
  BY PRRules DEF Acts

LEMMA PathOpens ==
  ASSUME NEW v
  PROVE  /\ ImplementationPath(v) # "MERGE_READY"
         /\ ImplementationPath(v) = "ADMIT_IMPLEMENTATION" =>
              /\ ~Implementing(v) /\ ~v.git.yielded /\ v.git.dirty = "NO"
              /\ v.admission = "ALLOW" /\ v.resource \in {"PASS", "WARN"}
  BY PathRules, AuditRules

LEMMA AnswerIsEarned ==
  ASSUME NEW f \in Facts, NEW w, NEW s
  PROVE  LET answer == Evaluate(f, w, s)
             wakesFor(decision) == answer.result = "WAKE_COORDINATOR" /\ answer.decision = decision
         IN  /\ answer.result = "RESUME_ADMITTED_WORKER" =>
                  Good(f) /\ f.packet.status = "ACTIVE" /\ ResumeAllowed(f)
             /\ wakesFor("MERGE_READY") =>
                  /\ Good(f) /\ Mergeable(f)
                  /\ f.packet.status = "PAUSED" => w.class \in {"exact_head_ci", "review_state"}
             /\ wakesFor("ADMIT_IMPLEMENTATION") =>
                  /\ Good(f) /\ f.packet.status = "ACTIVE" /\ ~ActiveWorker(f)
                  /\ f.git.dirty = "NO" /\ f.admission = "ALLOW" /\ f.resource \in {"PASS", "WARN"}
<1> DEFINE answer == Evaluate(f, w, s)
           v == PlannerView(f, w, s)
           planned == answer = MapDecision(f, w, s, Plan(v))
           doubted == answer = MapDecision(f, w, s, "RECONCILE_AMBIGUOUS")
<1>1. planned \/ doubted \/ answer.result \in {"CLOSE_WATCH", "NO_CHANGE"}
  BY EvaluateRules DEF Preserved, CloseStale
<1>2. ASSUME NEW decision, answer = MapDecision(f, w, s, decision)
      PROVE  /\ answer.result = "RESUME_ADMITTED_WORKER" =>
                  /\ decision = "RESUME_WORKER" /\ w.class = "worker_progress_or_yield"
                  /\ ResumeAllowed(f)
             /\ answer.result = "WAKE_COORDINATOR" => answer.decision = decision
  <2> HIDE DEF answer
  <2>1. PICK result, name, next, same :
          /\ answer = Emit(f, w, s, Said(f, decision, result, name, next, same))
          /\ Tells(f, w, s, decision, result, name, next)
    BY <1>2, MapSays, Zenon
  <2>2. answer.result = result /\ answer.decision = name
    BY <2>1 DEF Emit, Said
  <2> QED BY <2>1, <2>2 DEF Tells
<1> HIDE DEF answer
<1>3. CASE planned /\ Plan(v) \in Acts
  <2>1. /\ v.packet.status \notin {"COMPLETE", "PAUSED", "BLOCKED"}
        /\ ~v.mutation.ambiguous /\ ~StaleWorker(v) /\ ~ResourceBlocked(v)
        /\ \/ v.pr.exists /\ Plan(v) = PRPipeline(v)
           \/ ~v.pr.exists /\ Plan(v) = ImplementationPath(v)
    BY <1>3, PlanOpens
  <2>2. /\ v.worker = f.worker /\ v.git = f.git /\ v.resource = f.resource
        /\ v.admission = f.admission /\ v.mutation = f.mutation
        /\ v.publication = f.publication /\ v.pr = f.pr /\ v.ci = f.ci /\ v.review = f.review
        /\ v.packet.rev = f.packet.rev /\ v.packet.risk = f.packet.risk
        /\ \/ v.packet.status = f.packet.status
           \/ /\ f.packet.status = "PAUSED" /\ f.pr.exists
              /\ w.class \in {"exact_head_ci", "review_state"}
    BY ViewFields
  <2> HIDE DEF v
  <2>3. f.packet.status \in PacketStatuses
    BY DEF Facts, Packet
  <2>4. Good(f)
    BY <2>1, <2>2, <2>3 DEF Good, StaleWorker, PacketStatuses
  <2>5. ASSUME Plan(v) = "MERGE_READY"
        PROVE  /\ Mergeable(f)
               /\ f.packet.status = "PAUSED" => w.class \in {"exact_head_ci", "review_state"}
    <3>1. PRPipeline(v) = "MERGE_READY"
      BY <2>1, <2>5, PathOpens
    <3>2. /\ v.pr.state = "OPEN" /\ ExactTree(v) /\ v.ci.state = "PASS" /\ CIExact(v)
          /\ ReviewClear(v) /\ v.git.dirty = "NO" /\ v.git.unpushed = "NO"
          /\ v.pr.mergeable = "YES" /\ (v.packet.risk = "HIGH" => Audited(v))
      BY <3>1, PRMerges DEF Acts
    <3>3. {f.git.head, f.ci.head, f.review.head} = {f.pr.head} /\ f.review.state = "CLEAR"
      BY <2>2, <3>2 DEF ExactTree, CIExact, ReviewClear
    <3>4. Mergeable(f)
      BY <2>1, <2>2, <3>2, <3>3 DEF Mergeable, Audited, ResourceBlocked
    <3> QED BY <2>1, <2>2, <3>4
  <2>6. ASSUME Plan(v) = "ADMIT_IMPLEMENTATION"
        PROVE  /\ f.packet.status = "ACTIVE" /\ ~ActiveWorker(f)
               /\ f.git.dirty = "NO" /\ f.admission = "ALLOW" /\ f.resource \in {"PASS", "WARN"}
    <3>1. ~v.pr.exists /\ ImplementationPath(v) = "ADMIT_IMPLEMENTATION"
      BY <2>1, <2>6, PRMerges DEF Acts
    <3>2. /\ ~Implementing(v) /\ ~v.git.yielded /\ v.git.dirty = "NO"
          /\ v.admission = "ALLOW" /\ v.resource \in {"PASS", "WARN"}
      BY <3>1, PathOpens
    <3> QED BY <2>1, <2>2, <2>3, <3>1, <3>2 DEF Implementing, ActiveWorker, PacketStatuses
  <2>7. answer.result = "RESUME_ADMITTED_WORKER" => f.packet.status = "ACTIVE" /\ ResumeAllowed(f)
    BY <1>2, <1>3, <2>1, <2>2, <2>3 DEF PacketStatuses
  <2>8. answer.result = "WAKE_COORDINATOR" => answer.decision = Plan(v)
    BY <1>2, <1>3
  <2> QED BY <2>4, <2>5, <2>6, <2>7, <2>8 DEF answer
<1>4. CASE planned /\ Plan(v) \notin Acts
  <2> QED BY <1>2, <1>4 DEF Acts, answer
<1>5. CASE doubted
  <2> QED BY <1>2, <1>5 DEF answer
<1>6. CASE answer.result \in {"CLOSE_WATCH", "NO_CHANGE"}
  BY <1>6 DEF answer
<1> QED BY <1>1, <1>3, <1>4, <1>5, <1>6

(***************************************************************************)
(* What is not known opens no gate                                         *)
(***************************************************************************)
LEMMA WithoutFields ==
  ASSUME NEW f \in Facts, NEW s \in Sections
  PROVE  \A r \in Sections \cup {"packet"} :
           Without(f, s)[r] = IF r = s THEN Missing[r] ELSE f[r]
<1>1. DOMAIN f = Sections \cup {"packet"}
  BY DEF Facts, Sections
<1> DEFINE payload == [r \in (DOMAIN f) \ {s} |-> f[r]]
<1>2. DOMAIN payload = (Sections \cup {"packet"}) \ {s}
  BY <1>1
<1>3. \A r \in DOMAIN payload : payload[r] = f[r]
  OBVIOUS
<1> HIDE DEF payload
<1> QED BY <1>2, <1>3 DEF Without, NormalizeFacts, payload, Sections

\* Plans for an act come through every rule before the pull request.
LEMMA SamePath ==
  ASSUME NEW f, NEW g, Plan(g) \in Acts,
         /\ g.packet = f.packet /\ g.worker = f.worker /\ g.resource = f.resource
         /\ g.admission = f.admission /\ g.mutation = f.mutation /\ g.failure = f.failure
         /\ g.pr = f.pr /\ g.wait = f.wait
  PROVE  Plan(f) = IF f.pr.exists THEN PRPipeline(f) ELSE ImplementationPath(f)
<1>1. (StaleWorker(g) <=> StaleWorker(f)) /\ (ResourceBlocked(g) <=> ResourceBlocked(f))
  BY DEF StaleWorker, ResourceBlocked
<1>2. TransientDecision(g) \notin Acts
  BY DEF TransientDecision, Acts
<1> QED BY <1>1, <1>2, PlanRules DEF Acts

LEMMA GateStaysShut ==
  ASSUME NEW f \in Facts, NEW s \in {"git", "publication", "ci", "review"},
         Plan(Without(f, s)) \in GateDecisions
  PROVE  Plan(Without(f, s)) = Plan(f)
<1> DEFINE g == Without(f, s)
<1>1. /\ g.packet = f.packet /\ g.worker = f.worker /\ g.resource = f.resource
      /\ g.admission = f.admission /\ g.mutation = f.mutation /\ g.failure = f.failure
      /\ g.pr = f.pr /\ g.wait = f.wait /\ g.gates = f.gates
      /\ g.git = IF s = "git" THEN Missing.git ELSE f.git
      /\ g.publication = IF s = "publication" THEN Missing.publication ELSE f.publication
      /\ g.ci = IF s = "ci" THEN Missing.ci ELSE f.ci
      /\ g.review = IF s = "review" THEN Missing.review ELSE f.review
  BY WithoutFields DEF Sections
<1>2. /\ Missing.git.head = "UNKNOWN" /\ Missing.git.dirty = "UNKNOWN" /\ ~Missing.git.yielded
      /\ Missing.publication.audit = "UNKNOWN"
      /\ Missing.ci.state = "UNKNOWN" /\ Missing.review.state = "UNKNOWN"
  BY DEF Missing
<1>3. Plan(g) \in GateDecisions
  OBVIOUS
<1> HIDE DEF g
<1>4. Plan(g) \in Acts
  BY <1>3 DEF GateDecisions, Acts
<1>5. Plan(f) = IF f.pr.exists THEN PRPipeline(f) ELSE ImplementationPath(f)
  BY <1>1, <1>4, SamePath
<1>6. CASE f.pr.exists
  <2>1. Plan(g) = PRPipeline(g) /\ PRPipeline(g) \in Acts
    BY <1>1, <1>4, <1>6, PlanOpens
  <2>2. /\ PRPipeline(g) = "MERGE_READY"
        /\ g.pr.state = "OPEN" /\ ExactTree(g) /\ g.ci.state = "PASS" /\ CIExact(g)
        /\ ReviewClear(g) /\ g.git.dirty = "NO" /\ g.git.unpushed = "NO"
        /\ g.pr.mergeable = "YES" /\ (g.packet.risk = "HIGH" => Audited(g))
    BY <2>1, PRMerges
  <2>3. g.git.dirty # "UNKNOWN" /\ g.ci.state # "UNKNOWN" /\ g.review.state # "UNKNOWN"
    BY <2>2 DEF ReviewClear
  <2>4. s = "publication" /\ g.publication.audit = "UNKNOWN"
    BY <1>1, <1>2, <2>3
  <2>5. g.git = f.git /\ g.ci = f.ci /\ g.review = f.review /\ g.packet.risk # "HIGH"
    BY <1>1, <2>2, <2>4 DEF Audited
  <2>6. /\ ExactTree(f) /\ CIExact(f) /\ ReviewClear(f) /\ f.packet.risk # "HIGH"
        /\ f.pr.state = "OPEN" /\ f.ci.state = "PASS" /\ f.git.dirty = "NO"
        /\ f.git.unpushed = "NO" /\ f.pr.mergeable = "YES"
    BY <1>1, <2>2, <2>5 DEF ExactTree, CIExact, ReviewClear
  <2>7. (f.gates = "PENDING") <=> (g.gates = "PENDING")
    BY <1>1
  <2>8. g.gates # "PENDING"
    BY <2>2, PRRules
  <2>9. PRPipeline(f) = "MERGE_READY"
    BY <2>6, <2>7, <2>8, PRRules
  <2> QED BY <1>5, <1>6, <2>1, <2>2, <2>9 DEF g
<1>7. CASE ~f.pr.exists
  <2>1. Plan(g) = ImplementationPath(g)
    BY <1>1, <1>4, <1>7, PlanOpens
  <2>2. s # "git"
    BY <1>1, <1>2, <1>3, <2>1, PathRules DEF GateDecisions, Implementing
  <2>3. g.git = f.git /\ (Implementing(g) <=> Implementing(f))
    BY <1>1, <2>2 DEF Implementing, ActiveWorker
  <2>4. CASE s = "publication"
    <3>1. AuditOrAuthorize(g) = "AUDIT_DIRTY_TREE"
      <4>1. g.publication.audit = "UNKNOWN"
        BY <1>1, <1>2, <2>4
      <4>2. ~Audited(g)
        BY <4>1 DEF Audited
      <4> QED BY <4>1, <4>2, AuditRules
    <3> QED BY <1>1, <1>3, <1>5, <1>7, <2>1, <2>3, <3>1, PathRules DEF GateDecisions, g
  <2>5. CASE s # "publication"
    <3>1. AuditOrAuthorize(g) = AuditOrAuthorize(f)
      BY <1>1, <2>5, AuditRules DEF Audited
    <3> QED BY <1>1, <1>5, <1>7, <2>1, <2>3, <3>1, PathRules DEF g
  <2> QED BY <2>4, <2>5
<1> QED BY <1>6, <1>7

(***************************************************************************)
(* A transient failure that has used up its retries                        *)
(***************************************************************************)
\* Facts that show only a transient failure are planned by the retries the watch
\* has counted.
LEMMA TransientPlan ==
  ASSUME NEW f \in Facts, NEW w, NEW s, OnlyTransient(f), s.failures \in Nat,
         s.failures >= f.wait.budget
  PROVE  Plan(PlannerView(f, w, s)) = "BLOCK_HUMAN"
<1> DEFINE v == PlannerView(f, w, s)
<1>1. /\ v.worker = f.worker /\ v.resource = f.resource /\ v.admission = f.admission
      /\ v.mutation = f.mutation /\ v.failure = f.failure /\ v.packet.rev = f.packet.rev
      /\ v.wait.budget = f.wait.budget
      /\ v.wait.count = IF f.failure.class = "TRANSIENT" /\ s.failures > f.wait.count
                        THEN s.failures ELSE f.wait.count
      /\ v.packet.status = f.packet.status \/ f.packet.status = "PAUSED"
  BY ViewFields
<1> HIDE DEF v
<1>2. f.wait.budget \in Nat /\ f.wait.count \in Nat
  BY PlannerAssumption DEF Facts, Wait
<1>3. f.failure.identical \in Nat
  BY PlannerAssumption DEF Facts, Failure
<1>4. ~(v.wait.count < v.wait.budget)
  BY <1>1, <1>2 DEF OnlyTransient
<1>5. ~StaleWorker(v) /\ ~ResourceBlocked(v)
  BY <1>1 DEF OnlyTransient, StaleWorker, ResourceBlocked
<1>6. TransientDecision(v) = "BLOCK_HUMAN"
  BY <1>4 DEF TransientDecision
<1> QED BY <1>1, <1>3, <1>5, <1>6, PlanRules DEF OnlyTransient, v

(***************************************************************************)
(* One watch over time                                                     *)
(***************************************************************************)
LEMMA SubjectType ==
  ASSUME NEW f \in Facts PROVE SubjectVersion(f) \in Heads \cup {"NONE"}
<1>1. f.pr \in PR /\ f.ci \in CI /\ f.git \in Git
  BY DEF Facts
<1>2. f.pr.head \in HeadOrUnknown /\ f.ci.head \in HeadOrUnknown /\ f.git.head \in HeadOrUnknown
  <2>1. f.pr.head \in HeadOrUnknown
    <3> DEFINE none == [exists |-> FALSE, state |-> "NONE", head |-> "UNKNOWN",
                        mergeable |-> "UNKNOWN"]
               some == [exists: {TRUE}, state: {"OPEN", "MERGED", "CLOSED"},
                        head: HeadOrUnknown, mergeable: Tri]
    <3>1. f.pr = none \/ f.pr \in some
      BY <1>1 DEF PR
    <3>2. none.head = "UNKNOWN" /\ \A pr \in some : pr.head \in HeadOrUnknown
      OBVIOUS
    <3> HIDE DEF none, some
    <3> QED BY <3>1, <3>2 DEF HeadOrUnknown
  <2>2. f.ci.head \in HeadOrUnknown
    BY <1>1 DEF CI
  <2>3. f.git.head \in HeadOrUnknown
    BY <1>1 DEF Git
  <2> QED BY <2>1, <2>2, <2>3
<1> QED BY <1>2, SubjectRules DEF HeadOrUnknown

LEMMA PlanType ==
  ASSUME NEW v PROVE Plan(v) \in Decisions
<1>1. AuditOrAuthorize(v) \in Decisions
  BY AuditRules DEF Decisions, WakeDecisions
<1>2. PRPipeline(v) \in Decisions
  BY PRRules DEF Decisions, WakeDecisions, WaitDecisions
<1>3. ImplementationPath(v) \in Decisions
  BY <1>1, PathRules DEF Decisions, WakeDecisions, WaitDecisions
<1>4. TransientDecision(v) \in Decisions
  BY DEF TransientDecision, Decisions, WaitDecisions
<1>5. {"NOOP_COMPLETE", "NOOP_PAUSED", "BLOCK_HUMAN", "RECONCILE_AMBIGUOUS", "STALE_WORKER",
       "REPLAN_SEMANTIC_FAILURE", "YIELD_RESOURCE", "WAIT_EXTERNAL"} \subseteq Decisions
  BY DEF Decisions, WakeDecisions, WaitDecisions
<1> QED BY <1>2, <1>3, <1>4, <1>5, PlanRules

\* A state that a watch may keep at time t.
Timed(s, t) ==
  /\ s.transition \in 0..t /\ s.observed \in 0..t
  /\ s.failures \in 0..MaxFailures /\ s.next \in 0..(t + MaxRecheck)
Named(s) ==
  /\ s.rev \in MaybeRevision /\ s.subject \in Heads \cup {"NONE"}
  /\ s.decision \in Decisions \cup {"", "OUT_OF_SCOPE", "STALE_WATCH"}
Whole(s) ==
  \/ s.observed = 0 /\ s.rev = 0 /\ s.digest = <<>> /\ s.decision = "" /\ s.key = <<>>
  \/ s.observed # 0 /\ s.rev # 0 /\ s.digest # <<>> /\ s.decision # "" /\ s.key # <<>>
KeptAt(s, t) == Timed(s, t) /\ Named(s) /\ Whole(s)

LEMMA LimitType == MaxFailures \in Nat /\ MaxClock \in Nat \ {0}
  BY WatchLoopAssumption

LEMMA CountType ==
  ASSUME NEW f, NEW s, NEW t, Timed(s, t), s.failures < MaxFailures
  PROVE  TransientCount(f, s) \in 0..MaxFailures
  BY LimitType DEF TransientCount, Timed

LEMMA BackoffType ==
  ASSUME NEW s, NEW unchanged, s.next \in Nat, s.transition \in Nat
  PROVE  Backoff(s, unchanged) \in 0..MaxRecheck
<1>1. BaseRecheck \in 0..MaxRecheck /\ MaxRecheck \in Nat
  BY WatchAssumption
<1> QED BY <1>1 DEF Backoff

LEMMA NextCheckType ==
  ASSUME NEW w, NEW s, NEW t \in Nat, w.at \in 0..t, s.next \in Nat, s.transition \in Nat,
         NEW unchanged
  PROVE  NextCheck(w, s, unchanged) \in 0..(t + MaxRecheck)
  BY BackoffType, WatchAssumption DEF NextCheck

\* What an evaluation keeps of an observation made at w.at.
LEMMA EmitKeeps ==
  ASSUME NEW t \in Nat, NEW f \in Facts, NEW w, w.at \in 1..t, NEW s, KeptAt(s, t),
         s.failures < MaxFailures,
         NEW decision, NEW result, NEW name \in Decisions \cup {"OUT_OF_SCOPE"},
         NEW next \in 0..(t + MaxRecheck), NEW same,
         NEW e, e = Emit(f, w, s, Said(f, decision, result, name, next, same))
  PROVE  /\ KeptAt(e.state, t)
         /\ e.state.decision = name /\ e.state.failures = TransientCount(f, s)
         /\ e.state.observed = w.at
<1> DEFINE say == Said(f, decision, result, name, next, same)
           key == IF say.result = "NO_CHANGE" /\ s.key # <<>> THEN s.key
                  ELSE NotificationKey(f, say.result, SubjectVersion(f), say.decision)
<1>1. key # <<>>
  BY DEF NotificationKey
<1>2. /\ say.digest = Digest(f, decision) /\ say.decision = name /\ say.next = next
  BY DEF Said
<1>3. Digest(f, decision) # <<>>
  BY DEF Digest
<1>4. e.state = Persist(f, w, s, say, key)
  BY DEF Emit
<1> HIDE DEF say, key
<1>5. /\ e.state.rev = f.packet.rev /\ e.state.subject = SubjectVersion(f)
      /\ e.state.digest = Digest(f, decision) /\ e.state.decision = name /\ e.state.key = key
      /\ e.state.transition \in {s.transition, w.at} /\ e.state.observed = w.at
      /\ e.state.failures = TransientCount(f, s) /\ e.state.next = next
  BY <1>2, <1>4 DEF Persist
<1>6. f.packet.rev \in Revisions /\ f.packet.rev # 0
  BY PlannerAssumption DEF Facts, Packet
<1>7. TransientCount(f, s) \in 0..MaxFailures
  BY CountType DEF KeptAt
<1>8. name # ""
  BY DEF Decisions, WakeDecisions, WaitDecisions
<1>9. SubjectVersion(f) \in Heads \cup {"NONE"}
  BY SubjectType
<1> HIDE DEF Decisions
<1>10. Timed(e.state, t)
  BY <1>5, <1>7 DEF KeptAt, Timed
<1>11. Named(e.state)
  BY <1>5, <1>6, <1>9 DEF Named, MaybeRevision
<1>12. Whole(e.state)
  <2>1. w.at # 0
    OBVIOUS
  <2> QED BY <1>1, <1>3, <1>5, <1>6, <1>8, <2>1 DEF Whole
<1> QED BY <1>5, <1>10, <1>11, <1>12 DEF KeptAt

LEMMA MapKeeps ==
  ASSUME NEW t \in Nat, NEW f \in Facts, NEW w, w.at \in 1..t, NEW s, KeptAt(s, t),
         s.failures < MaxFailures, NEW decision \in Decisions,
         NEW e, e = MapDecision(f, w, s, decision)
  PROVE  /\ KeptAt(e.state, t) /\ e.state.failures = TransientCount(f, s)
         /\ e.state.decision = decision \/ decision = "RESUME_WORKER"
<1>1. PICK result, name, next, same :
        /\ e = Emit(f, w, s, Said(f, decision, result, name, next, same))
        /\ Tells(f, w, s, decision, result, name, next)
  BY MapSays, Zenon
<1>2. s.next \in Nat /\ s.transition \in Nat
  BY WatchAssumption DEF KeptAt, Timed
<1>3. next \in 0..(t + MaxRecheck)
  <2>1. w.at \in 0..t /\ 0 \in 0..(t + MaxRecheck)
    BY WatchAssumption
  <2> QED BY <1>1, <1>2, <2>1, NextCheckType DEF Tells
<1>4. name \in Decisions \cup {"OUT_OF_SCOPE"}
  BY <1>1 DEF Tells
<1>5. name = decision \/ decision = "RESUME_WORKER"
  BY <1>1 DEF Tells
<1> QED BY <1>1, <1>3, <1>4, <1>5, EmitKeeps

LEMMA StaleKeeps ==
  ASSUME NEW t \in Nat, NEW f \in Facts, NEW w, w.at \in 1..t, w.rev \in MaybeRevision,
         NEW s, KeptAt(s, t), s.failures < MaxFailures, NEW e, e = CloseStale(f, w, s)
  PROVE  KeptAt(e.state, t) /\ e.state.terminal = "CLOSED"
<1> DEFINE subject == IF s.rev # 0 THEN s.subject ELSE SubjectVersion(f)
           rev == IF s.rev # 0 THEN s.rev ELSE IF w.rev # 0 THEN w.rev ELSE f.packet.rev
           key == NotificationKey(f, "CLOSE_WATCH", subject, "STALE_WATCH")
           say == [result |-> "CLOSE_WATCH", decision |-> "STALE_WATCH", digest |-> <<"STALE">>,
                   next |-> 0, unchanged |-> FALSE, terminal |-> "CLOSED"]
<1>1. e.state = [Persist(f, w, s, say, key) EXCEPT !.rev = rev, !.subject = subject]
  BY DEF CloseStale
<1>2. rev \in Revisions /\ rev # 0 /\ subject \in Heads \cup {"NONE"}
  <2>1. f.packet.rev \in Revisions
    BY DEF Facts, Packet
  <2> QED BY <2>1, SubjectType, PlannerAssumption DEF KeptAt, Named, MaybeRevision
<1>3. key # <<>> /\ <<"STALE">> # <<>>
  BY DEF NotificationKey
<1> HIDE DEF rev, subject, key
<1>4. /\ e.state.rev = rev /\ e.state.subject = subject /\ e.state.digest = <<"STALE">>
      /\ e.state.decision = "STALE_WATCH" /\ e.state.key = key /\ e.state.transition = w.at
      /\ e.state.observed = w.at /\ e.state.failures = TransientCount(f, s)
      /\ e.state.next = 0 /\ e.state.terminal = "CLOSED"
  BY <1>1 DEF Persist
<1>5. TransientCount(f, s) \in 0..MaxFailures
  BY CountType DEF KeptAt
<1> HIDE DEF Decisions
<1>6. Timed(e.state, t)
  BY <1>4, <1>5, WatchAssumption DEF Timed
<1>7. Named(e.state)
  BY <1>2, <1>4 DEF Named, MaybeRevision
<1>8. Whole(e.state)
  BY <1>2, <1>3, <1>4 DEF Whole
<1> QED BY <1>4, <1>6, <1>7, <1>8 DEF KeptAt

\* An evaluation keeps what it had, closes the watch, or keeps what the planner or
\* a doubt decided.
LEMMA EvaluateKeeps ==
  ASSUME NEW t \in Nat, NEW f \in Facts, NEW w, w.at \in 1..t, w.rev \in MaybeRevision,
         NEW s, KeptAt(s, t), s.failures < MaxFailures
  PROVE  LET kept == Evaluate(f, w, s).state
         IN  /\ KeptAt(kept, t)
             /\ \/ kept = s \/ kept.terminal = "CLOSED"
                \/ /\ kept.failures = TransientCount(f, s)
                   /\ OnlyTransient(f) /\ s.failures >= f.wait.budget =>
                        kept.decision = "BLOCK_HUMAN"
<1> DEFINE v == PlannerView(f, w, s)
<1>1. CASE Evaluate(f, w, s).state = s
  BY <1>1
<1>2. CASE Evaluate(f, w, s) = CloseStale(f, w, s)
  BY <1>2, StaleKeeps
<1>3. CASE /\ Evaluate(f, w, s) = MapDecision(f, w, s, "RECONCILE_AMBIGUOUS")
           /\ f.mutation.ambiguous \/ f.failure.class = "AMBIGUOUS_MUTATION"
  <2>1. "RECONCILE_AMBIGUOUS" \in Decisions
    BY DEF Decisions
  <2>2. ~OnlyTransient(f)
    BY <1>3 DEF OnlyTransient
  <2> QED BY <1>3, <2>1, <2>2, MapKeeps
<1>4. CASE Evaluate(f, w, s) = MapDecision(f, w, s, Plan(v))
  <2>0. s.failures \in Nat
    BY LimitType DEF KeptAt, Timed
  <2>1. OnlyTransient(f) /\ s.failures >= f.wait.budget => Plan(v) = "BLOCK_HUMAN"
    BY <2>0, TransientPlan
  <2>2. Plan(v) \in Decisions
    BY PlanType
  <2> HIDE DEF v
  <2> QED BY <1>4, <2>1, <2>2, MapKeeps
<1>5. \/ Evaluate(f, w, s).state = s \/ Evaluate(f, w, s) = CloseStale(f, w, s)
      \/ /\ Evaluate(f, w, s) = MapDecision(f, w, s, "RECONCILE_AMBIGUOUS")
         /\ f.mutation.ambiguous \/ f.failure.class = "AMBIGUOUS_MUTATION"
      \/ Evaluate(f, w, s) = MapDecision(f, w, s, Plan(v))
  BY EvaluateRules DEF Preserved
<1> QED BY <1>1, <1>2, <1>3, <1>4, <1>5

\* The environment keeps to its theme and its watch, and the observation of the
\* observer that is overtaken is of the theme and not of the future.
EnvironmentInv ==
  /\ theme \in Themes /\ watch \in Watches /\ clock \in 1..MaxClock
  /\ late = NoObservation \/ (late.at \in 1..clock /\ late.facts \in theme)
LoopInv == EnvironmentInv /\ KeptAt(state, clock) /\ TransientEscalates

LEMMA ThemeFacts ==
  ASSUME EnvironmentInv
  PROVE  /\ theme \subseteq Facts /\ theme # {} /\ watch.rev \in MaybeRevision
         /\ clock \in Nat /\ clock # 0
  BY WatchLoopAssumption DEF EnvironmentInv

LEMMA LoopInvInit == LoopInit => LoopInv
<1> SUFFICES ASSUME LoopInit PROVE LoopInv
  OBVIOUS
<1>1. EnvironmentInv
  BY LimitType DEF LoopInit, EnvironmentInv
<1>0. /\ state.failures = 0 /\ state.transition = 0 /\ state.observed = 0 /\ state.next = 0
      /\ clock = 1
  BY DEF LoopInit, NewState
<1>2. state.failures = 0 /\ ~(\E f \in theme : 0 > f.wait.budget)
  <2>1. \A f \in Facts : f.wait.budget \in Nat
    BY PlannerAssumption DEF Facts, Wait
  <2> QED BY <1>0, <1>1, <2>1, ThemeFacts
<1>3. TransientEscalates
  BY <1>1, <1>2, ThemeFacts DEF TransientEscalates
<1>4. Timed(state, clock)
  BY <1>0, LimitType, WatchAssumption DEF Timed
<1>5. Named(state)
  BY DEF LoopInit, NewState, Named, MaybeRevision
<1>6. Whole(state)
  BY DEF LoopInit, NewState, Whole
<1> QED BY <1>1, <1>3, <1>4, <1>5, <1>6 DEF LoopInv, KeptAt

LEMMA LaterKept ==
  ASSUME NEW s, NEW t \in Nat, KeptAt(s, t) PROVE KeptAt(s, t + 1)
  BY WatchAssumption DEF KeptAt, Timed

\* What is kept of an observation that has been made.
LEMMA ReenterKeeps ==
  ASSUME LoopInv, NEW o, o.at \in 1..clock, o.facts \in theme, Reenter(o)
  PROVE  KeptAt(state', clock) /\ TransientEscalates'
<1> DEFINE w == [class |-> watch.class, rev |-> watch.rev, at |-> o.at]
<1>1. /\ o.facts \in Facts /\ clock \in Nat /\ w.rev \in MaybeRevision /\ w.at \in 1..clock
      /\ KeptAt(state, clock) /\ state.failures < MaxFailures
  BY ThemeFacts DEF LoopInv, Reenter
<1>2. state' = Evaluate(o.facts, w, state).state /\ theme' = theme
  BY DEF Reenter, Answer
<1> HIDE DEF w
<1>3. /\ KeptAt(state', clock)
      /\ \/ state' = state \/ state'.terminal = "CLOSED"
         \/ /\ state'.failures = TransientCount(o.facts, state)
            /\ OnlyTransient(o.facts) /\ state.failures >= o.facts.wait.budget =>
                 state'.decision = "BLOCK_HUMAN"
  BY <1>1, <1>2, EvaluateKeeps
<1>4. CASE state' = state
  BY <1>2, <1>3, <1>4 DEF TransientEscalates, LoopInv, Closed
<1>5. CASE state'.terminal = "CLOSED"
  BY <1>3, <1>5 DEF TransientEscalates, Closed
<1>6. CASE /\ state'.failures = TransientCount(o.facts, state)
           /\ OnlyTransient(o.facts) /\ state.failures >= o.facts.wait.budget =>
                state'.decision = "BLOCK_HUMAN"
  <2>1. state.failures \in Nat /\ o.facts.wait.budget \in Nat
    <3>1. state.failures \in Nat
      BY <1>1, LimitType DEF KeptAt, Timed
    <3>2. o.facts.wait.budget \in Nat
      BY <1>1, PlannerAssumption DEF Facts, Wait
    <3> QED BY <3>1, <3>2
  <2>2. OnlyTransient(o.facts) /\ state'.failures > o.facts.wait.budget =>
          state'.decision = "BLOCK_HUMAN"
    BY <1>6, <2>1 DEF TransientCount, OnlyTransient
  <2> QED BY <1>2, <1>3, <2>2 DEF TransientEscalates
<1> QED BY <1>3, <1>4, <1>5, <1>6

LEMMA LoopInvStep == LoopInv /\ [LoopNext]_loopVars => LoopInv'
<1> SUFFICES ASSUME LoopInv, [LoopNext]_loopVars PROVE LoopInv'
  OBVIOUS
<1>0. theme' = theme /\ watch' = watch
  BY DEF LoopNext, loopVars, Tick, Observe, EvaluateNow, EvaluateLate, Reenter
<1>1. CASE Tick
  <2>1. clock' = clock + 1 /\ clock' \in 1..MaxClock /\ state' = state /\ late' = late
    BY <1>1, LimitType DEF Tick, LoopInv, EnvironmentInv
  <2>2. EnvironmentInv'
    BY <1>0, <2>1, LimitType DEF LoopInv, EnvironmentInv
  <2>3. KeptAt(state, clock + 1)
    BY LaterKept, ThemeFacts DEF LoopInv
  <2> QED BY <1>0, <2>1, <2>2, <2>3 DEF LoopInv, TransientEscalates, Closed
<1>2. CASE Observe
  <2>1. PICK f \in theme : late' = [at |-> clock, facts |-> f]
    BY <1>2 DEF Observe
  <2>2. EnvironmentInv'
    BY <1>0, <1>2, <2>1, LimitType DEF Observe, LoopInv, EnvironmentInv
  <2> QED BY <1>0, <1>2, <2>2 DEF Observe, LoopInv, TransientEscalates, Closed
<1>3. CASE EvaluateNow
  <2>1. PICK f \in theme : Reenter(Now(f))
    BY <1>3 DEF EvaluateNow
  <2>2. Now(f).at = clock /\ Now(f).facts = f
    BY DEF Now
  <2>3. Now(f).at \in 1..clock /\ clock' = clock /\ late' = late
    BY <1>3, <2>1, <2>2, ThemeFacts DEF LoopInv, Reenter, EvaluateNow
  <2>4. KeptAt(state', clock) /\ TransientEscalates'
    BY <2>1, <2>2, <2>3, ReenterKeeps
  <2> QED BY <1>0, <2>3, <2>4 DEF LoopInv, EnvironmentInv
<1>4. CASE EvaluateLate
  <2>1. late.at \in 1..clock /\ late.facts \in theme
    BY <1>4 DEF EvaluateLate, LoopInv, EnvironmentInv
  <2>2. clock' = clock /\ late' = NoObservation
    BY <1>4 DEF EvaluateLate, Reenter
  <2>3. KeptAt(state', clock) /\ TransientEscalates'
    BY <1>4, <2>1, ReenterKeeps DEF EvaluateLate
  <2> QED BY <1>0, <2>2, <2>3 DEF LoopInv, EnvironmentInv
<1>5. CASE UNCHANGED loopVars
  BY <1>5 DEF loopVars, LoopInv, EnvironmentInv, TransientEscalates, Closed
<1> QED BY <1>1, <1>2, <1>3, <1>4, <1>5 DEF LoopNext

LEMMA LoopInvariance == LoopSpec => []LoopInv
  BY LoopInvInit, LoopInvStep, PTL DEF LoopSpec

-----------------------------------------------------------------------------
\* The durable state of a watch is well formed after every evaluation: its times and
\* counters stay in bounds and its identity, digest, decision and key come together.
THEOREM LoopTypes == LoopSpec => []LoopTypeOK
<1>1. LoopInv => LoopTypeOK
  <2> SUFFICES ASSUME LoopInv PROVE LoopTypeOK
    OBVIOUS
  <2>1. Timed(state, clock) /\ Named(state) /\ Whole(state) /\ clock \in 1..MaxClock
    BY DEF LoopInv, KeptAt, EnvironmentInv
  <2>2. /\ state.transition \in 0..MaxClock /\ state.observed \in 0..MaxClock
        /\ state.failures \in 0..MaxFailures /\ state.next \in 0..(MaxClock + MaxRecheck)
    BY <2>1, LimitType, WatchAssumption DEF Timed
  <2>3. {state.rev = 0, state.digest = <<>>, state.decision = "", state.key = <<>>,
         state.observed = 0} \in {{TRUE}, {FALSE}}
    BY <2>1 DEF Whole
  <2> QED BY <2>1, <2>2, <2>3 DEF LoopTypeOK, Named
<1> QED BY <1>1, LoopInvariance, PTL

\* Whatever a watch has come through, it resumes, launches and announces a merge only
\* on facts that bear it out: no doubt and no stranger, the exact head, and an ACTIVE
\* packet, or for a merge a PAUSED one that a watch on CI or the review speaks of.
THEOREM ActsEarned == LoopSpec => []ActsAreEarned
<1>1. LoopInv => ActsAreEarned
  <2> SUFFICES ASSUME LoopInv, NEW f \in theme
               PROVE  LET answer == Answer(Now(f))
                          wakesFor(decision) ==
                            answer.result = "WAKE_COORDINATOR" /\ answer.decision = decision
                      IN  /\ answer.result = "RESUME_ADMITTED_WORKER" =>
                               Good(f) /\ f.packet.status = "ACTIVE" /\ ResumeAllowed(f)
                          /\ wakesFor("MERGE_READY") =>
                               /\ Good(f) /\ Mergeable(f)
                               /\ f.packet.status = "PAUSED" =>
                                    watch.class \in {"exact_head_ci", "review_state"}
                          /\ wakesFor("ADMIT_IMPLEMENTATION") =>
                               /\ Good(f) /\ f.packet.status = "ACTIVE" /\ ~ActiveWorker(f)
                               /\ f.git.dirty = "NO" /\ f.admission = "ALLOW"
                               /\ f.resource \in {"PASS", "WARN"}
    BY DEF ActsAreEarned
  <2>1. f \in Facts
    BY ThemeFacts DEF LoopInv
  <2>2. Answer(Now(f)) =
          Evaluate(f, [class |-> watch.class, rev |-> watch.rev, at |-> clock], state)
    BY DEF Answer, Now
  <2> QED BY <2>1, <2>2, AnswerIsEarned
<1> QED BY <1>1, LoopInvariance, PTL

\* An observation without Git, publication, CI or review never opens a gate that the
\* whole observation keeps shut.
THEOREM NoGateOnSilence == LoopSpec => []UnknownOpensNoGate
<1>1. LoopInv => UnknownOpensNoGate
  <2> SUFFICES ASSUME LoopInv, late # NoObservation,
                      NEW s \in {"git", "publication", "ci", "review"},
                      Plan(Without(late.facts, s)) \in GateDecisions
               PROVE  Plan(Without(late.facts, s)) = Plan(late.facts)
    BY DEF UnknownOpensNoGate, OpensNoGate
  <2>1. late.facts \in Facts
    BY ThemeFacts DEF LoopInv, EnvironmentInv
  <2> QED BY <2>1, GateStaysShut
<1> QED BY <1>1, LoopInvariance, PTL

\* A transient failure that outlives its retries reaches the owner, however its
\* observations are repeated or delayed.
THEOREM Escalates == LoopSpec => []TransientEscalates
<1>1. LoopInv => TransientEscalates
  BY DEF LoopInv
<1> QED BY <1>1, LoopInvariance, PTL

\* An observation that is older than the latest accepted one and of the same revision
\* and subject changes nothing, nor does any observation of a closed watch. An older
\* one of another identity is not covered: it closes the watch (_stale_identity comes
\* before _observation_is_older).
THEOREM OldNews == LoopSpec => OldNewsChangesNothing
<1>1. ASSUME LoopInv, LoopNext, Closed PROVE state' = state
  <2>1. ASSUME NEW o, Reenter(o) PROVE state' = state
    BY <1>1, <2>1, EvaluateRules DEF Reenter, Answer, Closed, Preserved
  <2> QED BY <1>1, <2>1 DEF LoopNext, Tick, Observe, EvaluateNow, EvaluateLate
<1>2. ASSUME LoopInv, EvaluateLate, LateIsOlder, SameIdentity(late.facts)
      PROVE  state' = state
  <2> DEFINE w == [class |-> watch.class, rev |-> watch.rev, at |-> late.at]
  <2>1. state' = Evaluate(late.facts, w, state).state
    BY <1>2 DEF EvaluateLate, Reenter, Answer
  <2>2. ~StaleIdentity(late.facts, w, state)
    BY <1>2 DEF SameIdentity, StaleIdentity
  <2>3. late.at \in 1..clock /\ state.observed \in Nat
    BY <1>2, ThemeFacts DEF LoopInv, EnvironmentInv, EvaluateLate, KeptAt, Timed
  <2>4. ObservationIsOlder(w, state)
    BY <1>2, <2>3, ThemeFacts DEF LoopInv, LateIsOlder, ObservationIsOlder
  <2> HIDE DEF w
  <2> QED BY <2>1, <2>2, <2>4, EvaluateRules DEF Preserved
<1>3. LoopInv /\ [LoopNext]_loopVars =>
        [Closed \/ (EvaluateLate /\ LateIsOlder /\ SameIdentity(late.facts)) => state' = state]_state
  BY <1>1, <1>2 DEF loopVars
<1> QED BY <1>3, LoopInvariance, PTL DEF LoopSpec, OldNewsChangesNothing

(***************************************************************************)
(* What an authorization grants, and what a collection names               *)
(***************************************************************************)
\* A profile that narrows a built-in one never lets through what that one does not.
LEMMA NarrowingGrantsLess ==
  ASSUME NEW a, NEW c, Loads(c), BindsSession(a, MergeProfiles(c)),
         EvaluateAction(a, MergeProfiles(c))
  PROVE  EvaluateAction(a, DefaultProfiles)
<1>1. a.profile \in DOMAIN DefaultProfiles
  BY DEF BindsSession, MergeProfiles
<1>2. CASE a.profile \in DOMAIN c
  <2>1. IsNarrowing(c[a.profile], DefaultProfiles[a.profile])
    BY <1>2 DEF Loads
  <2>2. MergeProfiles(c)[a.profile] = c[a.profile]
    BY <1>1, <1>2 DEF MergeProfiles
  <2> QED BY <2>1, <2>2 DEF EvaluateAction, IsNarrowing
<1>3. CASE a.profile \notin DOMAIN c
  <2>1. MergeProfiles(c)[a.profile] = DefaultProfiles[a.profile]
    BY <1>1, <1>3 DEF MergeProfiles
  <2> QED BY <2>1 DEF EvaluateAction
<1> QED BY <1>2, <1>3

\* The adapter lets a write through only when the gate has allowed it.
LEMMA WriteNeedsTheGate ==
  ASSUME NEW w, NEW gate, AdapterEvaluate(w, gate) = "APPLIED" PROVE gate = "ALLOW"
<1> DEFINE rules == <<
  <<w.action \notin AllowedActions, "AUTHORITY_DENIED">>,
  <<w.bound # w.authoritative, "STALE_WORKER">>,
  <<w.outcome \in {"TIMEOUT", "UNKNOWN", "AMBIGUOUS"}, "RECONCILE_AMBIGUOUS">>,
  <<w.failure = "SEMANTIC", "FAILED_SEMANTIC">>,
  <<w.resource = "BLOCK" \/ w.admission # "ALLOW", "RESOURCE_BLOCKED">>,
  <<w.prior \/ w.outcome = "APPLIED", "NO_CHANGE">>,
  <<w.failure = "TRANSIENT" /\ w.count < w.budget /\ w.outcome = "NOT_SENT", "TRANSIENT_RETRYABLE">>,
  <<w.failure = "TRANSIENT", "RECONCILE_AMBIGUOUS">>,
  <<gate = "REPLAY", "NO_CHANGE">>,
  <<gate # "ALLOW", "AUTHORITY_DENIED">>,
  <<TRUE, "APPLIED">>>>
<1>1. AdapterEvaluate(w, gate) = FirstOf(rules)
  BY DEF AdapterEvaluate
<1>2. DOMAIN rules = 1..11 /\ rules[11][1]
  OBVIOUS
<1>3. /\ rules[1][2] # "APPLIED" /\ rules[2][2] # "APPLIED" /\ rules[3][2] # "APPLIED"
      /\ rules[4][2] # "APPLIED" /\ rules[5][2] # "APPLIED" /\ rules[6][2] # "APPLIED"
      /\ rules[7][2] # "APPLIED" /\ rules[8][2] # "APPLIED" /\ rules[9][2] # "APPLIED"
      /\ rules[10][2] # "APPLIED"
  OBVIOUS
<1>8. gate # "ALLOW" => rules[10][1]
  OBVIOUS
<1> HIDE DEF rules
<1>4. \E i \in 1..11 : /\ \A j \in 1..(i - 1) : ~rules[j][1]
                       /\ FirstOf(rules) = rules[i][2]
  <2>1. 11 \in Nat /\ 11 \in 1..11
    OBVIOUS
  <2> QED BY <1>2, <2>1, FirstRule, Zenon
<1>5. PICK i \in 1..11 : (\A j \in 1..(i - 1) : ~rules[j][1]) /\ FirstOf(rules) = rules[i][2]
  BY <1>4
<1>6. i = 11
  BY <1>1, <1>3, <1>5
<1>7. ~rules[10][1]
  BY <1>5, <1>6
<1> QED BY <1>7, <1>8

\* Dispatches are used within what the built-in profiles allow.
Covered(d, e) == signed[d].effect = e /\ EvaluateAction(signed[d], DefaultProfiles)

LEMMA AllowedIsCovered ==
  ASSUME NEW p, NEW d, Allowed(p, d) PROVE Covered(d, EffectOf(p))
<1>1. AuthorizesConcreteEffect(signed[d], EffectOf(p), d \in expired, custom)
  <2> DEFINE gate == IF AuthorizesConcreteEffect(signed[d], EffectOf(p), d \in expired, custom)
                     THEN "ALLOW" ELSE "DENIED"
  <2>1. gate = "ALLOW" \/ DeliverWrite(p, gate) = "APPLIED"
    BY DEF Allowed
  <2>2. DeliverWrite(p, gate) = "APPLIED" => gate = "ALLOW"
    BY WriteNeedsTheGate DEF DeliverWrite
  <2> QED BY <2>1, <2>2
<1>2. Authorizes(signed[d], EffectOf(p), d \in expired, custom)
  BY <1>1 DEF AuthorizesConcreteEffect
<1> QED BY <1>2, NarrowingGrantsLess DEF Authorizes, Covered

LEMMA ElsewhereIsCovered ==
  ASSUME NEW d, Authorizes(signed[d], signed[d].effect, d \in expired, custom)
  PROVE  Covered(d, signed[d].effect)
  BY NarrowingGrantsLess DEF Authorizes, Covered

\* What a run reads names a watch identity: the head of the world is in the CI facts.
LEMMA ObservedIdentity ==
  ASSUME NEW f \in Observable
  PROVE  Identity(f) \in Identities /\ f.packet.rev = Identity(f)[1] /\ SubjectVersion(f) = Identity(f)[2]
<1>1. PICK w \in World : f = Collect(w)
  BY DEF Observable
<1>2. w \in Worlds
  BY WatchHostAssumption
<1>3. w.rev \in Revisions /\ w.head \in Heads
  BY <1>2 DEF Worlds
<1>4. f.packet.rev = w.rev /\ f.ci.head = w.head /\ f.pr.head \in {"UNKNOWN", w.head}
  BY <1>1 DEF Collect, NormalizeFacts, CollectAuthoritative, Sections, Missing
<1>5. SubjectVersion(f) = w.head
  <2> DEFINE rules == <<
    <<f.pr.head # "UNKNOWN", f.pr.head>>, <<f.ci.head # "UNKNOWN", f.ci.head>>,
    <<f.git.head # "UNKNOWN", f.git.head>>, <<TRUE, "NONE">>>>
  <2>1. SubjectVersion(f) = FirstOf(rules)
    BY DEF SubjectVersion
  <2>2. DOMAIN rules = 1..4 /\ rules[4][1]
    OBVIOUS
  <2>3. /\ rules[1][1] => rules[1][2] = w.head
        /\ rules[2][1] /\ rules[2][2] = w.head
    BY <1>3, <1>4, PlannerAssumption
  <2> HIDE DEF rules
  <2>4. \E i \in 1..4 : /\ rules[i][1] /\ \A j \in 1..(i - 1) : ~rules[j][1]
                        /\ FirstOf(rules) = rules[i][2]
    <3>1. 4 \in Nat /\ 4 \in 1..4
      OBVIOUS
    <3> QED BY <2>2, <3>1, FirstRule, Zenon
  <2> QED BY <2>1, <2>3, <2>4
<1> QED BY <1>3, <1>4, <1>5 DEF Identity, Identities

-----------------------------------------------------------------------------
(***************************************************************************)
(* Types, and the shape of a run's memory                                  *)
(***************************************************************************)
Delivering == {"reserve", "reserving", "send", "sending", "sent", "unsure", "doubted",
               "finalize", "finalizing", "record", "persist"}
Journals == [phase: Phases, effect: SignedEffects \cup {<<>>},
             dispatch: Dispatches \cup {""}, attempt: Nat]

Counts4 == [moves: Nat, runs: Nat, crashes: Nat, attempts: Nat]
IsRun(r) == r = [pc |-> r.pc, seen |-> r.seen, answer |-> r.answer, effect |-> r.effect,
                 dispatch |-> r.dispatch, attempt |-> r.attempt]

TypeInv ==
  /\ facts \in Observable /\ signed \in [Dispatches -> Assertions] /\ expired \subseteq Dispatches
  /\ lock \in [Identities -> Hosts \cup {NoHost}]
  /\ st = [i \in Identities |-> st[i]] /\ ledger = [i \in Identities |-> ledger[i]]
  /\ journal \in [Identities -> Journals]
  /\ run = [p \in Hosts |-> run[p]] /\ \A p \in Hosts : IsRun(run[p])
  /\ log \in Seq({"sent", "reported"} \X SignedEffects)
  /\ uses \in Seq(Dispatches \X SignedEffects)
  /\ count \in Counts4
  /\ marker \in [Dispatches -> DispatchRecords(SignedEffects \X Nat)]

\* The watch identity an effect belongs to, and the notification key it settles.
IdOf(e) == <<e.rev, e.subject>>
KeyOf(e) == <<e.rev, e.result, e.decision, e.subject>>

(***************************************************************************)
(* A run and its lock                                                      *)
(***************************************************************************)
\* Past its evaluation a run has the lock of its watch, and what it is about
\* to do is what it was told under that identity.
RunOk(p) ==
  /\ run[p].pc \in {"idle", "collected"} \cup Held
  /\ run[p].pc \in {"collected", "typed", "agreed"} => run[p].seen \in Observable
  /\ run[p].pc \in Held =>
       /\ Mine(p) \in Identities /\ lock[Mine(p)] = p
       /\ Result(p) \in TypedResults
       /\ run[p].answer.key = <<Mine(p)[1], Result(p), run[p].answer.decision, Mine(p)[2]>>
       /\ run[p].answer.state.key = run[p].answer.key
  /\ run[p].pc \in {"typed", "agreed"} => run[p].seen.packet.rev = Mine(p)[1]
  /\ run[p].pc \in Delivering =>
       /\ run[p].effect \in SignedEffects /\ run[p].dispatch \in Dispatches
       /\ run[p].attempt \in Nat
       /\ IdOf(run[p].effect) = Mine(p) /\ KeyOf(run[p].effect) = run[p].answer.key
RunInv == \A p \in Hosts : RunOk(p)

(***************************************************************************)
(* The files of a watch                                                    *)
(***************************************************************************)
PhaseOf ==
  [reserve |-> "INTENT", reserving |-> "INTENT", send |-> "INTENT", sending |-> "SENDING",
   sent |-> "SENDING", unsure |-> "SENDING", doubted |-> "AMBIGUOUS", finalize |-> "RECEIPT",
   finalizing |-> "RECEIPT", record |-> "RECEIPT", persist |-> "RECEIPT"]

\* The journal of an identity is about one effect and one attempt, for good, and a
\* run that delivers is the one whose journal it is.
JournalInv ==
  /\ \A i \in Identities : journal[i].phase # "NONE" =>
       journal[i].effect \in SignedEffects /\ IdOf(journal[i].effect) = i
  /\ \A p \in Hosts : run[p].pc \in Delivering =>
       LET j == journal[Mine(p)]
       IN  j.phase = PhaseOf[run[p].pc] /\ j.effect = run[p].effect /\ j.attempt = run[p].attempt

\* The journal that an owner of a marker comes from.
Journalled(owner) ==
  /\ IdOf(owner[1]) \in Identities
  /\ journal[IdOf(owner[1])].phase # "NONE"
  /\ owner = <<journal[IdOf(owner[1])].effect, journal[IdOf(owner[1])].attempt>>

MarkerFiles ==
  \A d \in Dispatches : marker[d] \notin {Absent, Blank} => Journalled(marker[d].owner)
MarkerRuns ==
  /\ \A p \in Hosts :
       /\ run[p].pc \in {"reserving", "finalizing"} => marker[run[p].dispatch] = Blank
       /\ run[p].pc \in {"send", "sending", "sent"} =>
            marker[run[p].dispatch] = [state |-> "reserved", owner |-> Owner(p)]
       /\ run[p].pc \in {"record", "persist"} =>
            marker[run[p].dispatch] = [state |-> "consumed", owner |-> Owner(p)]
  /\ \A p, q \in Hosts :
       p # q /\ run[p].pc \in {"reserving", "finalizing"} /\ run[q].pc \in {"reserving", "finalizing"}
         => run[p].dispatch # run[q].dispatch
MarkerInv == MarkerFiles /\ MarkerRuns

(***************************************************************************)
(* What the outside has seen                                               *)
(***************************************************************************)
Used(d) == \E n \in DOMAIN uses : uses[n][1] = d

\* A dispatch that was used is marked, and not as reserved by an attempt that has
\* not sent; a run that is about to send holds an unused one.
UseFiles ==
  \A d \in Dispatches : Used(d) =>
    /\ marker[d] # Absent
    /\ marker[d].state = "reserved" => journal[IdOf(marker[d].owner[1])].phase # "INTENT"
UseRuns == \A p \in Hosts : run[p].pc \in {"reserving", "send", "sending"} => ~Used(run[p].dispatch)
UseInv == UseFiles /\ UseRuns /\ DispatchServesOnce

Sent(e) == Contract!Happened("sent", e)
Reported(e) == Contract!Happened("reported", e)

SentInv ==
  /\ \A e \in SignedEffects : Sent(e) =>
       /\ IdOf(e) \in Identities
       /\ journal[IdOf(e)].effect = e /\ journal[IdOf(e)].phase \notin {"NONE", "INTENT"}
  /\ \A i \in Identities : journal[i].phase = "RECEIPT" => Sent(journal[i].effect)
  /\ \A p \in Hosts :
       /\ run[p].pc = "sending" => ~Sent(run[p].effect)
       /\ run[p].pc = "sent" => Sent(run[p].effect)

Applied(key) == [key |-> key, outcome |-> "APPLIED"]

ReportInv ==
  /\ \A e \in SignedEffects : Reported(e) =>
       IdOf(e) \in Identities /\ Applied(KeyOf(e)) \in ledger[IdOf(e)]
  /\ \A p \in Hosts : run[p].pc \in Delivering => ~Reported(run[p].effect)

\* AppliedIsFinal, with the journal it needs; a run that has recorded its delivery is
\* about to store the watch state.
Backed(i, key) ==
  LET j == journal[i]
  IN  /\ j.phase # "NONE" /\ key = KeyOf(j.effect) /\ Sent(j.effect)
      /\ \E d \in Dispatches :
           marker[d] = [state |-> "consumed", owner |-> <<j.effect, j.attempt>>]
LedgerFiles ==
  \A i \in Identities : \A entry \in ledger[i] : entry.outcome = "APPLIED" => Backed(i, entry.key)
LedgerRuns == \A p \in Hosts : run[p].pc = "persist" => Entry(p, "APPLIED") \in ledger[Mine(p)]
LedgerInv == LedgerFiles /\ LedgerRuns

AuthorityInv ==
  /\ \A n \in DOMAIN uses : Covered(uses[n][1], uses[n][2])
  /\ \A p \in Hosts : run[p].pc \in Delivering => Covered(run[p].dispatch, run[p].effect)

IInv == /\ RunInv /\ JournalInv /\ MarkerInv /\ UseInv /\ SentInv /\ ReportInv
        /\ LedgerInv /\ NoSilentWake /\ AuthorityInv

(***************************************************************************)
(* Types                                                                   *)
(***************************************************************************)
LEMMA RunUpdate ==
  ASSUME run = [p \in Hosts |-> run[p]], \A p \in Hosts : IsRun(run[p]),
         NEW p \in Hosts, NEW r, IsRun(r), run' = [run EXCEPT ![p] = r]
  PROVE  /\ run'[p] = r /\ \A q \in Hosts \ {p} : run'[q] = run[q]
         /\ run' = [q \in Hosts |-> run'[q]] /\ \A q \in Hosts : IsRun(run'[q])
<1>1. run'[p] = r /\ (\A q \in Hosts \ {p} : run'[q] = run[q]) /\ run' = [q \in Hosts |-> run'[q]]
  OBVIOUS
<1> QED BY <1>1

\* A step that moves a run on, and leaves what it holds in memory alone.
LEMMA GoUpdate ==
  ASSUME TypeInv, NEW p \in Hosts, NEW pc, Go(p, pc)
  PROVE  /\ run'[p].pc = pc /\ run'[p].seen = run[p].seen /\ run'[p].answer = run[p].answer
         /\ run'[p].effect = run[p].effect /\ run'[p].dispatch = run[p].dispatch
         /\ run'[p].attempt = run[p].attempt
         /\ \A q \in Hosts \ {p} : run'[q] = run[q]
         /\ run' = [q \in Hosts |-> run'[q]] /\ \A q \in Hosts : IsRun(run'[q])
<1> DEFINE r == [pc |-> pc, seen |-> run[p].seen, answer |-> run[p].answer,
                 effect |-> run[p].effect, dispatch |-> run[p].dispatch,
                 attempt |-> run[p].attempt]
<1>1. IsRun(run[p]) /\ run = [q \in Hosts |-> run[q]] /\ \A q \in Hosts : IsRun(run[q])
  BY DEF TypeInv
<1>2. [run[p] EXCEPT !.pc = pc] = r
  BY <1>1 DEF IsRun
<1>3. IsRun(r)
  BY DEF IsRun
<1>4. run' = [run EXCEPT ![p] = r]
  BY <1>1, <1>2 DEF Go
<1>5. run'[p] = r /\ (\A q \in Hosts \ {p} : run'[q] = run[q])
      /\ run' = [q \in Hosts |-> run'[q]] /\ \A q \in Hosts : IsRun(run'[q])
  BY <1>1, <1>3, <1>4, RunUpdate
<1> QED BY <1>5

LEMMA FinishUpdate ==
  ASSUME TypeInv, NEW p \in Hosts, Finish(p)
  PROVE  /\ run'[p].pc = "idle" /\ \A q \in Hosts \ {p} : run'[q] = run[q]
         /\ run' = [q \in Hosts |-> run'[q]] /\ \A q \in Hosts : IsRun(run'[q])
         /\ lock' \in [Identities -> Hosts \cup {NoHost}]
         /\ \A i \in Identities : lock[i] # p => lock'[i] = lock[i]
<1>1. IsRun(Idle) /\ Idle.pc = "idle"
  BY DEF IsRun, Idle
<1>2. run' = [run EXCEPT ![p] = Idle]
  BY DEF Finish
<1>3. run'[p] = Idle /\ (\A q \in Hosts \ {p} : run'[q] = run[q])
      /\ run' = [q \in Hosts |-> run'[q]] /\ \A q \in Hosts : IsRun(run'[q])
  BY <1>1, <1>2, RunUpdate DEF TypeInv
<1>4. lock' \in [Identities -> Hosts \cup {NoHost}]
      /\ \A i \in Identities : lock[i] # p => lock'[i] = lock[i]
  BY DEF Finish, TypeInv
<1> QED BY <1>1, <1>3, <1>4

LEMMA TypeInit == Init => TypeInv /\ IInv
<1> SUFFICES ASSUME Init PROVE TypeInv /\ IInv
  OBVIOUS
<1>1. TypeInv
  <2>1. marker \in [Dispatches -> DispatchRecords(SignedEffects \X Nat)]
    BY DEF Init, InitMarkers, DispatchRecords
  <2>2. log \in Seq({"sent", "reported"} \X SignedEffects)
        /\ uses \in Seq(Dispatches \X SignedEffects)
    BY DEF Init
  <2>3. journal \in [Identities -> Journals]
    BY DEF Init, NoJournal, Journals, Phases
  <2>4. count \in Counts4
    BY DEF Init, Counts4
  <2>5. run = [p \in Hosts |-> run[p]] /\ \A p \in Hosts : IsRun(run[p])
    BY DEF Init, Idle, IsRun
  <2> QED BY <2>1, <2>2, <2>3, <2>4, <2>5 DEF Init, TypeInv
<1>2. \A p \in Hosts : run[p].pc = "idle"
  BY DEF Init, Idle
<1>3. log = <<>> /\ uses = <<>> /\ \A i \in Identities : ledger[i] = {} /\ st[i].key = <<>>
  BY DEF Init, NewState
<1>4. \A i \in Identities : journal[i].phase = "NONE"
  BY DEF Init, NoJournal
<1>5. \A d \in Dispatches : marker[d] = Absent
  BY DEF Init, InitMarkers
<1>6. \A e : ~Sent(e) /\ ~Reported(e)
  BY <1>3 DEF Sent, Reported, Contract!Happened
<1>7. \A d : ~Used(d)
  BY <1>3 DEF Used
<1>8. RunInv
  BY <1>2 DEF RunInv, RunOk, Held, Delivering
<1>9. JournalInv
  BY <1>2, <1>4 DEF JournalInv, Delivering
<1>10. MarkerInv
  BY <1>2, <1>5 DEF MarkerInv, MarkerFiles, MarkerRuns
<1>11. UseInv
  BY <1>2, <1>3, <1>7 DEF UseInv, UseFiles, UseRuns, DispatchServesOnce
<1>12. SentInv
  BY <1>2, <1>4, <1>6 DEF SentInv
<1>13. ReportInv
  BY <1>2, <1>6 DEF ReportInv, Delivering
<1>14. LedgerInv /\ NoSilentWake
  BY <1>2, <1>3 DEF LedgerInv, LedgerFiles, LedgerRuns, NoSilentWake
<1>15. AuthorityInv
  BY <1>2, <1>3 DEF AuthorityInv, Delivering
<1> QED BY <1>1, <1>8, <1>9, <1>10, <1>11, <1>12, <1>13, <1>14, <1>15 DEF IInv

\* The marker files and the journals are written with what the run holds in memory.
LEMMA OwnerType ==
  ASSUME TypeInv, RunInv, NEW p \in Hosts, run[p].pc \in Delivering
  PROVE  /\ Owner(p) \in SignedEffects \X Nat /\ run[p].dispatch \in Dispatches
         /\ \A s \in {"reserved", "consumed"} :
              [state |-> s, owner |-> Owner(p)] \in DispatchRecords(SignedEffects \X Nat)
         /\ \A phase \in Phases :
              [phase |-> phase, effect |-> run[p].effect, dispatch |-> run[p].dispatch,
               attempt |-> run[p].attempt] \in Journals
  BY DEF RunInv, RunOk, Owner, DispatchRecords, Journals

LEMMA TallyType ==
  ASSUME count \in Counts4, NEW what \in {"moves", "runs", "crashes", "attempts"}, Tally(what)
  PROVE  count' \in Counts4
<1>1. count' = [count EXCEPT ![what] = count[what] + 1]
  BY DEF Tally
<1>2. count[what] \in Nat
  BY DEF Counts4
<1>3. count[what] + 1 \in Nat
  BY <1>2
<1> DEFINE n == count[what] + 1
<1>4. count' = [count EXCEPT ![what] = n] /\ n \in Nat
  BY <1>1, <1>3
<1> HIDE DEF n
<1> QED BY <1>4 DEF Counts4

\* What a run holds in memory, written anew.
LEMMA SeenUpdate ==
  ASSUME NEW r, IsRun(r), NEW pc, NEW seen
  PROVE  [r EXCEPT !.pc = pc, !.seen = seen] =
           [pc |-> pc, seen |-> seen, answer |-> r.answer, effect |-> r.effect,
            dispatch |-> r.dispatch, attempt |-> r.attempt]
<1> DEFINE x1 == [r EXCEPT !.pc = pc]
           x2 == [x1 EXCEPT !.seen = seen]
<1>1. PICK a1, a2, a3, a4, a5, a6 :
        r = [pc |-> a1, seen |-> a2, answer |-> a3, effect |-> a4, dispatch |-> a5, attempt |-> a6]
  BY DEF IsRun
<1>2. r.seen = a2 /\ r.answer = a3 /\ r.effect = a4 /\ r.dispatch = a5 /\ r.attempt = a6
  BY <1>1
<1>3. x1 = [pc |-> pc, seen |-> a2, answer |-> a3, effect |-> a4, dispatch |-> a5, attempt |-> a6]
  BY <1>1
<1> HIDE DEF x1
<1>4. x2 = [pc |-> pc, seen |-> seen, answer |-> a3, effect |-> a4, dispatch |-> a5, attempt |-> a6]
  BY <1>3
<1> HIDE DEF x2
<1>5. x2 = [pc |-> pc, seen |-> seen, answer |-> r.answer, effect |-> r.effect,
           dispatch |-> r.dispatch, attempt |-> r.attempt]
  BY <1>2, <1>4
<1> QED BY <1>5, Zenon DEF x1, x2

LEMMA AnswerUpdate ==
  ASSUME NEW r, IsRun(r), NEW pc, NEW answer
  PROVE  [r EXCEPT !.pc = pc, !.answer = answer] =
           [pc |-> pc, seen |-> r.seen, answer |-> answer, effect |-> r.effect,
            dispatch |-> r.dispatch, attempt |-> r.attempt]
<1> DEFINE x1 == [r EXCEPT !.pc = pc]
           x2 == [x1 EXCEPT !.answer = answer]
<1>1. PICK a1, a2, a3, a4, a5, a6 :
        r = [pc |-> a1, seen |-> a2, answer |-> a3, effect |-> a4, dispatch |-> a5, attempt |-> a6]
  BY DEF IsRun
<1>2. r.seen = a2 /\ r.answer = a3 /\ r.effect = a4 /\ r.dispatch = a5 /\ r.attempt = a6
  BY <1>1
<1>3. x1 = [pc |-> pc, seen |-> a2, answer |-> a3, effect |-> a4, dispatch |-> a5, attempt |-> a6]
  BY <1>1
<1> HIDE DEF x1
<1>4. x2 = [pc |-> pc, seen |-> a2, answer |-> answer, effect |-> a4, dispatch |-> a5, attempt |-> a6]
  BY <1>3
<1> HIDE DEF x2
<1>5. x2 = [pc |-> pc, seen |-> r.seen, answer |-> answer, effect |-> r.effect,
           dispatch |-> r.dispatch, attempt |-> r.attempt]
  BY <1>2, <1>4
<1> QED BY <1>5, Zenon DEF x1, x2

Executing(r, pc, seen, e, d, n) ==
  [r EXCEPT !.pc = pc, !.effect = e, !.seen = seen, !.dispatch = d, !.attempt = n]

LEMMA EffectUpdate ==
  ASSUME NEW r, IsRun(r), NEW pc, NEW seen, NEW e, NEW d, NEW n
  PROVE  Executing(r, pc, seen, e, d, n) =
           [pc |-> pc, seen |-> seen, answer |-> r.answer, effect |-> e, dispatch |-> d,
            attempt |-> n]
<1> DEFINE x1 == [r EXCEPT !.pc = pc]
           x2 == [x1 EXCEPT !.effect = e]
           x3 == [x2 EXCEPT !.seen = seen]
           x4 == [x3 EXCEPT !.dispatch = d]
           x5 == [x4 EXCEPT !.attempt = n]
<1>1. PICK a1, a2, a3, a4, a5, a6 :
        r = [pc |-> a1, seen |-> a2, answer |-> a3, effect |-> a4, dispatch |-> a5, attempt |-> a6]
  BY DEF IsRun
<1>2. r.seen = a2 /\ r.answer = a3 /\ r.effect = a4 /\ r.dispatch = a5 /\ r.attempt = a6
  BY <1>1
<1>3. x1 = [pc |-> pc, seen |-> a2, answer |-> a3, effect |-> a4, dispatch |-> a5, attempt |-> a6]
  BY <1>1
<1> HIDE DEF x1
<1>4. x2 = [pc |-> pc, seen |-> a2, answer |-> a3, effect |-> e, dispatch |-> a5, attempt |-> a6]
  BY <1>3
<1> HIDE DEF x2
<1>5. x3 = [pc |-> pc, seen |-> seen, answer |-> a3, effect |-> e, dispatch |-> a5, attempt |-> a6]
  BY <1>4
<1> HIDE DEF x3
<1>6. x4 = [pc |-> pc, seen |-> seen, answer |-> a3, effect |-> e, dispatch |-> d, attempt |-> a6]
  BY <1>5
<1> HIDE DEF x4
<1>7. x5 = [pc |-> pc, seen |-> seen, answer |-> a3, effect |-> e, dispatch |-> d, attempt |-> n]
  BY <1>6
<1> HIDE DEF x5
<1>8. x5 = [pc |-> pc, seen |-> seen, answer |-> r.answer, effect |-> e, dispatch |-> d,
           attempt |-> n]
  BY <1>2, <1>7
<1> QED BY <1>8, Zenon DEF Executing, x1, x2, x3, x4, x5

LEMMA TypeStep == TypeInv /\ RunInv /\ [Next]_vars => TypeInv'
<1> SUFFICES ASSUME TypeInv, RunInv, [Next]_vars PROVE TypeInv'
  OBVIOUS
<1> USE DEF Outside, Seen, files
<1>0. /\ Absent \in DispatchRecords(SignedEffects \X Nat)
      /\ Blank \in DispatchRecords(SignedEffects \X Nat)
  BY DEF DispatchRecords
<1>1. ASSUME NEW p \in Hosts, Start(p) PROVE TypeInv'
  <2> DEFINE r == [pc |-> "collected", seen |-> facts, answer |-> run[p].answer,
                   effect |-> run[p].effect, dispatch |-> run[p].dispatch, attempt |-> run[p].attempt]
  <2>1. IsRun(r)
    BY DEF IsRun
  <2>2. run' = [run EXCEPT ![p] = r]
    <3>1. [run[p] EXCEPT !.pc = "collected", !.seen = facts] = r
      <4>1. IsRun(run[p])
        BY DEF TypeInv
      <4> QED BY <4>1, SeenUpdate
    <3> QED BY <1>1, <3>1 DEF Start, TypeInv
  <2> HIDE DEF r
  <2>3. run' = [q \in Hosts |-> run'[q]] /\ \A q \in Hosts : IsRun(run'[q])
    BY <2>1, <2>2, RunUpdate DEF TypeInv
  <2>4. count' \in Counts4
    BY <1>1, TallyType DEF Start, TypeInv
  <2> QED BY <1>1, <2>3, <2>4 DEF Start, TypeInv
<1>2. ASSUME NEW p \in Hosts, LockHeld(p) PROVE TypeInv'
  BY <1>2, FinishUpdate DEF LockHeld, TypeInv
<1>3. ASSUME NEW p \in Hosts, EvaluateLocked(p) PROVE TypeInv'
  <2> DEFINE i == Identity(run[p].seen)
             a == Evaluate(run[p].seen, [class |-> WatchClass, rev |-> 0, at |-> 1], st[i])
             typed == [pc |-> "typed", seen |-> run[p].seen, answer |-> a, effect |-> run[p].effect,
                       dispatch |-> run[p].dispatch, attempt |-> run[p].attempt]
  <2>1. i \in Identities
    BY <1>3, ObservedIdentity DEF EvaluateLocked, RunInv, RunOk
  <2>2. IsRun(typed) /\ IsRun(Idle)
    BY DEF IsRun, Idle
  <2>7. [run[p] EXCEPT !.pc = "typed", !.answer = a] = typed
    <3>1. IsRun(run[p])
      BY DEF TypeInv
    <3> HIDE DEF a
    <3> QED BY <3>1, AnswerUpdate
  <2>3. \/ lock' = [lock EXCEPT ![i] = p] /\ run' = [run EXCEPT ![p] = typed]
        \/ lock' = lock /\ run' = [run EXCEPT ![p] = Idle]
    BY <1>3, <2>7 DEF EvaluateLocked, TypeInv
  <2>4. st' = st \/ st' = [st EXCEPT ![i] = a.state]
    BY <1>3 DEF EvaluateLocked, Keep
  <2>5. UNCHANGED <<facts, signed, expired, ledger, journal, log, uses, count, marker>>
    BY <1>3 DEF EvaluateLocked
  <2> HIDE DEF i, a, typed
  <2>6. run' = [q \in Hosts |-> run'[q]] /\ \A q \in Hosts : IsRun(run'[q])
    BY <2>2, <2>3, RunUpdate DEF TypeInv
  <2> QED BY <2>1, <2>3, <2>4, <2>5, <2>6 DEF TypeInv
<1>4. ASSUME NEW p \in Hosts, Recollect(p) PROVE TypeInv'
  <2>1. CASE Finish(p)
    BY <1>4, <2>1, FinishUpdate DEF Recollect, TypeInv
  <2>2. CASE ~Finish(p)
    <3> DEFINE r == [pc |-> "agreed", seen |-> facts, answer |-> run[p].answer,
                     effect |-> run[p].effect, dispatch |-> run[p].dispatch,
                     attempt |-> run[p].attempt]
    <3>1. IsRun(r)
      BY DEF IsRun
    <3>2. run' = [run EXCEPT ![p] = r] /\ lock' = lock
      <4>1. [run[p] EXCEPT !.pc = "agreed", !.seen = facts] = r
        BY SeenUpdate DEF TypeInv
      <4> QED BY <1>4, <2>2, <4>1 DEF Recollect, TypeInv
    <3> HIDE DEF r
    <3>3. run' = [q \in Hosts |-> run'[q]] /\ \A q \in Hosts : IsRun(run'[q])
      BY <3>1, <3>2, RunUpdate DEF TypeInv
    <3> QED BY <1>4, <3>2, <3>3 DEF Recollect, TypeInv
  <2> QED BY <2>1, <2>2
<1>5. ASSUME NEW p \in Hosts, SettledBefore(p) PROVE TypeInv'
  <2>1. st' = [i \in Identities |-> st'[i]]
    BY <1>5 DEF SettledBefore, TypeInv
  <2> QED BY <1>5, <2>1, FinishUpdate DEF SettledBefore, TypeInv
<1>6. ASSUME NEW p \in Hosts, Denied(p) PROVE TypeInv'
  BY <1>6, FinishUpdate DEF Denied, TypeInv
<1>7. ASSUME NEW p \in Hosts, Conflicts(p) PROVE TypeInv'
  <2>1. journal' \in [Identities -> Journals]
    <3>1. Mine(p) \in Identities
      BY <1>7 DEF Conflicts, RunInv, RunOk, Held
    <3> DEFINE j == [journal[Mine(p)] EXCEPT !.phase = "AMBIGUOUS"]
    <3>2. j \in Journals
      BY <3>1 DEF TypeInv, Journals, Phases
    <3>3. journal' = journal \/ journal' = [journal EXCEPT ![Mine(p)] = j]
      BY <1>7 DEF Conflicts
    <3> HIDE DEF j
    <3> QED BY <3>2, <3>3 DEF TypeInv
  <2> QED BY <1>7, <2>1, FinishUpdate DEF Conflicts, TypeInv
<1>8. ASSUME NEW p \in Hosts, Execute(p) PROVE TypeInv'
  <2>1. PICK d \in Dispatches, n \in Nat, pc \in {"finalize", "reserve"} :
          /\ Allowed(p, d)
          /\ run' = [run EXCEPT ![p].pc = pc, ![p].effect = EffectOf(p), ![p].seen = <<>>,
                                ![p].dispatch = d, ![p].attempt = n]
          /\ \/ UNCHANGED <<journal, count>>
             \/ /\ Tally("attempts")
                /\ journal' = [journal EXCEPT ![Mine(p)] =
                     [phase |-> "INTENT", effect |-> EffectOf(p), dispatch |-> d, attempt |-> n]]
    <3>1. PICK d \in Dispatches :
            LET i == Mine(p) j == journal[i]
                resumed == Resumes(j, EffectOf(p))
                attempt == IF resumed THEN j.attempt ELSE count.attempts + 1
            IN  /\ Allowed(p, d) /\ (resumed \/ j.phase = "NONE")
                /\ run' = [run EXCEPT ![p].pc = IF j.phase = "RECEIPT" THEN "finalize" ELSE "reserve",
                                      ![p].effect = EffectOf(p), ![p].seen = <<>>,
                                      ![p].dispatch = d, ![p].attempt = attempt]
                /\ IF resumed THEN UNCHANGED <<journal, count>>
                   ELSE /\ Tally("attempts")
                        /\ journal' = [journal EXCEPT ![i] =
                             [phase |-> "INTENT", effect |-> EffectOf(p), dispatch |-> d, attempt |-> attempt]]
      BY <1>8 DEF Execute
    <3>2. Mine(p) \in Identities
      BY <1>8 DEF Execute, RunInv, RunOk, Held
    <3>3. journal[Mine(p)].attempt \in Nat /\ count.attempts + 1 \in Nat
      <4>1. journal[Mine(p)] \in Journals /\ count.attempts \in Nat
        BY <3>2 DEF TypeInv, Counts4
      <4>2. \A j \in Journals : j.attempt \in Nat
        BY DEF Journals
      <4> QED BY <4>1, <4>2
    <3> DEFINE n == IF Resumes(journal[Mine(p)], EffectOf(p)) THEN journal[Mine(p)].attempt
                    ELSE count.attempts + 1
    <3>4. n \in Nat
      BY <3>3
    <3> QED BY <3>1, <3>4
  <2>2. EffectOf(p) \in SignedEffects
    BY <2>1, AllowedIsCovered DEF Covered, TypeInv, SignedEffects
  <2> DEFINE r == [pc |-> pc, seen |-> <<>>, answer |-> run[p].answer, effect |-> EffectOf(p),
                   dispatch |-> d, attempt |-> n]
  <2>3. IsRun(r)
    BY DEF IsRun
  <2>4. run' = [run EXCEPT ![p] = r]
    <3>1. IsRun(run[p])
      BY DEF TypeInv
    <3>2. Executing(run[p], pc, <<>>, EffectOf(p), d, n) = r
      BY <3>1, EffectUpdate
    <3> QED BY <2>1, <3>2 DEF TypeInv, Executing
  <2> HIDE DEF r
  <2>5. run' = [q \in Hosts |-> run'[q]] /\ \A q \in Hosts : IsRun(run'[q])
    BY <2>3, <2>4, RunUpdate DEF TypeInv
  <2>6. journal' \in [Identities -> Journals]
    <3>1. [phase |-> "INTENT", effect |-> EffectOf(p), dispatch |-> d, attempt |-> n] \in Journals
      BY <2>1, <2>2 DEF Journals, Phases
    <3> QED BY <2>1, <3>1 DEF TypeInv
  <2>7. count' \in Counts4
    BY <2>1, TallyType DEF TypeInv
  <2> QED BY <1>8, <2>5, <2>6, <2>7 DEF Execute, TypeInv
<1>9. ASSUME NEW p \in Hosts, Reserve(p) \/ Finalize(p) PROVE TypeInv'
  <2>1. marker' \in [Dispatches -> DispatchRecords(SignedEffects \X Nat)]
    BY <1>9, <1>0 DEF Reserve, Finalize, CreateMarker, TruncateMarker, TypeInv
  <2>2. (lock' = lock /\ \E pc : Go(p, pc)) \/ Finish(p)
    BY <1>9 DEF Reserve, Finalize
  <2> QED BY <1>9, <2>1, <2>2, GoUpdate, FinishUpdate DEF Reserve, Finalize, TypeInv
<1>10. ASSUME NEW p \in Hosts, Reserved(p) \/ Finalized(p) PROVE TypeInv'
  <2>1. run[p].pc \in Delivering
    BY <1>10 DEF Reserved, Finalized, Delivering
  <2>2. marker' \in [Dispatches -> DispatchRecords(SignedEffects \X Nat)]
    <3>1. \A s \in {"reserved", "consumed"} :
            [state |-> s, owner |-> Owner(p)] \in DispatchRecords(SignedEffects \X Nat)
      BY <2>1, OwnerType
    <3>2. PICK s \in {"reserved", "consumed"} :
            marker' = [marker EXCEPT ![run[p].dispatch] = [state |-> s, owner |-> Owner(p)]]
      BY <1>10 DEF Reserved, Finalized, WriteReserved, WriteConsumed
    <3> QED BY <3>1, <3>2 DEF TypeInv
  <2> QED BY <1>10, <2>2, GoUpdate DEF Reserved, Finalized, TypeInv
<1>11. ASSUME NEW p \in Hosts, BeginSend(p) \/ Doubt(p) \/ Receive(p) PROVE TypeInv'
  <2>1. run[p].pc \in Delivering
    BY <1>11 DEF BeginSend, Doubt, Receive, Delivering
  <2>2. journal' \in [Identities -> Journals]
    <3>1. \A phase \in Phases :
            [phase |-> phase, effect |-> run[p].effect, dispatch |-> run[p].dispatch,
             attempt |-> run[p].attempt] \in Journals
      BY <2>1, OwnerType
    <3>2. PICK phase \in Phases : Commit(p, phase)
      BY <1>11 DEF BeginSend, Doubt, Receive, Phases
    <3> QED BY <3>1, <3>2 DEF Commit, TypeInv
  <2> QED BY <1>11, <2>2, GoUpdate DEF BeginSend, Doubt, Receive, TypeInv
<1>12. ASSUME NEW p \in Hosts, SendEffect(p) PROVE TypeInv'
  <2>1. run[p].effect \in SignedEffects /\ run[p].dispatch \in Dispatches
    BY <1>12 DEF SendEffect, RunInv, RunOk, Delivering
  <2>2. log' \in Seq({"sent", "reported"} \X SignedEffects)
        /\ uses' \in Seq(Dispatches \X SignedEffects)
    <3>1. <<"sent", run[p].effect>> \in {"sent", "reported"} \X SignedEffects
          /\ <<run[p].dispatch, run[p].effect>> \in Dispatches \X SignedEffects
      BY <2>1
    <3>2. \/ UNCHANGED <<log, uses>>
          \/ /\ log' = Append(log, <<"sent", run[p].effect>>)
             /\ uses' = Append(uses, <<run[p].dispatch, run[p].effect>>)
      BY <1>12 DEF SendEffect, TimedOut
    <3>3. log \in Seq({"sent", "reported"} \X SignedEffects)
          /\ uses \in Seq(Dispatches \X SignedEffects)
      BY DEF TypeInv
    <3>4. CASE UNCHANGED <<log, uses>>
      BY <3>3, <3>4
    <3>5. CASE /\ log' = Append(log, <<"sent", run[p].effect>>)
               /\ uses' = Append(uses, <<run[p].dispatch, run[p].effect>>)
      <4>1. Append(log, <<"sent", run[p].effect>>) \in Seq({"sent", "reported"} \X SignedEffects)
        BY <3>1, <3>3, AppendProperties
      <4>2. Append(uses, <<run[p].dispatch, run[p].effect>>) \in Seq(Dispatches \X SignedEffects)
        BY <3>1, <3>3, AppendProperties
      <4> QED BY <3>5, <4>1, <4>2
    <3> QED BY <3>2, <3>4, <3>5
  <2>3. \E pc : Go(p, pc)
    BY <1>12 DEF SendEffect, TimedOut
  <2> QED BY <1>12, <2>2, <2>3, GoUpdate DEF SendEffect, TypeInv
<1>13. ASSUME NEW p \in Hosts, RecordDoubt(p) \/ RecordApplied(p) PROVE TypeInv'
  <2>1. ledger' = [i \in Identities |-> ledger'[i]]
    BY <1>13 DEF RecordDoubt, RecordApplied, Remember, TypeInv
  <2> QED BY <1>13, <2>1, GoUpdate, FinishUpdate DEF RecordDoubt, RecordApplied, TypeInv
<1>14. ASSUME NEW p \in Hosts, Deliver(p) PROVE TypeInv'
  <2>1. run[p].effect \in SignedEffects
    BY <1>14 DEF Deliver, RunInv, RunOk, Delivering
  <2>2. log' \in Seq({"sent", "reported"} \X SignedEffects)
    BY <1>14, <2>1, AppendProperties DEF Deliver, TypeInv
  <2>3. st' = [i \in Identities |-> st'[i]]
    BY <1>14 DEF Deliver, TypeInv
  <2> QED BY <1>14, <2>2, <2>3, FinishUpdate DEF Deliver, TypeInv
<1>15. ASSUME NEW p \in Hosts, Crash(p) PROVE TypeInv'
  <2>1. count' \in Counts4
    BY <1>15, TallyType DEF Crash, TypeInv
  <2> QED BY <1>15, <2>1, FinishUpdate DEF Crash, TypeInv
<1>16. CASE Move \/ Expire
  <2>1. count' \in Counts4
    BY <1>16, TallyType DEF Move, Expire, TypeInv
  <2>2. facts' \in Observable /\ expired' \subseteq Dispatches
    BY <1>16 DEF Move, Expire, TypeInv
  <2> QED BY <1>16, <2>1, <2>2 DEF Move, Expire, TypeInv
<1>17. CASE ConsumeElsewhere
  <2>1. PICK d \in Dispatches : ConsumeOnce(d) /\ uses' = Append(uses, <<d, signed[d].effect>>)
    BY <1>17 DEF ConsumeElsewhere
  <2>2. signed[d].effect \in SignedEffects
    BY DEF TypeInv, SignedEffects
  <2>3. uses' \in Seq(Dispatches \X SignedEffects)
    BY <2>1, <2>2, AppendProperties DEF TypeInv
  <2>4. marker' \in [Dispatches -> DispatchRecords(SignedEffects \X Nat)]
    BY <2>1, <1>0 DEF ConsumeOnce, TypeInv
  <2>5. count' \in Counts4
    BY <1>17, TallyType DEF ConsumeElsewhere, TypeInv
  <2> QED BY <1>17, <2>3, <2>4, <2>5 DEF ConsumeElsewhere, TypeInv
<1>18. CASE UNCHANGED vars
  BY <1>18 DEF vars, TypeInv
<1> QED
  BY <1>1, <1>2, <1>3, <1>4, <1>5, <1>6, <1>7, <1>8, <1>9, <1>10, <1>11, <1>12, <1>13, <1>14,
     <1>15, <1>16, <1>17, <1>18 DEF Next, Decide, Deliveries

(***************************************************************************)
(* What the steps keep                                                     *)
(***************************************************************************)
\* Two runs that hold a lock hold the locks of two watches, and deliver two effects.
LEMMA Exclusive ==
  ASSUME RunInv, NEW p \in Hosts, NEW q \in Hosts, p # q, run[p].pc \in Held, run[q].pc \in Held
  PROVE  Mine(p) # Mine(q)
  BY DEF RunInv, RunOk

LEMMA EffectsDiffer ==
  ASSUME RunInv, NEW p \in Hosts, NEW q \in Hosts, p # q,
         run[p].pc \in Delivering, run[q].pc \in Delivering
  PROVE  Mine(p) # Mine(q) /\ run[p].effect # run[q].effect /\ Owner(p) # Owner(q)
<1>1. run[p].pc \in Held /\ run[q].pc \in Held
  BY DEF Delivering, Held
<1>2. Mine(p) # Mine(q)
  BY <1>1, Exclusive
<1>3. IdOf(run[p].effect) = Mine(p) /\ IdOf(run[q].effect) = Mine(q)
  BY DEF RunInv, RunOk
<1> QED BY <1>2, <1>3 DEF Owner

OthersKept(p) == \A q \in Hosts \ {p} : run'[q] = run[q]
MemoryKept(p) ==
  /\ run'[p].answer = run[p].answer /\ run'[p].effect = run[p].effect
  /\ run'[p].dispatch = run[p].dispatch /\ run'[p].attempt = run[p].attempt

LEMMA OthersFrame ==
  ASSUME NEW p \in Hosts, OthersKept(p)
  PROVE  \A q \in Hosts \ {p} : /\ run'[q] = run[q] /\ Mine(q)' = Mine(q)
                                /\ Owner(q)' = Owner(q)
                                /\ \A outcome : Entry(q, outcome)' = Entry(q, outcome)
  BY DEF OthersKept, Mine, Owner, Entry

LEMMA MemoryFrame ==
  ASSUME NEW p \in Hosts, OthersKept(p), MemoryKept(p)
  PROVE  \A q \in Hosts : /\ q # p => run'[q].pc = run[q].pc
                          /\ run'[q].answer = run[q].answer
                          /\ run'[q].effect = run[q].effect /\ run'[q].dispatch = run[q].dispatch
                          /\ run'[q].attempt = run[q].attempt
                          /\ Mine(q)' = Mine(q) /\ Owner(q)' = Owner(q)
                          /\ \A outcome : Entry(q, outcome)' = Entry(q, outcome)
  BY DEF OthersKept, MemoryKept, Mine, Owner, Entry

LEMMA GoFrame ==
  ASSUME TypeInv, NEW p \in Hosts, NEW pc, Go(p, pc)
  PROVE  OthersKept(p) /\ MemoryKept(p) /\ run'[p].pc = pc
  BY GoUpdate DEF OthersKept, MemoryKept

LEMMA FinishFrame ==
  ASSUME TypeInv, NEW p \in Hosts, Finish(p)
  PROVE  OthersKept(p) /\ run'[p].pc = "idle"
  BY FinishUpdate DEF OthersKept

\* A journal is about one effect and one attempt for good.
JournalsKept ==
  \A i \in Identities : journal[i].phase # "NONE" =>
    /\ journal'[i].phase # "NONE" /\ journal'[i].effect = journal[i].effect
    /\ journal'[i].attempt = journal[i].attempt

LEMMA JournalledKept ==
  ASSUME JournalsKept, NEW owner, Journalled(owner) PROVE Journalled(owner)'
  BY DEF JournalsKept, Journalled

LEMMA LogKept == log' = log => \A e : Sent(e)' = Sent(e) /\ Reported(e)' = Reported(e)
  BY DEF Sent, Reported, Contract!Happened

LEMMA Logged ==
  ASSUME TypeInv, NEW what \in {"sent", "reported"}, NEW e \in SignedEffects,
         log' = Append(log, <<what, e>>)
  PROVE  \A x : /\ Sent(x)' <=> Sent(x) \/ (what = "sent" /\ x = e)
                /\ Reported(x)' <=> Reported(x) \/ (what = "reported" /\ x = e)
<1>1. log \in Seq({"sent", "reported"} \X SignedEffects) /\ <<what, e>> \in {"sent", "reported"} \X SignedEffects
  BY DEF TypeInv
<1>2. /\ Len(log) \in Nat /\ Len(log') = Len(log) + 1 /\ log'[Len(log) + 1] = <<what, e>>
      /\ \A n \in 1..Len(log) : log'[n] = log[n]
  BY <1>1, AppendProperties
<1>3. DOMAIN log = 1..Len(log) /\ DOMAIN log' = 1..(Len(log) + 1)
  <2>1. log' \in Seq({"sent", "reported"} \X SignedEffects)
    BY <1>1, AppendProperties
  <2> QED BY <1>1, <1>2, <2>1
<1>4. \A w, x : Contract!Happened(w, x)' <=> Contract!Happened(w, x) \/ (w = what /\ x = e)
  BY <1>2, <1>3 DEF Contract!Happened
<1> QED BY <1>4 DEF Sent, Reported

LEMMA UsesKept == uses' = uses => \A d : Used(d)' = Used(d)
  BY DEF Used

LEMMA UsedMore ==
  ASSUME TypeInv, NEW d \in Dispatches, NEW e \in SignedEffects, uses' = Append(uses, <<d, e>>)
  PROVE  /\ \A x : Used(x)' <=> Used(x) \/ x = d
         /\ DOMAIN uses' = 1..(Len(uses) + 1) /\ DOMAIN uses = 1..Len(uses) /\ Len(uses) \in Nat
         /\ uses'[Len(uses) + 1] = <<d, e>> /\ \A n \in DOMAIN uses : uses'[n] = uses[n]
<1>1. uses \in Seq(Dispatches \X SignedEffects) /\ <<d, e>> \in Dispatches \X SignedEffects
  BY DEF TypeInv
<1>2. /\ Len(uses) \in Nat /\ Len(uses') = Len(uses) + 1 /\ uses'[Len(uses) + 1] = <<d, e>>
      /\ \A n \in 1..Len(uses) : uses'[n] = uses[n]
  BY <1>1, AppendProperties
<1>3. DOMAIN uses = 1..Len(uses) /\ DOMAIN uses' = 1..(Len(uses) + 1)
  <2>1. uses' \in Seq(Dispatches \X SignedEffects)
    BY <1>1, AppendProperties
  <2> QED BY <1>1, <1>2, <2>1
<1>4. \A x : Used(x)' <=> Used(x) \/ x = d
  BY <1>2, <1>3 DEF Used
<1> QED BY <1>2, <1>3, <1>4

(***************************************************************************)
(* The run and its lock                                                    *)
(***************************************************************************)
LEMMA GoRun ==
  ASSUME TypeInv, RunInv, NEW p \in Hosts, NEW pc \in Delivering, run[p].pc \in Delivering,
         Go(p, pc), lock' = lock
  PROVE  RunInv'
<1>1. OthersKept(p) /\ MemoryKept(p) /\ run'[p].pc = pc
  BY GoFrame
<1>2. \A q \in Hosts \ {p} : run'[q] = run[q] /\ Mine(q)' = Mine(q) /\ Result(q)' = Result(q)
  BY <1>1 DEF OthersKept, Mine, Result
<1>3. Mine(p)' = Mine(p) /\ Result(p)' = Result(p)
  BY <1>1 DEF MemoryKept, Mine, Result
<1>4. run[p].pc \in Held /\ pc \in Held /\ pc \notin {"collected", "typed", "agreed"}
  BY DEF Held, Delivering
<1> QED BY <1>1, <1>2, <1>3, <1>4 DEF RunInv, RunOk, MemoryKept

LEMMA FinishRun == ASSUME TypeInv, RunInv, NEW p \in Hosts, Finish(p) PROVE RunInv'
<1>1. run'[p].pc = "idle" /\ (\A q \in Hosts \ {p} : run'[q] = run[q])
      /\ \A i \in Identities : lock[i] # p => lock'[i] = lock[i]
  BY FinishUpdate
<1>2. \A q \in Hosts \ {p} : run'[q] = run[q] /\ Mine(q)' = Mine(q) /\ Result(q)' = Result(q)
  BY <1>1 DEF Mine, Result
<1>3. "idle" \notin Held /\ "idle" \notin Delivering
  BY DEF Held, Delivering
<1> QED BY <1>1, <1>2, <1>3 DEF RunInv, RunOk

\* A run that reads goes on to know only what the world says.
LEMMA ReadRun ==
  ASSUME TypeInv, RunInv, NEW p \in Hosts, OthersKept(p), lock' = lock,
         run'[p].pc = "collected", run'[p].seen = facts
  PROVE  RunInv'
<1>1. \A q \in Hosts \ {p} : run'[q] = run[q] /\ Mine(q)' = Mine(q) /\ Result(q)' = Result(q)
  BY DEF OthersKept, Mine, Result
<1>2. "collected" \notin Held /\ "collected" \notin Delivering /\ facts \in Observable
  BY DEF Held, Delivering, TypeInv
<1>3. Observable' = Observable
  BY DEF Observable
<1> QED BY <1>1, <1>2, <1>3 DEF RunInv, RunOk

\* What the run and the journal are after intent is durable.
Executed(p, d, n, pc) ==
  LET i == Mine(p) j == journal[i]
  IN  /\ OthersKept(p)
      /\ run'[p].pc = pc /\ run'[p].answer = run[p].answer /\ run'[p].effect = EffectOf(p)
      /\ run'[p].dispatch = d /\ run'[p].attempt = n
      /\ \/ /\ j.phase = IF pc = "finalize" THEN "RECEIPT" ELSE "INTENT"
            /\ j.effect = EffectOf(p) /\ j.attempt = n /\ journal' = journal
         \/ /\ j.phase = "NONE" /\ pc = "reserve"
            /\ journal' = [journal EXCEPT ![i] =
                 [phase |-> "INTENT", effect |-> EffectOf(p), dispatch |-> d, attempt |-> n]]

LEMMA ExecuteForms ==
  ASSUME TypeInv, RunInv, NEW p \in Hosts, Execute(p)
  PROVE  \E d \in Dispatches, n \in Nat, pc \in {"reserve", "finalize"} :
           Allowed(p, d) /\ Executed(p, d, n, pc)
<1> DEFINE j == journal[Mine(p)]
           n == IF Resumes(j, EffectOf(p)) THEN j.attempt ELSE count.attempts + 1
           pc == IF j.phase = "RECEIPT" THEN "finalize" ELSE "reserve"
<1>0. PICK d \in Dispatches :
        /\ Allowed(p, d) /\ (Resumes(j, EffectOf(p)) \/ j.phase = "NONE")
        /\ run' = [run EXCEPT ![p].pc = pc, ![p].effect = EffectOf(p), ![p].seen = <<>>,
                              ![p].dispatch = d, ![p].attempt = n]
        /\ IF Resumes(j, EffectOf(p)) THEN UNCHANGED <<journal, count>>
           ELSE /\ Tally("attempts")
                /\ journal' = [journal EXCEPT ![Mine(p)] =
                     [phase |-> "INTENT", effect |-> EffectOf(p), dispatch |-> d, attempt |-> n]]
  BY Zenon DEF Execute
<1>1. /\ Allowed(p, d) /\ (Resumes(j, EffectOf(p)) \/ j.phase = "NONE")
      /\ run' = [run EXCEPT ![p] = Executing(run[p], pc, <<>>, EffectOf(p), d, n)]
      /\ \/ Resumes(j, EffectOf(p)) /\ journal' = journal
         \/ /\ ~Resumes(j, EffectOf(p))
            /\ journal' = [journal EXCEPT ![Mine(p)] =
                 [phase |-> "INTENT", effect |-> EffectOf(p), dispatch |-> d, attempt |-> n]]
  <2> HIDE DEF j, n, pc
  <2>1. run' = [run EXCEPT ![p] = Executing(run[p], pc, <<>>, EffectOf(p), d, n)]
    BY <1>0 DEF Executing
  <2> QED BY <1>0, <2>1, Zenon
<1>2. n \in Nat
  <2>1. Mine(p) \in Identities
    BY DEF Execute, RunInv, RunOk, Held
  <2>2. j \in Journals /\ count.attempts \in Nat
    BY <2>1 DEF TypeInv, Counts4
  <2>3. \A x \in Journals : x.attempt \in Nat
    BY DEF Journals
  <2> QED BY <2>2, <2>3
<1>3. pc \in {"reserve", "finalize"}
  OBVIOUS
<1>4. \/ /\ j.phase = IF pc = "finalize" THEN "RECEIPT" ELSE "INTENT"
         /\ j.effect = EffectOf(p) /\ j.attempt = n /\ journal' = journal
      \/ /\ j.phase = "NONE" /\ pc = "reserve"
         /\ journal' = [journal EXCEPT ![Mine(p)] =
              [phase |-> "INTENT", effect |-> EffectOf(p), dispatch |-> d, attempt |-> n]]
  BY <1>1 DEF Resumes
<1> HIDE DEF j, n, pc
<1>5. IsRun(run[p]) /\ run'[p] = Executing(run[p], pc, <<>>, EffectOf(p), d, n) /\ OthersKept(p)
  BY <1>1 DEF TypeInv, OthersKept
<1>6. /\ run'[p].pc = pc /\ run'[p].answer = run[p].answer /\ run'[p].effect = EffectOf(p)
      /\ run'[p].dispatch = d /\ run'[p].attempt = n
  BY <1>5, EffectUpdate
<1>7. Executed(p, d, n, pc)
  BY <1>4, <1>5, <1>6 DEF Executed, j
<1> QED BY <1>1, <1>2, <1>3, <1>7

LEMMA RunStep == TypeInv /\ RunInv /\ [Next]_vars => RunInv'
<1> SUFFICES ASSUME TypeInv, RunInv, [Next]_vars PROVE RunInv'
  OBVIOUS
<1>1. ASSUME NEW p \in Hosts, Start(p) PROVE RunInv'
  <2>1. IsRun(run[p]) /\ run' = [run EXCEPT ![p] = [run[p] EXCEPT !.pc = "collected", !.seen = facts]]
    BY <1>1 DEF Start, TypeInv
  <2>2. run'[p] = [pc |-> "collected", seen |-> facts, answer |-> run[p].answer,
                   effect |-> run[p].effect, dispatch |-> run[p].dispatch, attempt |-> run[p].attempt]
        /\ OthersKept(p)
    <3>1. run'[p] = [run[p] EXCEPT !.pc = "collected", !.seen = facts] /\ OthersKept(p)
      BY <2>1 DEF TypeInv, OthersKept
    <3>2. [run[p] EXCEPT !.pc = "collected", !.seen = facts] =
            [pc |-> "collected", seen |-> facts, answer |-> run[p].answer,
             effect |-> run[p].effect, dispatch |-> run[p].dispatch, attempt |-> run[p].attempt]
      BY <2>1, SeenUpdate
    <3> QED BY <3>1, <3>2
  <2>3. run'[p].pc = "collected" /\ run'[p].seen = facts
    BY <2>2
  <2> QED BY <1>1, <2>2, <2>3, ReadRun DEF Start
<1>2. ASSUME NEW p \in Hosts, Finish(p) PROVE RunInv'
  BY <1>2, FinishRun
<1>3. ASSUME NEW p \in Hosts, EvaluateLocked(p) PROVE RunInv'
  <2> DEFINE f == run[p].seen
             i == Identity(f)
             w == [class |-> WatchClass, rev |-> 0, at |-> 1]
             a == Evaluate(f, w, st[i])
  <2>1. f \in Observable /\ i \in Identities /\ lock[i] = NoHost
    BY <1>3, ObservedIdentity DEF EvaluateLocked, RunInv, RunOk, Free
  <2>2. a.result \in TypedResults =>
          /\ a.state.rev = f.packet.rev /\ a.state.subject = SubjectVersion(f)
          /\ a.key = <<f.packet.rev, a.result, a.decision, SubjectVersion(f)>>
          /\ a.state.key = a.key
    BY EvaluateAnswer
  <2>3. f.packet.rev = i[1] /\ SubjectVersion(f) = i[2] /\ i = <<i[1], i[2]>>
    BY <2>1, ObservedIdentity DEF Identities
  <2>4. IsRun(run[p])
    BY DEF TypeInv
  <2>5. CASE /\ a.result \in TypedResults /\ lock' = [lock EXCEPT ![i] = p]
             /\ run' = [run EXCEPT ![p].pc = "typed", ![p].answer = a]
    <3> HIDE DEF a, i, f, w
    <3>1. run'[p] = [run[p] EXCEPT !.pc = "typed", !.answer = a] /\ OthersKept(p)
      BY <2>5 DEF TypeInv, OthersKept
    <3>2. run'[p] = [pc |-> "typed", seen |-> run[p].seen, answer |-> a, effect |-> run[p].effect,
                     dispatch |-> run[p].dispatch, attempt |-> run[p].attempt]
      BY <2>4, <3>1, AnswerUpdate
    <3>3. run'[p].pc = "typed" /\ run'[p].seen = f /\ run'[p].answer = a
      BY <3>2 DEF f
    <3>4. Mine(p)' = i /\ Result(p)' = a.result
      BY <2>2, <2>3, <2>5, <3>3 DEF Mine, Result
    <3>5. lock'[i] = p /\ \A k \in Identities \ {i} : lock'[k] = lock[k]
      BY <2>1, <2>5 DEF TypeInv
    <3>6. \A q \in Hosts \ {p} : run'[q] = run[q] /\ Mine(q)' = Mine(q) /\ Result(q)' = Result(q)
      BY <3>1 DEF OthersKept, Mine, Result
    <3>7. \A q \in Hosts \ {p} : run[q].pc \in Held => lock'[Mine(q)] = q
      BY <2>1, <3>5, WatchHostAssumption DEF RunInv, RunOk
    <3>8. "typed" \in Held /\ "typed" \notin Delivering
      BY DEF Held, Delivering
    <3>9. /\ f.packet.rev = i[1] /\ a.state.key = a.key
          /\ a.key = <<i[1], a.result, a.decision, i[2]>>
      BY <2>2, <2>3, <2>5
    <3>10. Observable' = Observable
      BY DEF Observable
    <3>11. RunOk(p)'
      BY <2>1, <2>5, <3>3, <3>4, <3>5, <3>8, <3>9, <3>10 DEF RunOk
    <3>12. ASSUME NEW q \in Hosts \ {p} PROVE RunOk(q)'
      <4>1. RunOk(q)
        BY DEF RunInv
      <4> QED BY <3>6, <3>7, <3>10, <4>1 DEF RunOk
    <3> QED BY <3>11, <3>12 DEF RunInv
  <2>6. CASE a.result \notin TypedResults /\ run' = [run EXCEPT ![p] = Idle] /\ lock' = lock
    <3>1. run'[p].pc = "idle" /\ \A q \in Hosts \ {p} : run'[q] = run[q]
      BY <2>6 DEF TypeInv, Idle
    <3>2. \A q \in Hosts \ {p} : run'[q] = run[q] /\ Mine(q)' = Mine(q) /\ Result(q)' = Result(q)
      BY <3>1 DEF Mine, Result
    <3>3. "idle" \notin Held /\ "idle" \notin Delivering
      BY DEF Held, Delivering
    <3>4. Observable' = Observable
      BY DEF Observable
    <3> HIDE DEF a, i, f, w
    <3> QED BY <2>6, <3>1, <3>2, <3>3, <3>4 DEF RunInv, RunOk
  <2> QED BY <1>3, <2>5, <2>6 DEF EvaluateLocked
<1>4. ASSUME NEW p \in Hosts, Recollect(p) PROVE RunInv'
  <2>1. CASE Finish(p)
    BY <2>1, FinishRun
  <2>2. CASE ~Finish(p)
    <3>1. /\ run[p].pc = "typed" /\ Agrees(run[p].seen, facts, Result(p)) /\ lock' = lock
          /\ run' = [run EXCEPT ![p] = [run[p] EXCEPT !.pc = "agreed", !.seen = facts]]
      BY <1>4, <2>2 DEF Recollect
    <3>2. run'[p] = [run[p] EXCEPT !.pc = "agreed", !.seen = facts] /\ OthersKept(p) /\ IsRun(run[p])
      BY <3>1 DEF TypeInv, OthersKept
    <3>3. run'[p] = [pc |-> "agreed", seen |-> facts, answer |-> run[p].answer,
                     effect |-> run[p].effect, dispatch |-> run[p].dispatch,
                     attempt |-> run[p].attempt]
      BY <3>2, SeenUpdate
    <3>4. run'[p].pc = "agreed" /\ run'[p].seen = facts /\ run'[p].answer = run[p].answer
      BY <3>3
    <3>5. \A q \in Hosts : Mine(q)' = Mine(q) /\ Result(q)' = Result(q)
      BY <3>2, <3>4 DEF OthersKept, Mine, Result
    <3>6. facts.packet.rev = run[p].seen.packet.rev
      <4>1. Snapshot(run[p].seen) = Snapshot(facts)
        BY <3>1 DEF Agrees
      <4>2. Snapshot(run[p].seen).rev = run[p].seen.packet.rev /\ Snapshot(facts).rev = facts.packet.rev
        BY DEF Snapshot
      <4> QED BY <4>1, <4>2
    <3>7. facts \in Observable /\ "agreed" \in Held /\ "agreed" \notin Delivering /\ "typed" \in Held
      BY DEF TypeInv, Held, Delivering
    <3>8. Observable' = Observable
      BY DEF Observable
    <3> QED BY <3>1, <3>2, <3>4, <3>5, <3>6, <3>7, <3>8 DEF RunInv, RunOk, OthersKept
  <2> QED BY <2>1, <2>2
<1>5. ASSUME NEW p \in Hosts, Execute(p) PROVE RunInv'
  <2>1. PICK d \in Dispatches, n \in Nat, pc \in {"reserve", "finalize"} :
          Allowed(p, d) /\ Executed(p, d, n, pc)
    BY <1>5, ExecuteForms
  <2>2. OthersKept(p)
    BY <2>1 DEF Executed
  <2>3. /\ run'[p].pc = pc /\ run'[p].answer = run[p].answer /\ run'[p].effect = EffectOf(p)
        /\ run'[p].dispatch = d /\ run'[p].attempt = n
    BY <2>1 DEF Executed
  <2>4. /\ run[p].pc = "agreed" /\ RunOk(p) /\ "agreed" \in Held /\ lock' = lock
    BY <1>5 DEF Execute, RunInv, Held
  <2>5. pc \in Held /\ pc \notin {"collected", "typed", "agreed"}
    BY DEF Held
  <2>6. Mine(p)' = Mine(p) /\ Result(p)' = Result(p)
    BY <2>3 DEF Mine, Result
  <2>7. EffectOf(p) \in SignedEffects
    BY <2>1, AllowedIsCovered DEF Covered, TypeInv, SignedEffects
  <2>8. IdOf(EffectOf(p)) = Mine(p) /\ KeyOf(EffectOf(p)) = run[p].answer.key
    <3>1. /\ run[p].seen.packet.rev = Mine(p)[1]
          /\ run[p].answer.key = <<Mine(p)[1], Result(p), run[p].answer.decision, Mine(p)[2]>>
      BY <2>4 DEF RunOk
    <3>2. Mine(p) = <<run[p].answer.state.rev, run[p].answer.state.subject>>
      BY DEF Mine
    <3>3. /\ EffectOf(p).rev = run[p].seen.packet.rev /\ EffectOf(p).result = Result(p)
          /\ EffectOf(p).subject = run[p].answer.state.subject
          /\ EffectOf(p).decision = run[p].answer.decision
      BY DEF EffectOf
    <3> QED BY <3>1, <3>2, <3>3 DEF IdOf, KeyOf
  <2>9. RunOk(p)'
    BY <2>1, <2>3, <2>4, <2>5, <2>6, <2>7, <2>8 DEF RunOk
  <2>10. ASSUME NEW q \in Hosts \ {p} PROVE RunOk(q)'
    <3>1. RunOk(q) /\ run'[q] = run[q] /\ Mine(q)' = Mine(q) /\ Result(q)' = Result(q)
      BY <2>2 DEF RunInv, OthersKept, Mine, Result
    <3>2. Observable' = Observable
      BY DEF Observable
    <3> QED BY <2>4, <3>1, <3>2 DEF RunOk
  <2> QED BY <2>9, <2>10 DEF RunInv
<1>6. ASSUME NEW p \in Hosts, Deliveries(p) PROVE RunInv'
  <2>1. Finish(p) \/ \E pc \in Delivering : run[p].pc \in Delivering /\ Go(p, pc) /\ lock' = lock
    BY <1>6 DEF Deliveries, Reserve, Reserved, BeginSend, SendEffect, TimedOut, Doubt, RecordDoubt, Receive,
                Finalize, Finalized, RecordApplied, Deliver, Delivering
  <2> QED BY <2>1, GoRun, FinishRun
<1>7. CASE Move \/ Expire \/ ConsumeElsewhere \/ UNCHANGED vars
  <2>1. run' = run /\ lock' = lock
    BY <1>7 DEF Move, Expire, ConsumeElsewhere, vars
  <2>2. \A q \in Hosts : Mine(q)' = Mine(q) /\ Result(q)' = Result(q)
    BY <2>1 DEF Mine, Result
  <2>3. Observable' = Observable
    BY DEF Observable
  <2>4. ASSUME NEW q \in Hosts PROVE RunOk(q)'
    <3>1. RunOk(q)
      BY DEF RunInv
    <3> QED BY <2>1, <2>2, <2>3, <3>1 DEF RunOk
  <2> QED BY <2>4 DEF RunInv
<1> QED
  BY <1>1, <1>2, <1>3, <1>4, <1>5, <1>6, <1>7
     DEF Next, Decide, LockHeld, SettledBefore, Denied, Conflicts, Crash

(***************************************************************************)
(* Steps of the invariant                                                  *)
(***************************************************************************)
\* What the files and the runs that deliver are bound by, but for the watch state.
Bound == JournalInv /\ MarkerInv /\ UseInv /\ SentInv /\ ReportInv /\ LedgerInv /\ AuthorityInv

LEMMA Stages ==
  /\ Delivering \subseteq Held /\ {"idle", "collected", "typed", "agreed"} \cap Delivering = {}
  /\ {"reserving", "finalizing", "send", "sending", "sent", "record", "persist"} \subseteq Delivering
  BY DEF Delivering, Held

\* A run that stops or has not begun to deliver binds nothing.
LEMMA StopStep ==
  ASSUME TypeInv, Bound, \A q \in Hosts : run'[q] = run[q] \/ run'[q].pc \notin Delivering,
         UNCHANGED <<ledger, journal, log, uses, marker, signed>>
  PROVE  Bound'
<1>1. \A q \in Hosts : run'[q].pc \in Delivering =>
        /\ run'[q] = run[q] /\ Mine(q)' = Mine(q) /\ Owner(q)' = Owner(q)
        /\ \A outcome : Entry(q, outcome)' = Entry(q, outcome)
  BY DEF Mine, Owner, Entry
<1>2. \A q \in Hosts :
        run'[q].pc \in {"reserving", "finalizing", "send", "sending", "sent", "record", "persist"}
          => run'[q].pc \in Delivering
  BY Stages
<1>3. (\A e : Sent(e)' = Sent(e) /\ Reported(e)' = Reported(e)) /\ \A d : Used(d)' = Used(d)
  BY LogKept, UsesKept
<1>4. JournalInv'
  BY <1>1 DEF Bound, JournalInv
<1>5. MarkerInv'
  BY <1>1, <1>2 DEF Bound, MarkerInv, MarkerFiles, MarkerRuns, Journalled
<1>6. UseInv'
  BY <1>1, <1>2, <1>3 DEF Bound, UseInv, UseFiles, UseRuns, DispatchServesOnce
<1>7. SentInv' /\ ReportInv'
  BY <1>1, <1>2, <1>3 DEF Bound, SentInv, ReportInv
<1>8. LedgerInv'
  BY <1>1, <1>2, <1>3 DEF Bound, LedgerInv, LedgerFiles, LedgerRuns, Backed
<1>9. AuthorityInv'
  BY <1>1 DEF Bound, AuthorityInv, Covered
<1> QED BY <1>4, <1>5, <1>6, <1>7, <1>8, <1>9 DEF Bound

\* A consumed dispatch with an owner is never written again.
ConsumedKept ==
  \A d \in Dispatches :
    marker[d].state = "consumed" /\ marker[d].owner # <<>> => marker'[d] = marker[d]

LEMMA BackedKept ==
  ASSUME JournalsKept, ConsumedKept, \A e : Sent(e) => Sent(e)',
         NEW i \in Identities, NEW key, Backed(i, key)
  PROVE  Backed(i, key)'
<1>1. PICK d \in Dispatches :
        marker[d] = [state |-> "consumed", owner |-> <<journal[i].effect, journal[i].attempt>>]
  BY DEF Backed
<1>2. marker'[d] = marker[d]
  BY <1>1 DEF ConsumedKept
<1>3. /\ journal'[i].phase # "NONE" /\ journal'[i].effect = journal[i].effect
      /\ journal'[i].attempt = journal[i].attempt
  BY DEF Backed, JournalsKept
<1>4. PICK e : e = journal[i].effect /\ key = KeyOf(e) /\ Sent(e)
  BY DEF Backed
<1>5. Sent(e)'
  BY <1>4
<1> QED BY <1>1, <1>2, <1>3, <1>4, <1>5 DEF Backed

\* A journal that is written for what it is about leaves the other files in order.
LEMMA JournalFiles ==
  ASSUME Bound, JournalsKept, UNCHANGED <<ledger, log, uses, marker>>,
         \A i \in Identities : journal'[i].phase = "INTENT" => journal[i].phase \in {"NONE", "INTENT"}
  PROVE  MarkerFiles' /\ UseFiles' /\ DispatchServesOnce' /\ LedgerFiles'
<1>1. MarkerFiles'
  BY JournalledKept DEF Bound, MarkerInv, MarkerFiles
<1>2. UseFiles'
  <2>1. ASSUME NEW d \in Dispatches, Used(d), marker[d].state = "reserved"
        PROVE  journal'[IdOf(marker[d].owner[1])].phase # "INTENT"
    <3>1. Journalled(marker[d].owner)
      BY <2>1 DEF Bound, MarkerInv, MarkerFiles, Absent, Blank
    <3>2. journal[IdOf(marker[d].owner[1])].phase \notin {"NONE", "INTENT"}
      BY <2>1, <3>1 DEF Bound, UseInv, UseFiles, Journalled
    <3> QED BY <3>1, <3>2 DEF Journalled
  <2>2. \A d : Used(d)' = Used(d)
    BY UsesKept
  <2> QED BY <2>1, <2>2 DEF Bound, UseInv, UseFiles
<1>3. DispatchServesOnce'
  BY DEF Bound, UseInv, DispatchServesOnce
<1>4. LedgerFiles'
  <2>1. ConsumedKept /\ \A e : Sent(e) => Sent(e)'
    BY LogKept DEF ConsumedKept
  <2> QED BY <2>1, BackedKept DEF Bound, LedgerInv, LedgerFiles
<1> QED BY <1>1, <1>2, <1>3, <1>4

\* An earlier send that this run may not go on from.
LEMMA ConflictStep ==
  ASSUME TypeInv, RunInv, Bound, NEW p \in Hosts, Conflicts(p) PROVE Bound'
<1>1. OthersKept(p) /\ run'[p].pc = "idle"
  BY FinishFrame DEF Conflicts
<1>2. UNCHANGED <<ledger, log, uses, marker, signed>> /\ Mine(p) \in Identities /\ run[p].pc \in Held
  BY DEF Conflicts, RunInv, RunOk, Held, Seen, Outside
<1>3. CASE journal' = journal
  BY <1>1, <1>2, <1>3, StopStep, Stages DEF OthersKept
<1>4. CASE journal' # journal
  <2>1. /\ journal[Mine(p)].phase # "NONE"
        /\ journal' = [journal EXCEPT ![Mine(p)] = [journal[Mine(p)] EXCEPT !.phase = "AMBIGUOUS"]]
    BY <1>4 DEF Conflicts
  <2>2. /\ \A i \in Identities \ {Mine(p)} : journal'[i] = journal[i]
        /\ journal'[Mine(p)] = [journal[Mine(p)] EXCEPT !.phase = "AMBIGUOUS"]
        /\ journal[Mine(p)] \in Journals
    BY <1>2, <2>1 DEF TypeInv
  <2>3. /\ journal'[Mine(p)].phase = "AMBIGUOUS"
        /\ journal'[Mine(p)].effect = journal[Mine(p)].effect
        /\ journal'[Mine(p)].attempt = journal[Mine(p)].attempt
    BY <2>2 DEF Journals
  <2>4. JournalsKept /\ \A i \in Identities : journal'[i].phase = "INTENT" => journal[i].phase = "INTENT"
    BY <2>2, <2>3 DEF JournalsKept
  <2>5. \A q \in Hosts \ {p} : run[q].pc \in Held => Mine(q) # Mine(p) /\ Mine(q) \in Identities
    BY <1>2, Exclusive DEF RunInv, RunOk
  <2>6. \A q \in Hosts \ {p} : /\ run'[q] = run[q] /\ Mine(q)' = Mine(q) /\ Owner(q)' = Owner(q)
                               /\ \A outcome : Entry(q, outcome)' = Entry(q, outcome)
    BY <1>1, OthersFrame
  <2>7. run'[p].pc \notin Delivering
        /\ run'[p].pc \notin {"reserving", "finalizing", "send", "sending", "sent", "record", "persist"}
    BY <1>1, Stages
  <2>8. (\A e : Sent(e)' = Sent(e) /\ Reported(e)' = Reported(e)) /\ \A d : Used(d)' = Used(d)
    BY <1>2, LogKept, UsesKept
  <2>9. JournalInv'
    BY <2>1, <2>2, <2>3, <2>5, <2>6, <2>7, Stages DEF Bound, JournalInv
  <2>10. MarkerFiles' /\ UseFiles' /\ DispatchServesOnce' /\ LedgerFiles'
    BY <1>2, <2>4, JournalFiles
  <2>11. MarkerRuns' /\ UseRuns' /\ LedgerRuns'
    BY <1>2, <2>6, <2>7, <2>8
       DEF Bound, MarkerInv, MarkerRuns, UseInv, UseRuns, LedgerInv, LedgerRuns
  <2>12. SentInv'
    BY <2>1, <2>2, <2>3, <2>6, <2>7, <2>8 DEF Bound, SentInv
  <2>13. ReportInv'
    BY <1>2, <2>6, <2>7, <2>8 DEF Bound, ReportInv
  <2>15. AuthorityInv'
    BY <1>2, <2>6, <2>7 DEF Bound, AuthorityInv, Covered
  <2> QED BY <2>9, <2>10, <2>11, <2>12, <2>13, <2>15 DEF Bound, MarkerInv, UseInv, LedgerInv
<1> QED BY <1>3, <1>4

\* Intent is written for a watch that has none, or is that of an earlier run.
LEMMA ExecuteStep ==
  ASSUME TypeInv, RunInv, RunInv', Bound, NEW p \in Hosts, Execute(p) PROVE Bound'
<1>1. PICK d \in Dispatches, n \in Nat, pc \in {"reserve", "finalize"} :
        Allowed(p, d) /\ Executed(p, d, n, pc)
  BY ExecuteForms
<1> DEFINE i == Mine(p)
           e == EffectOf(p)
<1>2. /\ OthersKept(p) /\ run'[p].pc = pc /\ run'[p].answer = run[p].answer
      /\ run'[p].effect = e /\ run'[p].dispatch = d /\ run'[p].attempt = n
  BY <1>1 DEF Executed
<1>3. /\ run[p].pc = "agreed" /\ i \in Identities /\ run[p].pc \in Held /\ New(p)
      /\ UNCHANGED <<ledger, log, uses, marker, signed>>
  BY DEF Execute, RunInv, RunOk, Held, Seen, Outside
<1>4. Mine(p)' = i /\ pc \in Delivering /\ pc \in Held
      /\ pc \notin {"reserving", "finalizing", "send", "sending", "sent", "record", "persist"}
  BY <1>2 DEF Mine, Delivering, Held
<1>5. e \in SignedEffects /\ IdOf(e) = i /\ KeyOf(e) = run[p].answer.key
  BY <1>2, <1>4 DEF RunInv, RunOk
<1>6. \A q \in Hosts \ {p} : /\ run'[q] = run[q] /\ Mine(q)' = Mine(q) /\ Owner(q)' = Owner(q)
                             /\ \A outcome : Entry(q, outcome)' = Entry(q, outcome)
  BY <1>2, OthersFrame
<1>7. \A q \in Hosts \ {p} : run[q].pc \in Delivering => Mine(q) # i /\ Mine(q) \in Identities
  BY <1>3, Exclusive, Stages DEF RunInv, RunOk
<1>8. (\A x : Sent(x)' = Sent(x) /\ Reported(x)' = Reported(x)) /\ \A x : Used(x)' = Used(x)
  BY <1>3, LogKept, UsesKept
<1>9. /\ \A k \in Identities \ {i} : journal'[k] = journal[k]
      /\ journal'[i].phase = IF pc = "finalize" THEN "RECEIPT" ELSE "INTENT"
      /\ journal'[i].effect = e /\ journal'[i].attempt = n
      /\ journal[i].phase # "NONE" => journal'[i] = journal[i]
      /\ journal[i].phase = "NONE" => pc = "reserve"
  <2>1. CASE journal' = journal /\ journal[i].effect = e /\ journal[i].attempt = n
             /\ journal[i].phase = IF pc = "finalize" THEN "RECEIPT" ELSE "INTENT"
    BY <2>1
  <2>2. CASE /\ journal[i].phase = "NONE" /\ pc = "reserve"
             /\ journal' = [journal EXCEPT ![i] =
                  [phase |-> "INTENT", effect |-> e, dispatch |-> d, attempt |-> n]]
    <3> HIDE DEF i, e
    <3>1. /\ journal'[i] = [phase |-> "INTENT", effect |-> e, dispatch |-> d, attempt |-> n]
          /\ \A k \in Identities \ {i} : journal'[k] = journal[k]
      BY <1>3, <2>2 DEF TypeInv
    <3> QED BY <2>2, <3>1
  <2> QED BY <1>1, <2>1, <2>2 DEF Executed
<1> HIDE DEF i, e
<1>10. /\ JournalsKept
       /\ \A k \in Identities : journal'[k].phase = "INTENT" => journal[k].phase \in {"NONE", "INTENT"}
  BY <1>9 DEF JournalsKept
<1>11. JournalInv'
  BY <1>2, <1>4, <1>5, <1>6, <1>7, <1>9 DEF Bound, JournalInv, PhaseOf
<1>12. MarkerFiles' /\ UseFiles' /\ DispatchServesOnce' /\ LedgerFiles'
  BY <1>3, <1>10, JournalFiles
<1>13. MarkerRuns' /\ UseRuns' /\ LedgerRuns'
  BY <1>2, <1>3, <1>4, <1>6, <1>8
     DEF Bound, MarkerInv, MarkerRuns, UseInv, UseRuns, LedgerInv, LedgerRuns
<1>14. SentInv'
  BY <1>2, <1>4, <1>6, <1>8, <1>9 DEF Bound, SentInv
<1>15. ReportInv'
  <2>1. ~Reported(e)
    <3>1. Entry(p, "APPLIED") \notin ledger[i]
      BY <1>3 DEF New, i
    <3>2. Entry(p, "APPLIED") = Applied(KeyOf(e))
      BY <1>5 DEF Entry, Applied
    <3> QED BY <1>5, <3>1, <3>2 DEF Bound, ReportInv
  <2> QED BY <1>2, <1>3, <1>6, <1>8, <2>1 DEF Bound, ReportInv
<1>16. AuthorityInv'
  <2>1. Covered(d, e)
    BY <1>1, AllowedIsCovered DEF e
  <2> QED BY <1>2, <1>3, <1>6, <2>1 DEF Bound, AuthorityInv, Covered
<1> QED BY <1>11, <1>12, <1>13, <1>14, <1>15, <1>16 DEF Bound, MarkerInv, UseInv, LedgerInv

\* A run that writes its journal moves from one phase to the next.
LEMMA CommitStep ==
  ASSUME TypeInv, RunInv, Bound, NEW p \in Hosts,
         BeginSend(p) \/ Doubt(p) \/ Receive(p)
  PROVE  Bound'
<1>1. PICK pc \in {"sending", "doubted", "finalize"} :
        /\ Go(p, pc) /\ Commit(p, PhaseOf[pc])
        /\ \/ run[p].pc = "send" /\ pc = "sending"
           \/ run[p].pc = "unsure" /\ pc = "doubted"
           \/ run[p].pc = "sent" /\ pc = "finalize"
  BY DEF BeginSend, Doubt, Receive, PhaseOf
<1>2. run[p].pc \in Delivering /\ pc \in Delivering /\ run[p].pc \in Held
  BY <1>1 DEF Delivering, Held
<1>3. UNCHANGED <<ledger, log, uses, marker, signed>> /\ Mine(p) \in Identities
  BY <1>2 DEF BeginSend, Doubt, Receive, Seen, Outside, RunInv, RunOk
<1>4. \A q \in Hosts : /\ q # p => run'[q].pc = run[q].pc
                       /\ run'[q].answer = run[q].answer
                       /\ run'[q].effect = run[q].effect /\ run'[q].dispatch = run[q].dispatch
                       /\ run'[q].attempt = run[q].attempt
                       /\ Mine(q)' = Mine(q) /\ Owner(q)' = Owner(q)
                       /\ \A outcome : Entry(q, outcome)' = Entry(q, outcome)
  BY <1>1, GoFrame, MemoryFrame
<1>5. run'[p].pc = pc
  BY <1>1, GoFrame
<1>6. \A q \in Hosts \ {p} : run[q].pc \in Delivering =>
        Mine(q) # Mine(p) /\ Mine(q) \in Identities /\ run[q].effect # run[p].effect
  BY <1>2, EffectsDiffer, Stages DEF RunInv, RunOk
<1>7. (\A x : Sent(x)' = Sent(x) /\ Reported(x)' = Reported(x)) /\ \A x : Used(x)' = Used(x)
  BY <1>3, LogKept, UsesKept
<1>8. /\ \A k \in Identities \ {Mine(p)} : journal'[k] = journal[k]
      /\ journal'[Mine(p)].phase = PhaseOf[pc] /\ journal'[Mine(p)].effect = run[p].effect
      /\ journal'[Mine(p)].attempt = run[p].attempt
  <2>1. journal' = [journal EXCEPT ![Mine(p)] =
          [phase |-> PhaseOf[pc], effect |-> run[p].effect, dispatch |-> run[p].dispatch,
           attempt |-> run[p].attempt]]
    BY <1>1 DEF Commit
  <2>2. /\ \A k \in Identities \ {Mine(p)} : journal'[k] = journal[k]
        /\ journal'[Mine(p)] = [phase |-> PhaseOf[pc], effect |-> run[p].effect,
                                dispatch |-> run[p].dispatch, attempt |-> run[p].attempt]
    BY <1>3, <2>1 DEF TypeInv
  <2> QED BY <2>2
<1>9. /\ PhaseOf[pc] \in {"SENDING", "AMBIGUOUS", "RECEIPT"} /\ (PhaseOf[pc] = "RECEIPT" => pc = "finalize")
      /\ journal[Mine(p)].phase = PhaseOf[run[p].pc] /\ PhaseOf[run[p].pc] \in {"INTENT", "SENDING"}
      /\ (PhaseOf[run[p].pc] = "INTENT" <=> pc = "sending")
      /\ journal[Mine(p)].effect = run[p].effect /\ journal[Mine(p)].attempt = run[p].attempt
      /\ run[p].effect \in SignedEffects /\ IdOf(run[p].effect) = Mine(p)
  BY <1>1, <1>2 DEF PhaseOf, Bound, JournalInv, RunInv, RunOk
<1>10. /\ JournalsKept
       /\ \A k \in Identities : journal'[k].phase = "INTENT" => journal[k].phase \in {"NONE", "INTENT"}
  BY <1>8, <1>9 DEF JournalsKept
<1>11. JournalInv'
  BY <1>3, <1>4, <1>5, <1>6, <1>8, <1>9 DEF Bound, JournalInv
<1>12. MarkerFiles' /\ UseFiles' /\ DispatchServesOnce' /\ LedgerFiles'
  BY <1>3, <1>10, JournalFiles
<1>13. MarkerRuns' /\ UseRuns' /\ LedgerRuns'
  BY <1>1, <1>3, <1>4, <1>5, <1>7
     DEF Bound, MarkerInv, MarkerRuns, UseInv, UseRuns, LedgerInv, LedgerRuns
<1>14. SentInv'
  <2>1. pc = "sending" => ~Sent(run[p].effect)
    BY <1>9 DEF Bound, SentInv
  <2>2. pc = "finalize" => Sent(run[p].effect)
    BY <1>1 DEF Bound, SentInv
  <2> QED BY <1>1, <1>3, <1>4, <1>5, <1>7, <1>8, <1>9, <2>1, <2>2 DEF Bound, SentInv
<1>15. ReportInv'
  BY <1>2, <1>3, <1>4, <1>5, <1>7 DEF Bound, ReportInv
<1>16. AuthorityInv'
  BY <1>2, <1>3, <1>4, <1>5 DEF Bound, AuthorityInv, Covered
<1> QED BY <1>11, <1>12, <1>13, <1>14, <1>15, <1>16 DEF Bound, MarkerInv, UseInv, LedgerInv

\* A step of a run within one phase of its journal.
LEMMA PhaseStep ==
  ASSUME TypeInv, RunInv, Bound, NEW p \in Hosts, NEW pc \in Delivering \ {"sending", "sent", "persist"},
         run[p].pc \in Delivering, Go(p, pc), PhaseOf[pc] = PhaseOf[run[p].pc],
         UNCHANGED <<journal, log, ledger, uses, signed>>
  PROVE  /\ JournalInv' /\ SentInv' /\ ReportInv' /\ AuthorityInv' /\ LedgerRuns' /\ DispatchServesOnce'
         /\ run'[p].pc = pc
         /\ \A q \in Hosts : /\ q # p => run'[q].pc = run[q].pc
                             /\ run'[q].dispatch = run[q].dispatch /\ Owner(q)' = Owner(q)
<1>1. \A q \in Hosts : /\ q # p => run'[q].pc = run[q].pc
                       /\ run'[q].answer = run[q].answer
                       /\ run'[q].effect = run[q].effect /\ run'[q].dispatch = run[q].dispatch
                       /\ run'[q].attempt = run[q].attempt
                       /\ Mine(q)' = Mine(q) /\ Owner(q)' = Owner(q)
                       /\ \A outcome : Entry(q, outcome)' = Entry(q, outcome)
  BY GoFrame, MemoryFrame
<1>2. run'[p].pc = pc
  BY GoFrame
<1>3. \A x : Sent(x)' = Sent(x) /\ Reported(x)' = Reported(x)
  BY LogKept
<1>4. JournalInv'
  BY <1>1, <1>2 DEF Bound, JournalInv
<1>5. SentInv'
  BY <1>1, <1>2, <1>3 DEF Bound, SentInv
<1>6. ReportInv'
  BY <1>1, <1>2, <1>3 DEF Bound, ReportInv
<1>7. AuthorityInv'
  BY <1>1, <1>2 DEF Bound, AuthorityInv, Covered
<1>8. LedgerRuns' /\ DispatchServesOnce'
  BY <1>1, <1>2 DEF Bound, LedgerInv, LedgerRuns, UseInv, DispatchServesOnce
<1> QED BY <1>1, <1>2, <1>4, <1>5, <1>6, <1>7, <1>8

\* The marker of a run's dispatch is the one that names it, or blank.
LEMMA MarkersDiffer ==
  ASSUME TypeInv, RunInv, Bound, NEW p \in Hosts, run[p].pc \in Delivering,
         NEW q \in Hosts \ {p},
         \/ marker[run[p].dispatch] = Absent
         \/ marker[run[p].dispatch].owner = Owner(p)
         \/ run[p].pc \in {"reserving", "finalizing"}
  PROVE  /\ run[q].pc \in {"reserving", "finalizing"} => run[q].dispatch # run[p].dispatch
         /\ run[q].pc \in {"send", "sending", "sent", "record", "persist"} =>
              run[q].dispatch # run[p].dispatch
<1>1. run[q].pc \in Delivering => Owner(p) # Owner(q)
  BY EffectsDiffer
<1>2. Owner(p) # <<>> /\ Owner(q) # <<>>
  BY DEF Owner
<1>3. run[q].pc \in {"reserving", "finalizing"} => run[q].dispatch # run[p].dispatch
  <2>1. run[p].pc \in {"reserving", "finalizing"} \/ marker[run[p].dispatch] # Blank
    BY <1>2 DEF Absent, Blank
  <2> QED BY <2>1 DEF Bound, MarkerInv, MarkerRuns
<1>4. run[q].pc \in {"send", "sending", "sent", "record", "persist"} =>
        run[q].dispatch # run[p].dispatch
  <2>1. run[q].pc \in {"send", "sending", "sent", "record", "persist"} =>
          run[q].pc \in Delivering /\ marker[run[q].dispatch].owner = Owner(q)
    <3>1. run[q].pc \in {"send", "sending", "sent", "record", "persist"} =>
            \E phase : marker[run[q].dispatch] = [state |-> phase, owner |-> Owner(q)]
      BY DEF Bound, MarkerInv, MarkerRuns
    <3>2. \A phase : [state |-> phase, owner |-> Owner(q)].owner = Owner(q)
      OBVIOUS
    <3> QED BY <3>1, <3>2, Stages
  <2>2. run[p].pc \in {"reserving", "finalizing"} => marker[run[p].dispatch].owner = <<>>
    <3>1. run[p].pc \in {"reserving", "finalizing"} => marker[run[p].dispatch] = Blank
      BY DEF Bound, MarkerInv, MarkerRuns
    <3>2. Blank.owner = <<>>
      BY DEF Blank
    <3> QED BY <3>1, <3>2
  <2>3. Absent.owner = <<>>
    BY DEF Absent
  <2> QED BY <1>1, <1>2, <2>1, <2>2, <2>3
<1> QED BY <1>3, <1>4

\* A dispatch taken, or given back to be written again: its marker is blank.
LEMMA BlankStep ==
  ASSUME TypeInv, RunInv, Bound, NEW p \in Hosts,
         marker' = [marker EXCEPT ![run[p].dispatch] = Blank],
         UNCHANGED <<journal, log, ledger, uses, signed>>,
         \/ /\ run[p].pc = "reserve" /\ Go(p, "reserving") /\ marker[run[p].dispatch] = Absent
         \/ /\ run[p].pc = "finalize" /\ Go(p, "finalizing")
            /\ marker[run[p].dispatch] = [state |-> "reserved", owner |-> Owner(p)]
  PROVE  Bound'
<1> DEFINE d == run[p].dispatch
<1>1. PICK pc \in {"reserving", "finalizing"} :
        /\ Go(p, pc) /\ run[p].pc \in Delivering /\ PhaseOf[pc] = PhaseOf[run[p].pc]
        /\ pc = "reserving" => marker[d] = Absent
  BY DEF Delivering, PhaseOf
<1>2. pc \in Delivering \ {"sending", "sent", "persist"}
  BY DEF Delivering
<1>3. /\ JournalInv' /\ SentInv' /\ ReportInv' /\ AuthorityInv' /\ LedgerRuns' /\ DispatchServesOnce'
      /\ run'[p].pc = pc
      /\ \A q \in Hosts : /\ q # p => run'[q].pc = run[q].pc
                          /\ run'[q].dispatch = run[q].dispatch /\ Owner(q)' = Owner(q)
  BY <1>1, <1>2, PhaseStep
<1>4. d \in Dispatches
  BY <1>1 DEF RunInv, RunOk
<1>5. marker'[d] = Blank /\ \A x \in Dispatches \ {d} : marker'[x] = marker[x]
  BY <1>4 DEF TypeInv
<1>6. marker[d] = Absent \/ (marker[d].owner = Owner(p) /\ marker[d].state = "reserved")
  OBVIOUS
<1>7. \A q \in Hosts \ {p} :
        run[q].pc \in {"reserving", "finalizing", "send", "sending", "sent", "record", "persist"}
          => run[q].dispatch # d
  BY <1>1, <1>6, MarkersDiffer
<1>8. \A q \in Hosts : run[q].pc \in Delivering => run[q].dispatch \in Dispatches
  BY DEF RunInv, RunOk
<1> HIDE DEF d
<1>9. MarkerFiles'
  BY <1>5 DEF Bound, MarkerInv, MarkerFiles, Journalled
<1>10. MarkerRuns'
  BY <1>3, <1>5, <1>7, <1>8, Stages DEF Bound, MarkerInv, MarkerRuns, d
<1>11. UseFiles'
  <2>1. Blank # Absent /\ Blank.state # "reserved"
    BY DEF Absent, Blank
  <2>2. \A x : Used(x)' = Used(x)
    BY UsesKept
  <2> QED BY <1>5, <2>1, <2>2 DEF Bound, UseInv, UseFiles
<1>12. UseRuns'
  <2>1. pc = "reserving" => ~Used(d)
    BY <1>1, <1>4 DEF Bound, UseInv, UseFiles
  <2>2. \A x : Used(x)' = Used(x)
    BY UsesKept
  <2> QED BY <1>3, <2>1, <2>2 DEF Bound, UseInv, UseRuns, d
<1>13. LedgerFiles'
  <2>1. ConsumedKept
    <3>1. Absent.owner = <<>>
      BY DEF Absent
    <3> QED BY <1>5, <1>6, <3>1 DEF ConsumedKept
  <2>2. JournalsKept /\ \A x : Sent(x) => Sent(x)'
    BY LogKept DEF JournalsKept
  <2> QED BY <2>1, <2>2, BackedKept DEF Bound, LedgerInv, LedgerFiles
<1> QED BY <1>3, <1>9, <1>10, <1>11, <1>12, <1>13 DEF Bound, MarkerInv, UseInv, LedgerInv

\* A blank marker of this run's dispatch gets this run's name.
LEMMA NameStep ==
  ASSUME TypeInv, RunInv, Bound, NEW p \in Hosts, Reserved(p) \/ Finalized(p) PROVE Bound'
<1> DEFINE d == run[p].dispatch
<1>1. PICK pc \in {"send", "record"}, phase \in {"reserved", "consumed"} :
        /\ Go(p, pc) /\ run[p].pc \in {"reserving", "finalizing"} /\ PhaseOf[pc] = PhaseOf[run[p].pc]
        /\ pc = "send" => phase = "reserved" /\ run[p].pc = "reserving"
        /\ pc = "record" => phase = "consumed"
        /\ marker' = [marker EXCEPT ![d] = [state |-> phase, owner |-> Owner(p)]]
  BY DEF Reserved, Finalized, WriteReserved, WriteConsumed, PhaseOf
<1>2. pc \in Delivering \ {"sending", "sent", "persist"} /\ run[p].pc \in Delivering
      /\ UNCHANGED <<journal, log, ledger, uses, signed>>
  BY <1>1 DEF Delivering, Reserved, Finalized, files, Seen, Outside
<1>3. /\ JournalInv' /\ SentInv' /\ ReportInv' /\ AuthorityInv' /\ LedgerRuns' /\ DispatchServesOnce'
      /\ run'[p].pc = pc
      /\ \A q \in Hosts : /\ q # p => run'[q].pc = run[q].pc
                          /\ run'[q].dispatch = run[q].dispatch /\ Owner(q)' = Owner(q)
  BY <1>1, <1>2, PhaseStep
<1>4. d \in Dispatches
  BY <1>2 DEF RunInv, RunOk
<1>5. /\ marker'[d] = [state |-> phase, owner |-> Owner(p)]
      /\ \A x \in Dispatches \ {d} : marker'[x] = marker[x]
  BY <1>1, <1>4 DEF TypeInv
<1>6. marker[d] = Blank
  BY <1>1 DEF Bound, MarkerInv, MarkerRuns
<1>7. \A q \in Hosts \ {p} :
        run[q].pc \in {"reserving", "finalizing", "send", "sending", "sent", "record", "persist"}
          => run[q].dispatch # d
  BY <1>1, <1>2, MarkersDiffer
<1>8. \A q \in Hosts : run[q].pc \in Delivering => run[q].dispatch \in Dispatches
  BY DEF RunInv, RunOk
<1>14. Journalled(Owner(p))' /\ IdOf(run[p].effect) = Mine(p)
  <2>1. /\ IdOf(run[p].effect) = Mine(p) /\ Mine(p) \in Identities
        /\ journal[Mine(p)].effect = run[p].effect /\ journal[Mine(p)].attempt = run[p].attempt
        /\ journal[Mine(p)].phase = PhaseOf[run[p].pc]
    BY <1>2, Stages DEF RunInv, RunOk, Bound, JournalInv
  <2>2. PhaseOf[run[p].pc] # "NONE"
    BY <1>1 DEF PhaseOf
  <2>3. Owner(p)' = Owner(p) /\ Owner(p) = <<run[p].effect, run[p].attempt>>
    BY <1>3 DEF Owner
  <2> QED BY <1>2, <2>1, <2>2, <2>3 DEF Journalled
<1> HIDE DEF d
<1>9. MarkerFiles'
  <2>1. ASSUME NEW x \in Dispatches, marker'[x] \notin {Absent, Blank}
        PROVE  Journalled(marker[x].owner)'
    <3>1. CASE x = d
      <4>1. marker'[x].owner = Owner(p)'
        BY <1>3, <1>5, <3>1
      <4> QED BY <1>14, <4>1 DEF Journalled
    <3>2. CASE x # d
      BY <1>2, <1>5, <2>1, <3>2 DEF Bound, MarkerInv, MarkerFiles, Journalled
    <3> QED BY <3>1, <3>2
  <2> QED BY <2>1 DEF MarkerFiles, Absent, Blank
<1>10. MarkerRuns'
  BY <1>1, <1>3, <1>5, <1>7, <1>8, Stages DEF Bound, MarkerInv, MarkerRuns, d
<1>11. \A x : Used(x)' = Used(x)
  BY <1>2, UsesKept
<1>12. UseFiles' /\ UseRuns'
  <2>1. marker'[d] # Absent /\ (phase = "reserved" => ~Used(d))
    <3>1. Owner(p) # <<>>
      BY DEF Owner
    <3>2. phase = "reserved" => run[p].pc = "reserving"
      BY <1>1
    <3> QED BY <1>5, <3>1, <3>2 DEF Absent, Bound, UseInv, UseRuns, d
  <2>2. UseFiles'
    BY <1>2, <1>5, <1>11, <2>1 DEF Bound, UseInv, UseFiles
  <2>3. UseRuns'
    BY <1>1, <1>3, <1>11 DEF Bound, UseInv, UseRuns
  <2> QED BY <2>2, <2>3
<1>13. LedgerFiles'
  <2>1. ConsumedKept
    <3>1. Blank.owner = <<>>
      BY DEF Blank
    <3> QED BY <1>5, <1>6, <3>1 DEF ConsumedKept
  <2>2. JournalsKept /\ \A x : Sent(x) => Sent(x)'
    BY <1>2, LogKept DEF JournalsKept
  <2> QED BY <1>2, <2>1, <2>2, BackedKept DEF Bound, LedgerInv, LedgerFiles
<1> QED BY <1>3, <1>9, <1>10, <1>12, <1>13 DEF Bound, MarkerInv, UseInv, LedgerInv

\* A dispatch that this run had reserved, or had finalized, before; a send that
\* was not seen to arrive.
LEMMA KnownStep ==
  ASSUME TypeInv, RunInv, Bound, NEW p \in Hosts, UNCHANGED <<journal, log, ledger, uses, signed, marker>>,
         \/ /\ run[p].pc = "reserve" /\ Go(p, "send")
            /\ marker[run[p].dispatch] = [state |-> "reserved", owner |-> Owner(p)]
         \/ run[p].pc = "sending" /\ Go(p, "unsure")
         \/ /\ run[p].pc = "finalize" /\ Go(p, "record")
            /\ marker[run[p].dispatch] = [state |-> "consumed", owner |-> Owner(p)]
  PROVE  Bound'
<1>1. PICK pc \in {"send", "unsure", "record"} :
        /\ Go(p, pc) /\ run[p].pc \in Delivering /\ PhaseOf[pc] = PhaseOf[run[p].pc]
        /\ pc = "send" => /\ run[p].pc = "reserve"
                          /\ marker[run[p].dispatch] = [state |-> "reserved", owner |-> Owner(p)]
        /\ pc = "record" => marker[run[p].dispatch] = [state |-> "consumed", owner |-> Owner(p)]
  BY DEF Delivering, PhaseOf
<1>2. pc \in Delivering \ {"sending", "sent", "persist"}
  BY DEF Delivering
<1>3. /\ JournalInv' /\ SentInv' /\ ReportInv' /\ AuthorityInv' /\ LedgerRuns' /\ DispatchServesOnce'
      /\ run'[p].pc = pc
      /\ \A q \in Hosts : /\ q # p => run'[q].pc = run[q].pc
                          /\ run'[q].dispatch = run[q].dispatch /\ Owner(q)' = Owner(q)
  BY <1>1, <1>2, PhaseStep
<1>4. MarkerFiles' /\ MarkerRuns'
  BY <1>1, <1>3 DEF Bound, MarkerInv, MarkerFiles, MarkerRuns, Journalled
<1>5. \A x : Used(x)' = Used(x)
  BY UsesKept
<1>6. UseFiles'
  BY <1>5 DEF Bound, UseInv, UseFiles
<1>7. UseRuns'
  <2>1. pc = "send" => ~Used(run[p].dispatch)
    <3>1. SUFFICES ASSUME pc = "send" PROVE ~Used(run[p].dispatch)
      OBVIOUS
    <3>2. marker[run[p].dispatch] = [state |-> "reserved", owner |-> <<run[p].effect, run[p].attempt>>]
      BY <1>1, <3>1 DEF Owner
    <3>3. marker[run[p].dispatch].state = "reserved"
          /\ IdOf(marker[run[p].dispatch].owner[1]) = IdOf(run[p].effect)
      BY <3>2
    <3>4. journal[IdOf(run[p].effect)].phase = "INTENT" /\ run[p].dispatch \in Dispatches
      BY <1>1, <3>1 DEF RunInv, RunOk, Bound, JournalInv, PhaseOf
    <3> QED BY <3>3, <3>4 DEF Bound, UseInv, UseFiles
  <2> QED BY <1>3, <1>5, <2>1 DEF Bound, UseInv, UseRuns
<1>8. LedgerFiles'
  <2>1. ConsumedKept /\ JournalsKept /\ \A x : Sent(x) => Sent(x)'
    BY LogKept DEF ConsumedKept, JournalsKept
  <2> QED BY <2>1, BackedKept DEF Bound, LedgerInv, LedgerFiles
<1> QED BY <1>3, <1>4, <1>6, <1>7, <1>8 DEF Bound, MarkerInv, UseInv, LedgerInv

\* The effect goes out, under a dispatch that had not been used.
LEMMA SendStep ==
  ASSUME TypeInv, RunInv, Bound, NEW p \in Hosts, SendEffect(p), log' # log PROVE Bound'
<1> DEFINE d == run[p].dispatch
           e == run[p].effect
<1>1. PICK pc \in {"sent", "unsure"} :
        /\ run[p].pc = "sending" /\ Go(p, pc)
        /\ log' = Append(log, <<"sent", e>>) /\ uses' = Append(uses, <<d, e>>)
  BY DEF SendEffect, TimedOut, Seen
<1>2. UNCHANGED <<journal, ledger, signed, marker>> /\ run[p].pc \in Delivering /\ pc \in Delivering
      /\ PhaseOf[pc] = PhaseOf[run[p].pc]
  BY <1>1 DEF SendEffect, files, Outside, Delivering, PhaseOf
<1>3. \A q \in Hosts : /\ q # p => run'[q].pc = run[q].pc
                       /\ run'[q].answer = run[q].answer
                       /\ run'[q].effect = run[q].effect /\ run'[q].dispatch = run[q].dispatch
                       /\ run'[q].attempt = run[q].attempt
                       /\ Mine(q)' = Mine(q) /\ Owner(q)' = Owner(q)
                       /\ \A outcome : Entry(q, outcome)' = Entry(q, outcome)
  BY <1>1, GoFrame, MemoryFrame
<1>4. run'[p].pc = pc
  BY <1>1, GoFrame
<1>5. /\ e \in SignedEffects /\ d \in Dispatches /\ IdOf(e) = Mine(p) /\ Mine(p) \in Identities
      /\ journal[Mine(p)].effect = e /\ journal[Mine(p)].phase = "SENDING"
      /\ marker[d] = [state |-> "reserved", owner |-> Owner(p)] /\ ~Used(d) /\ ~Sent(e)
  <2>1. e \in SignedEffects /\ d \in Dispatches /\ IdOf(e) = Mine(p) /\ Mine(p) \in Identities
    BY <1>2, Stages DEF RunInv, RunOk
  <2>2. journal[Mine(p)].effect = e /\ journal[Mine(p)].phase = PhaseOf[run[p].pc]
    BY <1>2 DEF Bound, JournalInv
  <2>3. PhaseOf[run[p].pc] = "SENDING"
    BY <1>1 DEF PhaseOf
  <2>4. marker[d] = [state |-> "reserved", owner |-> Owner(p)]
    BY <1>1 DEF Bound, MarkerInv, MarkerRuns
  <2>5. ~Used(d) /\ ~Sent(e)
    BY <1>1 DEF Bound, UseInv, UseRuns, SentInv
  <2> QED BY <2>1, <2>2, <2>3, <2>4, <2>5
<1>6. \A q \in Hosts \ {p} : run[q].pc \in Delivering => run[q].effect # e
  BY <1>2, EffectsDiffer
<1> HIDE DEF d, e
<1>7. \A x : (Sent(x)' <=> Sent(x) \/ x = e) /\ (Reported(x)' <=> Reported(x))
  BY <1>1, <1>5, Logged
<1>8. /\ \A x : Used(x)' <=> Used(x) \/ x = d
      /\ DOMAIN uses' = 1..(Len(uses) + 1) /\ DOMAIN uses = 1..Len(uses) /\ Len(uses) \in Nat
      /\ uses'[Len(uses) + 1] = <<d, e>> /\ \A n \in DOMAIN uses : uses'[n] = uses[n]
  BY <1>1, <1>5, UsedMore
<1>9. JournalInv'
  BY <1>2, <1>3, <1>4 DEF Bound, JournalInv
<1>10. MarkerInv'
  <2>1. run[p].pc = "sending"
    BY <1>1
  <2> QED BY <1>2, <1>3, <1>4, <1>5, <2>1 DEF Bound, MarkerInv, MarkerFiles, MarkerRuns, Journalled, d
<1>11. UseFiles'
  <2>1. marker[d] # Absent /\ journal[IdOf(marker[d].owner[1])].phase # "INTENT"
    <3>1. marker[d].owner[1] = e
      BY <1>5 DEF Owner, e
    <3>2. Owner(p) # <<>>
      BY DEF Owner
    <3> QED BY <1>5, <3>1, <3>2 DEF Absent
  <2> QED BY <1>2, <1>8, <2>1 DEF Bound, UseInv, UseFiles
<1>12. UseRuns'
  <2>1. marker[d].owner = Owner(p)
    BY <1>5
  <2>2. \A q \in Hosts \ {p} : run[q].pc \in {"reserving", "send", "sending"} => run[q].dispatch # d
    BY <1>2, <2>1, MarkersDiffer DEF d
  <2> QED BY <1>3, <1>4, <1>8, <2>2 DEF Bound, UseInv, UseRuns
<1>13. DispatchServesOnce'
  <2>1. \A n \in DOMAIN uses : uses[n][1] # d
    BY <1>5 DEF Used
  <2>2. \A m, n \in DOMAIN uses : uses[m][1] = uses[n][1] => m = n
    BY DEF Bound, UseInv, DispatchServesOnce
  <2>3. uses'[Len(uses) + 1][1] = d
    BY <1>8
  <2> QED BY <1>8, <2>1, <2>2, <2>3 DEF DispatchServesOnce
<1>14. SentInv'
  BY <1>2, <1>3, <1>4, <1>5, <1>6, <1>7, Stages DEF Bound, SentInv, e
<1>15. ReportInv'
  BY <1>2, <1>3, <1>4, <1>7 DEF Bound, ReportInv
<1>16. LedgerInv'
  <2>1. ConsumedKept /\ JournalsKept /\ \A x : Sent(x) => Sent(x)'
    BY <1>2, <1>7 DEF ConsumedKept, JournalsKept
  <2>2. LedgerFiles'
    BY <1>2, <2>1, BackedKept DEF Bound, LedgerInv, LedgerFiles
  <2>3. LedgerRuns'
    BY <1>2, <1>3, <1>4 DEF Bound, LedgerInv, LedgerRuns
  <2> QED BY <2>2, <2>3 DEF LedgerInv
<1>17. AuthorityInv'
  <2>1. Covered(d, e) /\ \A n \in DOMAIN uses : Covered(uses[n][1], uses[n][2])
    BY <1>2 DEF Bound, AuthorityInv, d, e
  <2>2. \A x, y : Covered(x, y)' = Covered(x, y)
    BY <1>2 DEF Covered
  <2>3. \A n \in DOMAIN uses' : Covered(uses'[n][1], uses'[n][2])
    <3>1. uses'[Len(uses) + 1][1] = d /\ uses'[Len(uses) + 1][2] = e
      BY <1>8
    <3> QED BY <1>8, <2>1, <3>1
  <2>4. \A q \in Hosts : run'[q].pc \in Delivering => Covered(run'[q].dispatch, run'[q].effect)
    BY <1>2, <1>3, <1>4 DEF Bound, AuthorityInv
  <2> QED BY <1>2, <2>3, <2>4 DEF AuthorityInv, Covered
<1> QED BY <1>9, <1>10, <1>11, <1>12, <1>13, <1>14, <1>15, <1>16, <1>17 DEF Bound, UseInv

\* What the ledger takes in: a doubt, or an applied effect that its journal and its
\* dispatch bear out.
LEMMA RecordStep ==
  ASSUME TypeInv, RunInv, Bound, NEW p \in Hosts, RecordDoubt(p) \/ RecordApplied(p) PROVE Bound'
<1>1. PICK outcome \in {"AMBIGUOUS", "APPLIED"} :
        /\ Remember(p, outcome) /\ run[p].pc \in Delivering
        /\ \/ outcome = "AMBIGUOUS" /\ Finish(p)
           \/ outcome = "APPLIED" /\ run[p].pc = "record" /\ Go(p, "persist")
  BY DEF RecordDoubt, RecordApplied, Delivering
<1>2. UNCHANGED <<journal, log, uses, signed, marker>> /\ Mine(p) \in Identities
  BY <1>1, Stages DEF RecordDoubt, RecordApplied, Seen, Outside, RunInv, RunOk
<1>3. \A k \in Identities : /\ ledger[k] \subseteq ledger'[k]
                            /\ k # Mine(p) => ledger'[k] = ledger[k]
                            /\ k = Mine(p) => ledger'[k] = ledger[k] \cup {Entry(p, outcome)}
  BY <1>1, <1>2 DEF Remember, TypeInv
<1>4. (\A x : Sent(x)' = Sent(x) /\ Reported(x)' = Reported(x)) /\ \A x : Used(x)' = Used(x)
  BY <1>2, LogKept, UsesKept
<1>5. LedgerFiles'
  <2>1. \A k \in Identities : \A key : Backed(k, key) => Backed(k, key)'
    <3>1. ConsumedKept /\ JournalsKept /\ \A x : Sent(x) => Sent(x)'
      BY <1>2, <1>4 DEF ConsumedKept, JournalsKept
    <3> QED BY <3>1, BackedKept
  <2>2. outcome = "APPLIED" => Backed(Mine(p), run[p].answer.key)
    <3>1. SUFFICES ASSUME outcome = "APPLIED" PROVE Backed(Mine(p), run[p].answer.key)
      OBVIOUS
    <3>2. run[p].pc = "record"
      BY <1>1, <3>1
    <3>3. /\ journal[Mine(p)].effect = run[p].effect /\ journal[Mine(p)].attempt = run[p].attempt
          /\ journal[Mine(p)].phase = "RECEIPT"
      BY <1>1, <3>2 DEF Bound, JournalInv, PhaseOf
    <3>4. marker[run[p].dispatch] = [state |-> "consumed", owner |-> <<run[p].effect, run[p].attempt>>]
          /\ run[p].dispatch \in Dispatches /\ KeyOf(run[p].effect) = run[p].answer.key
      BY <1>1, <3>2 DEF Bound, MarkerInv, MarkerRuns, Owner, RunInv, RunOk
    <3>5. Sent(run[p].effect)
      BY <1>2, <3>3 DEF Bound, SentInv
    <3> QED BY <3>3, <3>4, <3>5 DEF Backed
  <2>3. ASSUME NEW k \in Identities, NEW entry \in ledger'[k], entry.outcome = "APPLIED"
        PROVE  Backed(k, entry.key)
    <3>1. CASE entry \in ledger[k]
      BY <2>3, <3>1 DEF Bound, LedgerInv, LedgerFiles
    <3>2. CASE k = Mine(p) /\ entry = Entry(p, outcome)
      <4>1. entry.key = run[p].answer.key /\ entry.outcome = outcome
        BY <3>2 DEF Entry
      <4> QED BY <2>2, <2>3, <3>2, <4>1
    <3> QED BY <1>3, <3>1, <3>2
  <2>4. ASSUME NEW k \in Identities, NEW entry \in ledger'[k], entry.outcome = "APPLIED"
        PROVE  Backed(k, entry.key)'
    <3>1. Backed(k, entry.key)
      BY <2>3, <2>4
    <3>2. \A key : Backed(k, key)' <=> (Backed(k, key))'
      OBVIOUS
    <3> QED BY <2>1, <3>1
  <2> QED BY <2>4 DEF LedgerFiles
<1>6. CASE outcome = "AMBIGUOUS" /\ Finish(p)
  <2>1. OthersKept(p) /\ run'[p].pc = "idle"
    BY <1>6, FinishFrame
  <2>2. \A q \in Hosts \ {p} : /\ run'[q] = run[q] /\ Mine(q)' = Mine(q) /\ Owner(q)' = Owner(q)
                               /\ \A x : Entry(q, x)' = Entry(q, x)
    BY <2>1, OthersFrame
  <2>3. run'[p].pc \notin Delivering
        /\ run'[p].pc \notin {"reserving", "finalizing", "send", "sending", "sent", "record", "persist"}
    BY <2>1, Stages
  <2>4. JournalInv' /\ SentInv'
    BY <1>2, <1>4, <2>2, <2>3 DEF Bound, JournalInv, SentInv
  <2>5. MarkerInv' /\ UseInv'
    BY <1>2, <1>4, <2>2, <2>3
       DEF Bound, MarkerInv, MarkerFiles, MarkerRuns, Journalled, UseInv, UseFiles, UseRuns, DispatchServesOnce
  <2>6. ReportInv'
    BY <1>3, <1>4, <2>2, <2>3 DEF Bound, ReportInv
  <2>7. LedgerRuns'
    <3>1. \A q \in Hosts : run[q].pc = "persist" => Mine(q) \in Identities
      BY Stages DEF RunInv, RunOk
    <3> QED BY <1>3, <2>2, <2>3, <3>1 DEF Bound, LedgerInv, LedgerRuns
  <2>8. AuthorityInv'
    BY <1>2, <2>2, <2>3 DEF Bound, AuthorityInv, Covered
  <2> QED BY <1>5, <2>4, <2>5, <2>6, <2>7, <2>8 DEF Bound, LedgerInv
<1>7. CASE outcome = "APPLIED" /\ run[p].pc = "record" /\ Go(p, "persist")
  <2>1. run'[p].pc = "persist"
    BY <1>7, GoFrame
  <2>2. \A q \in Hosts : /\ q # p => run'[q].pc = run[q].pc
                         /\ run'[q].answer = run[q].answer
                         /\ run'[q].effect = run[q].effect /\ run'[q].dispatch = run[q].dispatch
                         /\ run'[q].attempt = run[q].attempt
                         /\ Mine(q)' = Mine(q) /\ Owner(q)' = Owner(q)
                         /\ \A x : Entry(q, x)' = Entry(q, x)
    BY <1>7, GoFrame, MemoryFrame
  <2>3. PhaseOf["persist"] = PhaseOf["record"]
    BY DEF PhaseOf
  <2>4. JournalInv' /\ SentInv'
    BY <1>1, <1>2, <1>4, <1>7, <2>1, <2>2, <2>3 DEF Bound, JournalInv, SentInv
  <2>5. MarkerInv' /\ UseInv'
    BY <1>2, <1>4, <1>7, <2>1, <2>2
       DEF Bound, MarkerInv, MarkerFiles, MarkerRuns, Journalled, UseInv, UseFiles, UseRuns, DispatchServesOnce
  <2>6. ReportInv'
    BY <1>1, <1>3, <1>4, <2>1, <2>2 DEF Bound, ReportInv
  <2>7. LedgerRuns'
    <3>1. \A q \in Hosts : run[q].pc = "persist" => Mine(q) \in Identities
      BY Stages DEF RunInv, RunOk
    <3> QED BY <1>2, <1>3, <1>7, <2>1, <2>2, <3>1 DEF Bound, LedgerInv, LedgerRuns
  <2>8. AuthorityInv'
    BY <1>1, <1>2, <2>1, <2>2 DEF Bound, AuthorityInv, Covered
  <2> QED BY <1>5, <2>4, <2>5, <2>6, <2>7, <2>8 DEF Bound, LedgerInv
<1> QED BY <1>1, <1>6, <1>7

\* The delivery is reported, once: the ledger has it and no other run is about it.
LEMMA DeliverStep ==
  ASSUME TypeInv, RunInv, Bound, NEW p \in Hosts, Deliver(p) PROVE Bound'
<1> DEFINE e == run[p].effect
<1>1. /\ run[p].pc = "persist" /\ log' = Append(log, <<"reported", e>>)
      /\ OthersKept(p) /\ run'[p].pc = "idle" /\ UNCHANGED <<ledger, journal, uses, marker, signed>>
  BY FinishFrame DEF Deliver, Outside
<1>2. /\ run[p].pc \in Delivering /\ e \in SignedEffects /\ IdOf(e) = Mine(p)
      /\ Mine(p) \in Identities /\ KeyOf(e) = run[p].answer.key
  BY <1>1, Stages DEF RunInv, RunOk
<1>3. \A q \in Hosts \ {p} : /\ run'[q] = run[q] /\ Mine(q)' = Mine(q) /\ Owner(q)' = Owner(q)
                             /\ \A outcome : Entry(q, outcome)' = Entry(q, outcome)
  BY <1>1, OthersFrame
<1>4. run'[p].pc \notin Delivering
      /\ run'[p].pc \notin {"reserving", "finalizing", "send", "sending", "sent", "record", "persist"}
  BY <1>1, Stages
<1>5. \A q \in Hosts \ {p} : run[q].pc \in Delivering => run[q].effect # e
  BY <1>2, EffectsDiffer
<1> HIDE DEF e
<1>6. \A x : (Sent(x)' <=> Sent(x)) /\ (Reported(x)' <=> Reported(x) \/ x = e)
  BY <1>1, <1>2, Logged
<1>7. \A x : Used(x)' = Used(x)
  BY <1>1, UsesKept
<1>8. JournalInv' /\ AuthorityInv'
  BY <1>1, <1>3, <1>4 DEF Bound, JournalInv, AuthorityInv, Covered
<1>9. MarkerInv' /\ UseInv'
  BY <1>1, <1>3, <1>4, <1>7
     DEF Bound, MarkerInv, MarkerFiles, MarkerRuns, Journalled, UseInv, UseFiles, UseRuns, DispatchServesOnce
<1>10. SentInv'
  BY <1>1, <1>3, <1>4, <1>6 DEF Bound, SentInv
<1>11. ReportInv'
  <2>1. Applied(KeyOf(e)) \in ledger[IdOf(e)]
    <3>1. Entry(p, "APPLIED") \in ledger[Mine(p)]
      BY <1>1 DEF Bound, LedgerInv, LedgerRuns
    <3>2. Entry(p, "APPLIED") = Applied(KeyOf(e))
      BY <1>2 DEF Entry, Applied
    <3> QED BY <1>2, <3>1, <3>2
  <2> QED BY <1>1, <1>2, <1>3, <1>4, <1>5, <1>6, <2>1 DEF Bound, ReportInv
<1>12. LedgerInv'
  <2>1. ConsumedKept /\ JournalsKept /\ \A x : Sent(x) => Sent(x)'
    BY <1>1, <1>6 DEF ConsumedKept, JournalsKept
  <2>2. LedgerFiles'
    BY <1>1, <2>1, BackedKept DEF Bound, LedgerInv, LedgerFiles
  <2> QED BY <1>1, <1>3, <1>4, <2>2 DEF Bound, LedgerInv, LedgerRuns
<1> QED BY <1>8, <1>9, <1>10, <1>11, <1>12 DEF Bound

\* A dispatch that another command takes is nobody's else.
LEMMA ElsewhereStep ==
  ASSUME TypeInv, RunInv, Bound, ConsumeElsewhere PROVE Bound'
<1>1. PICK d \in Dispatches :
        /\ Authorizes(signed[d], signed[d].effect, d \in expired, custom)
        /\ ConsumeOnce(d) /\ uses' = Append(uses, <<d, signed[d].effect>>)
  BY DEF ConsumeElsewhere
<1> DEFINE e == signed[d].effect
<1>2. UNCHANGED <<journal, ledger, signed, log, run>>
  BY DEF ConsumeElsewhere, files
<1>3. /\ marker[d] = Absent /\ marker'[d] = Blank
      /\ \A x \in Dispatches \ {d} : marker'[x] = marker[x]
  BY <1>1 DEF ConsumeOnce, TypeInv
<1>4. e \in SignedEffects /\ Covered(d, e)
  BY <1>1, ElsewhereIsCovered DEF TypeInv, SignedEffects
<1>5. \A q \in Hosts : /\ Mine(q)' = Mine(q) /\ Owner(q)' = Owner(q) /\ Owner(q) # <<>>
                       /\ \A outcome : Entry(q, outcome)' = Entry(q, outcome)
                       /\ run[q].pc \in Delivering => run[q].dispatch \in Dispatches
  BY <1>2 DEF Mine, Owner, Entry, RunInv, RunOk
<1> HIDE DEF e
<1>6. /\ \A x : Used(x)' <=> Used(x) \/ x = d
      /\ DOMAIN uses' = 1..(Len(uses) + 1) /\ DOMAIN uses = 1..Len(uses) /\ Len(uses) \in Nat
      /\ uses'[Len(uses) + 1] = <<d, e>> /\ \A n \in DOMAIN uses : uses'[n] = uses[n]
  BY <1>1, <1>4, UsedMore DEF e
<1>7. ~Used(d) /\ Blank # Absent /\ Blank.state # "reserved" /\ Absent.owner = <<>> /\ Absent.state = "absent"
  BY <1>3 DEF Bound, UseInv, UseFiles, Absent, Blank
<1>8. \A q \in Hosts :
        run[q].pc \in {"reserving", "finalizing", "send", "sending", "sent", "record", "persist"}
          => run[q].dispatch # d
  <2>1. \A q \in Hosts : run[q].pc \in {"send", "sending", "sent", "record", "persist"} =>
          \E phase : marker[run[q].dispatch] = [state |-> phase, owner |-> Owner(q)]
    BY DEF Bound, MarkerInv, MarkerRuns
  <2>2. \A q \in Hosts : \A phase : [state |-> phase, owner |-> Owner(q)].owner = Owner(q)
    OBVIOUS
  <2>3. \A q \in Hosts : run[q].pc \in {"reserving", "finalizing"} => marker[run[q].dispatch] = Blank
    BY DEF Bound, MarkerInv, MarkerRuns
  <2>4. \A q \in Hosts : run[q].pc \in {"send", "sending", "sent", "record", "persist"} =>
          marker[run[q].dispatch].owner = Owner(q)
    BY <2>1, <2>2
  <2>5. \A q \in Hosts : run[q].pc \in {"send", "sending", "sent", "record", "persist"} =>
          run[q].dispatch # d
    BY <1>3, <1>5, <1>7, <2>4
  <2>6. \A q \in Hosts : run[q].pc \in {"reserving", "finalizing"} => run[q].dispatch # d
    BY <1>3, <1>7, <2>3
  <2> QED BY <2>5, <2>6
<1>9. \A x : Sent(x)' = Sent(x) /\ Reported(x)' = Reported(x)
  BY <1>2, LogKept
<1>10. JournalInv' /\ SentInv' /\ ReportInv'
  BY <1>2, <1>5, <1>9 DEF Bound, JournalInv, SentInv, ReportInv
<1>11. MarkerInv'
  BY <1>2, <1>3, <1>5, <1>8, Stages DEF Bound, MarkerInv, MarkerFiles, MarkerRuns, Journalled
<1>12. UseFiles' /\ UseRuns'
  BY <1>2, <1>3, <1>6, <1>7, <1>8 DEF Bound, UseInv, UseFiles, UseRuns
<1>13. DispatchServesOnce'
  <2>1. \A n \in DOMAIN uses : uses[n][1] # d
    BY <1>7 DEF Used
  <2>2. \A m, n \in DOMAIN uses : uses[m][1] = uses[n][1] => m = n
    BY DEF Bound, UseInv, DispatchServesOnce
  <2>3. uses'[Len(uses) + 1][1] = d
    BY <1>6
  <2> QED BY <1>6, <2>1, <2>2, <2>3 DEF DispatchServesOnce
<1>14. LedgerInv'
  <2>1. ConsumedKept /\ JournalsKept /\ \A x : Sent(x) => Sent(x)'
    BY <1>2, <1>3, <1>7, <1>9 DEF ConsumedKept, JournalsKept
  <2>2. LedgerFiles'
    BY <1>2, <2>1, BackedKept DEF Bound, LedgerInv, LedgerFiles
  <2> QED BY <1>2, <1>5, <2>2 DEF Bound, LedgerInv, LedgerRuns
<1>15. AuthorityInv'
  <2>1. \A n \in DOMAIN uses : Covered(uses[n][1], uses[n][2])
    BY DEF Bound, AuthorityInv
  <2>2. uses'[Len(uses) + 1][1] = d /\ uses'[Len(uses) + 1][2] = e
    BY <1>6
  <2>3. \A n \in DOMAIN uses' : Covered(uses'[n][1], uses'[n][2])
    BY <1>4, <1>6, <2>1, <2>2
  <2> QED BY <1>2, <2>3 DEF Bound, AuthorityInv, Covered
<1> QED BY <1>10, <1>11, <1>12, <1>13, <1>14, <1>15 DEF Bound, UseInv

\* Every action of a run, or of the rest of the world, is a step of these kinds.
LEMMA BoundStep == TypeInv /\ RunInv /\ RunInv' /\ Bound /\ [Next]_vars => Bound'
<1> SUFFICES ASSUME TypeInv, RunInv, RunInv', Bound, [Next]_vars PROVE Bound'
  OBVIOUS
<1> USE DEF Seen, files, Outside
<1>1. ASSUME NEW p \in Hosts, Finish(p), UNCHANGED <<ledger, journal, log, uses, marker, signed>>
      PROVE  Bound'
  BY <1>1, FinishFrame, Stages, StopStep DEF OthersKept
<1>2. ASSUME NEW p \in Hosts, Start(p) \/ EvaluateLocked(p) \/ Recollect(p) PROVE Bound'
  <2>1. UNCHANGED <<ledger, journal, log, uses, marker, signed>>
    BY <1>2 DEF Start, EvaluateLocked, Recollect
  <2>2. CASE Finish(p)
    BY <1>1, <2>1, <2>2
  <2>3. CASE ~Finish(p)
    <3>1. PICK r : run' = [run EXCEPT ![p] = r] /\ r.pc \in {"idle", "collected", "typed", "agreed"}
      <4>1. CASE Start(p)
        <5>1. run' = [run EXCEPT ![p] = [run[p] EXCEPT !.pc = "collected", !.seen = facts]]
          BY <4>1 DEF Start
        <5>2. [run[p] EXCEPT !.pc = "collected", !.seen = facts].pc = "collected"
          <6>1. IsRun(run[p])
            BY DEF TypeInv
          <6>2. [run[p] EXCEPT !.pc = "collected", !.seen = facts] =
                  [pc |-> "collected", seen |-> facts, answer |-> run[p].answer,
                   effect |-> run[p].effect, dispatch |-> run[p].dispatch, attempt |-> run[p].attempt]
            BY <6>1, SeenUpdate
          <6> QED BY <6>2
        <5> QED BY <5>1, <5>2
      <4>2. CASE EvaluateLocked(p)
        <5>1. \/ run' = [run EXCEPT ![p] = Idle]
              \/ \E a : run' = [run EXCEPT ![p] = [run[p] EXCEPT !.pc = "typed", !.answer = a]]
          BY <4>2, Zenon DEF EvaluateLocked
        <5>2. \A a : [run[p] EXCEPT !.pc = "typed", !.answer = a].pc = "typed"
          <6>1. IsRun(run[p])
            BY DEF TypeInv
          <6>2. \A a : [run[p] EXCEPT !.pc = "typed", !.answer = a] =
                  [pc |-> "typed", seen |-> run[p].seen, answer |-> a,
                   effect |-> run[p].effect, dispatch |-> run[p].dispatch, attempt |-> run[p].attempt]
            BY <6>1, AnswerUpdate
          <6> QED BY <6>2
        <5>3. Idle.pc = "idle"
          BY DEF Idle
        <5> QED BY <5>1, <5>2, <5>3
      <4>3. CASE Recollect(p)
        <5>1. run' = [run EXCEPT ![p] = [run[p] EXCEPT !.pc = "agreed", !.seen = facts]]
          BY <2>3, <4>3 DEF Recollect
        <5>2. [run[p] EXCEPT !.pc = "agreed", !.seen = facts].pc = "agreed"
          <6>1. IsRun(run[p])
            BY DEF TypeInv
          <6>2. [run[p] EXCEPT !.pc = "agreed", !.seen = facts] =
                  [pc |-> "agreed", seen |-> facts, answer |-> run[p].answer,
                   effect |-> run[p].effect, dispatch |-> run[p].dispatch, attempt |-> run[p].attempt]
            BY <6>1, SeenUpdate
          <6> QED BY <6>2
        <5> QED BY <5>1, <5>2
      <4> QED BY <1>2, <4>1, <4>2, <4>3
    <3>2. run'[p].pc \notin Delivering /\ OthersKept(p)
      BY <3>1, Stages DEF TypeInv, OthersKept
    <3> QED BY <2>1, <3>2, StopStep DEF OthersKept
  <2> QED BY <2>2, <2>3
<1>3. ASSUME NEW p \in Hosts, LockHeld(p) \/ SettledBefore(p) \/ Denied(p) \/ Crash(p) PROVE Bound'
  BY <1>1, <1>3 DEF LockHeld, SettledBefore, Denied, Crash
<1>4. ASSUME NEW p \in Hosts, Reserve(p) PROVE Bound'
  <2>1. UNCHANGED <<ledger, journal, log, uses, signed>> /\ run[p].pc = "reserve"
    BY <1>4 DEF Reserve
  <2>2. run[p].dispatch \in Dispatches
    BY <2>1 DEF RunInv, RunOk, Delivering
  <2>3. /\ ReserveAnswer(run[p].dispatch, Owner(p)) = "free" => marker[run[p].dispatch] = Absent
        /\ ReserveAnswer(run[p].dispatch, Owner(p)) = "owned_reserved" =>
             /\ marker[run[p].dispatch] # Absent /\ marker[run[p].dispatch].owner = Owner(p)
             /\ marker[run[p].dispatch].state # "consumed"
    BY DEF ReserveAnswer, BindingMatches
  <2>4. ReserveAnswer(run[p].dispatch, Owner(p)) = "owned_reserved" =>
          marker[run[p].dispatch] = [state |-> "reserved", owner |-> Owner(p)]
    <3>1. marker[run[p].dispatch] \in DispatchRecords(SignedEffects \X Nat)
      BY <2>2 DEF TypeInv
    <3>2. Blank.state = "consumed"
      BY DEF Blank
    <3>3. \A m \in DispatchRecords(SignedEffects \X Nat) :
            m # Absent /\ m.state # "consumed" => m = [state |-> "reserved", owner |-> m.owner]
      BY <3>2 DEF DispatchRecords
    <3> QED BY <2>3, <3>1, <3>3
  <2>5. CASE /\ ReserveAnswer(run[p].dispatch, Owner(p)) = "free" /\ CreateMarker(run[p].dispatch)
             /\ Go(p, "reserving")
    BY <2>1, <2>3, <2>5, BlankStep DEF CreateMarker
  <2>6. CASE /\ ReserveAnswer(run[p].dispatch, Owner(p)) = "owned_reserved" /\ Go(p, "send")
             /\ marker' = marker
    BY <2>1, <2>4, <2>6, KnownStep
  <2>7. CASE Finish(p) /\ marker' = marker
    BY <1>1, <2>1, <2>7
  <2> QED BY <1>4, <2>5, <2>6, <2>7 DEF Reserve
<1>5. ASSUME NEW p \in Hosts, Finalize(p) PROVE Bound'
  <2>1. UNCHANGED <<ledger, journal, log, uses, signed>> /\ run[p].pc = "finalize"
    BY <1>5 DEF Finalize
  <2>2. run[p].dispatch \in Dispatches /\ Owner(p) # <<>>
    BY <2>1 DEF RunInv, RunOk, Delivering, Owner
  <2>3. /\ FinalizeAnswer(run[p].dispatch, Owner(p)) \in {"empty", "ok"} =>
             marker[run[p].dispatch] # Absent /\ marker[run[p].dispatch].owner = Owner(p)
        /\ FinalizeAnswer(run[p].dispatch, Owner(p)) = "empty" =>
             marker[run[p].dispatch].state # "consumed"
        /\ FinalizeAnswer(run[p].dispatch, Owner(p)) = "ok" =>
             marker[run[p].dispatch].state = "consumed"
    BY DEF FinalizeAnswer, BindingMatches
  <2>4. FinalizeAnswer(run[p].dispatch, Owner(p)) \in {"empty", "ok"} =>
          marker[run[p].dispatch] = [state |-> IF FinalizeAnswer(run[p].dispatch, Owner(p)) = "empty"
                                               THEN "reserved" ELSE "consumed",
                                     owner |-> Owner(p)]
    <3>1. marker[run[p].dispatch] \in DispatchRecords(SignedEffects \X Nat)
      BY <2>2 DEF TypeInv
    <3>2. Blank.owner = <<>>
      BY DEF Blank
    <3>3. \A m \in DispatchRecords(SignedEffects \X Nat) :
            m # Absent /\ m # Blank => m = [state |-> m.state, owner |-> m.owner]
                                       /\ m.state \in {"reserved", "consumed"}
      BY DEF DispatchRecords
    <3> QED BY <2>2, <2>3, <3>1, <3>2, <3>3
  <2>5. CASE /\ FinalizeAnswer(run[p].dispatch, Owner(p)) = "empty" /\ TruncateMarker(run[p].dispatch)
             /\ Go(p, "finalizing")
    BY <2>1, <2>4, <2>5, BlankStep DEF TruncateMarker
  <2>6. CASE /\ FinalizeAnswer(run[p].dispatch, Owner(p)) = "ok" /\ Go(p, "record")
             /\ marker' = marker
    BY <2>1, <2>4, <2>6, KnownStep
  <2>7. CASE Finish(p) /\ marker' = marker
    BY <1>1, <2>1, <2>7
  <2> QED BY <1>5, <2>5, <2>6, <2>7 DEF Finalize
<1>6. ASSUME NEW p \in Hosts, SendEffect(p) PROVE Bound'
  <2>1. CASE log' # log
    BY <1>6, <2>1, SendStep
  <2>2. CASE log' = log
    <3>1. TimedOut(p)
      <4>1. log \in Seq({"sent", "reported"} \X SignedEffects)
            /\ <<"sent", run[p].effect>> \in {"sent", "reported"} \X SignedEffects
        BY <1>6 DEF TypeInv, SendEffect, RunInv, RunOk, Delivering
      <4>2. Append(log, <<"sent", run[p].effect>>) # log
        BY <4>1, AppendProperties
      <4> QED BY <1>6, <2>2, <4>2 DEF SendEffect
    <3> QED BY <1>6, <3>1, KnownStep DEF SendEffect, TimedOut
  <2> QED BY <2>1, <2>2
<1>7. ASSUME NEW p \in Hosts, Deliveries(p) PROVE Bound'
  BY <1>4, <1>5, <1>6, <1>7, NameStep, CommitStep, RecordStep, DeliverStep DEF Deliveries
<1>8. ASSUME NEW p \in Hosts, Decide(p) PROVE Bound'
  BY <1>3, <1>8, ConflictStep, ExecuteStep DEF Decide
<1>9. CASE Move \/ Expire \/ UNCHANGED vars
  <2>1. UNCHANGED <<ledger, journal, log, uses, marker, signed, run>>
    BY <1>9 DEF Move, Expire, vars
  <2> QED BY <2>1, StopStep
<1> QED BY <1>2, <1>3, <1>7, <1>8, <1>9, ElsewhereStep DEF Next

\* A state that believes in a typed result has it from a run that delivered it, or
\* found it delivered.
LEMMA WakeStep == TypeInv /\ RunInv /\ Bound /\ NoSilentWake /\ [Next]_vars => NoSilentWake'
<1> SUFFICES ASSUME TypeInv, RunInv, Bound, NoSilentWake, [Next]_vars PROVE NoSilentWake'
  OBVIOUS
<1> DEFINE Earned(key, entries) ==
             key # <<>> /\ key[2] \in TypedResults => [key |-> key, outcome |-> "APPLIED"] \in entries
<1>0. \A i \in Identities : Earned(st[i].key, ledger[i])
  BY DEF NoSilentWake
<1> SUFFICES \A i \in Identities : Earned(st'[i].key, ledger'[i])
  BY DEF NoSilentWake
<1> USE DEF files
<1>1. \A i \in Identities : ledger[i] \subseteq ledger'[i]
  <2>1. ledger' = ledger \/ \E p \in Hosts : RecordDoubt(p) \/ RecordApplied(p)
    BY DEF Next, Start, LockHeld, EvaluateLocked, Recollect, Decide, SettledBefore, Denied, Conflicts,
           Execute, Deliveries, Reserve, Reserved, BeginSend, SendEffect, Doubt, Receive, Finalize,
           Finalized, Deliver, Crash, Move, Expire, ConsumeElsewhere, vars
  <2>2. ASSUME NEW p \in Hosts, RecordDoubt(p) \/ RecordApplied(p)
        PROVE  \A i \in Identities : ledger[i] \subseteq ledger'[i]
    <3>1. PICK entry : ledger' = [ledger EXCEPT ![Mine(p)] = ledger[Mine(p)] \cup {entry}]
      BY <2>2 DEF RecordDoubt, RecordApplied, Remember
    <3> QED BY <3>1 DEF TypeInv
  <2> QED BY <2>1, <2>2
<1>2. CASE st' = st
  BY <1>0, <1>1, <1>2
<1>3. ASSUME NEW p \in Hosts, EvaluateLocked(p), st' # st PROVE \A i \in Identities : Earned(st'[i].key, ledger'[i])
  <2> DEFINE k == Identity(run[p].seen)
             a == Evaluate(run[p].seen, [class |-> WatchClass, rev |-> 0, at |-> 1], st[k])
  <2>1. a.result \notin TypedResults /\ st' = [st EXCEPT ![k] = a.state]
    BY <1>3 DEF EvaluateLocked, Keep
  <2>2. a.state.key = st[k].key \/ (a.state.key # <<>> /\ a.state.key[2] \notin TypedResults)
    BY <2>1, EvaluateAnswer
  <2> HIDE DEF k, a
  <2> QED BY <1>0, <1>1, <2>1, <2>2 DEF TypeInv
<1>4. ASSUME NEW p \in Hosts, SettledBefore(p) \/ Deliver(p), st' # st
      PROVE  \A i \in Identities : Earned(st'[i].key, ledger'[i])
  <2>1. /\ st' = [st EXCEPT ![Mine(p)] = run[p].answer.state] /\ run[p].pc \in Held
        /\ Entry(p, "APPLIED") \in ledger[Mine(p)]
    BY <1>4 DEF SettledBefore, Deliver, Bound, LedgerInv, LedgerRuns, Held
  <2>2. run[p].answer.state.key = run[p].answer.key /\ Mine(p) \in Identities
    BY <2>1 DEF RunInv, RunOk
  <2>3. Earned(run[p].answer.state.key, ledger[Mine(p)])
    BY <2>1, <2>2 DEF Entry
  <2> QED BY <1>0, <1>1, <2>1, <2>2, <2>3 DEF TypeInv
<1>5. st' = st \/ \E p \in Hosts : EvaluateLocked(p) \/ SettledBefore(p) \/ Deliver(p)
  BY DEF Next, Start, LockHeld, Recollect, Decide, Denied, Conflicts,
         Execute, Deliveries, Reserve, Reserved, BeginSend, SendEffect, Doubt, RecordDoubt, Receive,
         Finalize, Finalized, RecordApplied, Crash, Move, Expire, ConsumeElsewhere, vars
<1> QED BY <1>2, <1>3, <1>4, <1>5

(***************************************************************************)
(* Theorems                                                                *)
(***************************************************************************)
LEMMA Invariance == Spec => [](TypeInv /\ IInv)
<1>1. Init => TypeInv /\ IInv
  BY TypeInit
<1>2. TypeInv /\ IInv /\ [Next]_vars => (TypeInv /\ IInv)'
  <2>1. IInv <=> RunInv /\ Bound /\ NoSilentWake
    BY DEF IInv, Bound
  <2>2. IInv' <=> RunInv' /\ Bound' /\ NoSilentWake'
    BY DEF IInv, Bound
  <2> QED BY <2>1, <2>2, TypeStep, RunStep, BoundStep, WakeStep
<1> QED BY <1>1, <1>2, PTL DEF Spec

\* Every file holds what its reader accepts, and a run past its evaluation has the lock
\* of its watch, through crashes at any step.
THEOREM Types == Spec => []TypeOK
<1>1. TypeInv /\ IInv => TypeOK
  <2> SUFFICES ASSUME TypeInv, IInv PROVE TypeOK
    OBVIOUS
  <2>1. \A d \in Dispatches :
          marker[d] \notin {Absent, Blank} => marker[d].owner \in SignedEffects \X Nat
    <3>1. \A m \in DispatchRecords(SignedEffects \X Nat) :
            m \notin {Absent, Blank} => m.owner \in SignedEffects \X Nat
      BY DEF DispatchRecords
    <3> QED BY <3>1 DEF TypeInv
  <2>2. \A i \in Identities : journal[i].phase \in Phases
    <3>1. \A j \in Journals : j.phase \in Phases
      BY DEF Journals
    <3> QED BY <3>1 DEF TypeInv
  <2>3. \A p \in Hosts :
          run[p].pc \notin {"idle", "collected"} => run[p].pc \in Held /\ lock[Mine(p)] = p
    BY DEF IInv, RunInv, RunOk
  <2> QED BY <2>1, <2>2, <2>3 DEF TypeOK, TypeInv
<1> QED BY <1>1, Invariance, PTL

\* A dispatch is used once, whether a run reserves it or another command consumes it
\* (reserve_dispatch, consume_dispatch_once).
THEOREM ServesOnce == Spec => []DispatchServesOnce
<1>1. IInv => DispatchServesOnce
  BY DEF IInv, UseInv
<1> QED BY <1>1, Invariance, PTL

\* A watch state is borne out by the ledger, the ledger by the journal and a consumed
\* dispatch, whatever the step at which a run died.
THEOREM BorneOut == Spec => []RecordsAreBorneOut
<1>1. IInv => RecordsAreBorneOut
  <2> SUFFICES ASSUME IInv PROVE AppliedIsFinal /\ NoSilentWake
    BY DEF RecordsAreBorneOut
  <2>1. AppliedIsFinal
    BY DEF IInv, LedgerInv, LedgerFiles, Backed, AppliedIsFinal, KeyOf, Sent
  <2> QED BY <2>1 DEF IInv
<1> QED BY <1>1, Invariance, PTL

\* What is sent had a dispatch that the built-in profiles and approvals cover, whatever
\* profiles a repository declares.
THEOREM NotWidened == Spec => []AuthorityIsNotWidened
<1>1. IInv => AuthorityIsNotWidened
  BY DEF IInv, AuthorityInv, AuthorityIsNotWidened, Covered
<1> QED BY <1>1, Invariance, PTL

\* The host implements what it promises its owner: each step sends a signed effect
\* that was never sent, or reports one that was sent and never reported, or neither.
THEOREM SendsOnce == Spec => AtMostOnce
<1>1. Init => Contract!Init
  BY DEF Init, Contract!Init
<1>2. TypeInv /\ IInv /\ [Next]_vars => [Contract!Next]_log
  <2> SUFFICES ASSUME TypeInv, IInv, [Next]_vars, log' # log PROVE Contract!Next
    OBVIOUS
  <2>1. PICK p \in Hosts : SendEffect(p) \/ Deliver(p)
    BY DEF Next, Start, LockHeld, EvaluateLocked, Recollect, Decide, SettledBefore, Denied, Conflicts,
           Execute, Deliveries, Reserve, Reserved, BeginSend, Doubt, RecordDoubt, Receive,
           Finalize, Finalized, RecordApplied, Crash, Move, Expire, ConsumeElsewhere, Seen, vars
  <2>2. CASE SendEffect(p)
    <3>1. run[p].pc = "sending" /\ log' = Append(log, <<"sent", run[p].effect>>)
      BY <2>2 DEF SendEffect, TimedOut, Seen
    <3>2. ~Sent(run[p].effect)
      BY <3>1 DEF IInv, SentInv
    <3>3. run[p].effect \in SignedEffects
      BY <3>1, Stages DEF IInv, RunInv, RunOk
    <3> QED BY <3>1, <3>2, <3>3 DEF Contract!Next, Contract!Send, Sent
  <2>3. CASE Deliver(p)
    <3>1. run[p].pc = "persist" /\ log' = Append(log, <<"reported", run[p].effect>>)
      BY <2>3 DEF Deliver
    <3>2. run[p].effect \in SignedEffects /\ Mine(p) \in Identities
      BY <3>1, Stages DEF IInv, RunInv, RunOk
    <3>3. ~Reported(run[p].effect) /\ Sent(run[p].effect)
      BY <3>1, <3>2, Stages DEF IInv, ReportInv, SentInv, JournalInv, PhaseOf
    <3> QED BY <3>1, <3>2, <3>3 DEF Contract!Next, Contract!Report, Sent, Reported
  <2> QED BY <2>1, <2>2, <2>3
<1> QED BY <1>1, <1>2, Invariance, PTL DEF Spec, AtMostOnce, Contract!Spec
=============================================================================
