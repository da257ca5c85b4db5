------------------------------ MODULE Planner ------------------------------
(***************************************************************************)
(* The planner of tools/coordinator.py: facts about one Work Packet in, one*)
(* decision out. A payload is a function from some of the Sections to their*)
(* parsed values; NormalizeFacts supplies what a missing section means.    *)
(* Texts that decide nothing (workstream, condition, kind) are left out.   *)
(***************************************************************************)
EXTENDS Naturals, Sequences

CONSTANTS
  Revisions,   \* intent revisions
  Heads,       \* exact Git heads
  Counts       \* values of the counters of failures and retries

ASSUME PlannerAssumption ==
  /\ Revisions \subseteq Nat \ {0} /\ Counts \subseteq Nat
  /\ "UNKNOWN" \notin Heads /\ "NONE" \notin Heads

ActiveWorkerStatuses == {"CLAIMED", "ACTIVE", "WAIT", "YIELD", "RETRY"}
PacketStatuses == {"ACTIVE", "PAUSED", "BLOCKED", "COMPLETE"}
Tri == {"YES", "NO", "UNKNOWN"}               \* true, false and None
HeadOrUnknown == Heads \cup {"UNKNOWN"}
MaybeRevision == Revisions \cup {0}           \* 0: None

(***************************************************************************)
(* The sections of the facts, as their parsers return them                 *)
(***************************************************************************)
\* {"UNKNOWN"} stands for dependencies that are not listed.
Packet == [status: PacketStatuses, rev: Revisions, risk: {"NORMAL", "HIGH"},
           deps: {{"UNKNOWN"}} \cup SUBSET PacketStatuses]
Worker ==
  LET absent == [present |-> FALSE, status |-> "NONE", rev |-> 0, progress |-> FALSE]
      statuses == ActiveWorkerStatuses \cup {"COMPLETE", "ABANDON", "SUPERSEDED", "RELEASED"}
  IN  {absent} \cup [present: {TRUE}, status: statuses, rev: Revisions, progress: BOOLEAN]
Git == [head: HeadOrUnknown, dirty: Tri, unpushed: Tri, yielded: BOOLEAN]
Resource == {"PASS", "WARN", "BLOCK", "UNKNOWN"}
Admission == {"ALLOW", "DENY", "DENY HOST_BUDGET", "UNKNOWN"}
Mutation == [ambiguous: BOOLEAN]
Failure == [class: {"NONE", "TRANSIENT", "SEMANTIC", "RESOURCE", "AUTHORITY",
                    "AMBIGUOUS_MUTATION", "HUMAN_REQUIRED"}, identical: Counts]
Publication == [audit: {"UNKNOWN", "PASS", "FAIL"}, rev: MaybeRevision]
PR ==
  LET none == [exists |-> FALSE, state |-> "NONE", head |-> "UNKNOWN", mergeable |-> "UNKNOWN"]
  IN  {none} \cup [exists: {TRUE}, state: {"OPEN", "MERGED", "CLOSED"},
                   head: HeadOrUnknown, mergeable: Tri]
CI == [state: {"UNKNOWN", "PENDING", "PASS", "FAIL"}, head: HeadOrUnknown]
Review == [actionable: Tri, state: {"UNKNOWN", "OPEN", "CLEAR"}, head: HeadOrUnknown]
Wait == [external: BOOLEAN, count: Counts, budget: Counts]
Gates == {"NOT_REQUIRED", "PENDING", "AUTHORIZED"}

Facts == [packet: Packet, worker: Worker, git: Git, resource: Resource,
          admission: Admission, mutation: Mutation, failure: Failure,
          publication: Publication, pr: PR, ci: CI, review: Review,
          wait: Wait, gates: Gates]
Sections == {"worker", "git", "resource", "admission", "mutation", "failure",
             "publication", "pr", "ci", "review", "wait", "gates"}

\* What a missing section is read as. Only a packet is required.
Missing ==
  [worker |-> [present |-> FALSE, status |-> "NONE", rev |-> 0, progress |-> FALSE],
   git |-> [head |-> "UNKNOWN", dirty |-> "UNKNOWN", unpushed |-> "UNKNOWN", yielded |-> FALSE],
   resource |-> "UNKNOWN", admission |-> "UNKNOWN", mutation |-> [ambiguous |-> FALSE],
   failure |-> [class |-> "NONE", identical |-> 0],
   publication |-> [audit |-> "UNKNOWN", rev |-> 0],
   pr |-> [exists |-> FALSE, state |-> "NONE", head |-> "UNKNOWN", mergeable |-> "UNKNOWN"],
   ci |-> [state |-> "UNKNOWN", head |-> "UNKNOWN"],
   review |-> [actionable |-> "UNKNOWN", state |-> "UNKNOWN", head |-> "UNKNOWN"],
   wait |-> [external |-> FALSE, count |-> 0, budget |-> 3], gates |-> "NOT_REQUIRED"]

NormalizeFacts(payload) ==
  [s \in Sections \cup {"packet"} |-> IF s \in DOMAIN payload THEN payload[s] ELSE Missing[s]]

(***************************************************************************)
(* The decision                                                            *)
(***************************************************************************)
\* The code's chains of "if ...: return ...": the first rule that applies.
FirstOf(rules) ==
  rules[CHOOSE i \in DOMAIN rules : rules[i][1] /\ \A j \in 1..(i - 1) : ~rules[j][1]][2]

SubjectVersion(f) == FirstOf(<<
  <<f.pr.head # "UNKNOWN", f.pr.head>>, <<f.ci.head # "UNKNOWN", f.ci.head>>,
  <<f.git.head # "UNKNOWN", f.git.head>>, <<TRUE, "NONE">>>>)

DependenciesEligible(packet) == packet.deps \subseteq {"COMPLETE"}
ActiveWorker(f) == f.worker.status \in ActiveWorkerStatuses /\ f.worker.rev = f.packet.rev
StaleWorker(f) == f.worker.status \in ActiveWorkerStatuses /\ f.worker.rev # f.packet.rev
Audited(f) == f.publication = [audit |-> "PASS", rev |-> f.packet.rev]

AuditOrAuthorize(f) == FirstOf(<<
  <<f.publication.audit = "FAIL", "REPLAN_SEMANTIC_FAILURE">>,
  <<Audited(f), "AUTHORIZE_PUBLICATION">>,
  <<TRUE, "AUDIT_DIRTY_TREE">>>>)

ExactTree(f) == f.pr.head \in Heads /\ f.git.head = f.pr.head
CIOfSomeHead(f) == f.ci.head \in Heads
CIExact(f) == f.ci.head = f.pr.head
ReviewNotOpen(f) == f.review.actionable # "YES" /\ f.review.head \in {f.pr.head, "UNKNOWN"}
ReviewClear(f) == f.review = [actionable |-> "NO", state |-> "CLEAR", head |-> f.pr.head]

PRPipeline(f) == FirstOf(<<
  <<f.pr.state # "OPEN", "WAIT_EXTERNAL">>,
  <<~ExactTree(f), "WAIT_EXACT_HEAD_CI">>,
  <<f.ci.state = "FAIL" /\ CIExact(f), "REPLAN_SEMANTIC_FAILURE">>,
  <<f.ci.state # "PASS" \/ ~CIExact(f), "WAIT_EXACT_HEAD_CI">>,
  <<~ReviewClear(f), "AUDIT_REVIEW">>,
  <<f.git.dirty # "NO", "AUDIT_DIRTY_TREE">>,
  <<f.git.unpushed # "NO", "WAIT_EXTERNAL">>,
  <<f.gates = "PENDING", "WAIT_EXTERNAL">>,
  <<f.packet.risk = "HIGH" /\ ~Audited(f), "WAIT_EXTERNAL">>,
  <<f.pr.mergeable # "YES", "WAIT_EXTERNAL">>,
  <<TRUE, "MERGE_READY">>>>)

ImplementationPath(f) ==
  LET implementing == ActiveWorker(f) /\ ~f.git.yielded
  IN  FirstOf(<<
  <<f.git.dirty = "YES" /\ ~implementing, AuditOrAuthorize(f)>>,
  <<f.git.yielded, AuditOrAuthorize(f)>>,
  <<implementing /\ f.worker.progress, "RESUME_WORKER">>,
  <<implementing, "WAIT_EXTERNAL">>,
  <<f.git.dirty = "UNKNOWN" \/ f.git.unpushed = "UNKNOWN", "WAIT_EXTERNAL">>,
  <<f.git.dirty = "NO" /\ f.resource \in {"PASS", "WARN"} /\ f.admission = "ALLOW",
    "ADMIT_IMPLEMENTATION">>,
  <<TRUE, "WAIT_EXTERNAL">>>>)

ResourceBlocked(f) ==
  f.resource = "BLOCK" \/ f.failure.class = "RESOURCE" \/ f.admission = "DENY HOST_BUDGET"

TransientDecision(f) == IF f.wait.count < f.wait.budget THEN "WAIT_EXTERNAL" ELSE "BLOCK_HUMAN"

Plan(f) == FirstOf(<<
  <<f.packet.status = "COMPLETE", "NOOP_COMPLETE">>,
  <<f.packet.status = "PAUSED", "NOOP_PAUSED">>,
  <<f.packet.status = "BLOCKED", "BLOCK_HUMAN">>,
  <<f.mutation.ambiguous \/ f.failure.class = "AMBIGUOUS_MUTATION", "RECONCILE_AMBIGUOUS">>,
  <<StaleWorker(f), "STALE_WORKER">>,
  <<f.failure.class = "SEMANTIC" \/ f.failure.identical >= 2, "REPLAN_SEMANTIC_FAILURE">>,
  <<f.failure.class \in {"HUMAN_REQUIRED", "AUTHORITY"}, "BLOCK_HUMAN">>,
  <<ResourceBlocked(f), "YIELD_RESOURCE">>,
  <<f.failure.class = "TRANSIENT", TransientDecision(f)>>,
  <<~DependenciesEligible(f.packet), "WAIT_EXTERNAL">>,
  <<f.pr.exists, PRPipeline(f)>>,
  <<f.wait.external, "WAIT_EXTERNAL">>,
  <<TRUE, ImplementationPath(f)>>>>)
=============================================================================
