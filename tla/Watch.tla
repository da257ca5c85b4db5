------------------------------- MODULE Watch -------------------------------
(***************************************************************************)
(* The evaluator of tools/coordinator_watch.py: the facts of one           *)
(* observation and the durable state of a watch in, one result and the     *)
(* state to keep out. Times are units of BASE_RECHECK_SECONDS; 0, "" and   *)
(* <<>> stand for a time, a decision and a key that are not there.         *)
(***************************************************************************)
EXTENDS Planner

CONSTANTS
  BaseRecheck,   \* BASE_RECHECK_SECONDS
  MaxRecheck     \* MAX_RECHECK_SECONDS

ASSUME WatchAssumption ==
  BaseRecheck \in Nat \ {0} /\ MaxRecheck \in Nat /\ BaseRecheck <= MaxRecheck

WatchClasses == {"work_packet_state", "exact_head_ci", "review_state",
                 "worker_progress_or_yield", "resource_admission"}
WakeDecisions == {"ADMIT_IMPLEMENTATION", "AUDIT_DIRTY_TREE", "AUTHORIZE_PUBLICATION",
                  "AUDIT_REVIEW", "MERGE_READY", "REPLAN_SEMANTIC_FAILURE", "STALE_WORKER"}
WaitDecisions == {"WAIT_EXTERNAL", "WAIT_EXACT_HEAD_CI", "YIELD_RESOURCE", "NOOP_PAUSED"}
Decisions == WakeDecisions \cup WaitDecisions \cup
  {"NOOP_COMPLETE", "BLOCK_HUMAN", "RECONCILE_AMBIGUOUS", "RESUME_WORKER"}
TypedResults == {"WAKE_COORDINATOR", "RESUME_ADMITTED_WORKER", "NOTIFY_OWNER"}
Results == TypedResults \cup {"NO_CHANGE", "RECHECK_LATER", "CLOSE_WATCH", "BLOCK_RECONCILIATION"}

\* The durable state, before the first evaluation: it has no identity.
NewState == [rev |-> 0, subject |-> "NONE", digest |-> <<>>, decision |-> "", key |-> <<>>,
             transition |-> 0, observed |-> 0, failures |-> 0, next |-> 0, terminal |-> "OPEN"]

Digest(f, decision) ==
  <<f.admission, f.ci, decision, f.packet.rev, f.mutation, f.packet.status,
    f.pr.head, f.resource, f.review, f.worker>>

NotificationKey(f, result, subject, decision) == <<f.packet.rev, result, decision, subject>>

ResumeAllowed(f) ==
  /\ f.worker.present /\ f.worker.progress /\ f.worker.rev = f.packet.rev
  /\ f.resource \in {"PASS", "WARN"} /\ f.admission = "ALLOW"

OlderThanTransition(w, st) == w.at < st.transition
ObservationIsOlder(w, st) == w.at < (IF st.observed # 0 THEN st.observed ELSE st.transition)

StaleIdentity(f, w, st) ==
  \/ st.rev # 0 /\ (st.rev # f.packet.rev \/ st.subject # SubjectVersion(f))
  \/ w.rev # 0 /\ w.rev # f.packet.rev

\* The planner sees the retries the watch has counted, and a paused packet
\* whose pull request is out as an active one.
PlansWithTheFacts(f, st) == f
BindTransientRetry(f, st) ==
  IF f.failure.class = "TRANSIENT" /\ st.failures > f.wait.count
  THEN [f EXCEPT !.wait.count = st.failures] ELSE f
PlannerView(f, w, st) ==
  IF f.packet.status = "PAUSED" /\ w.class \in {"exact_head_ci", "review_state"} /\ f.pr.exists
  THEN [BindTransientRetry(f, st) EXCEPT !.packet.status = "ACTIVE"]
  ELSE BindTransientRetry(f, st)

Backoff(st, unchanged) ==
  LET previous == st.next - st.transition
      doubled == IF previous * 2 < MaxRecheck THEN previous * 2 ELSE MaxRecheck
  IN  IF ~unchanged \/ st.next = 0 \/ st.transition = 0 \/ st.next <= st.transition
      THEN BaseRecheck ELSE doubled
NextCheck(w, st, unchanged) == w.at + Backoff(st, unchanged)

TransientCount(f, st) == IF f.failure.class = "TRANSIENT" THEN st.failures + 1 ELSE 0

(***************************************************************************)
(* What an evaluation answers and persists                                 *)
(***************************************************************************)
Persist(f, w, st, say, key) ==
  [rev |-> f.packet.rev, subject |-> SubjectVersion(f), digest |-> say.digest,
   decision |-> say.decision, key |-> key,
   transition |-> IF say.result = "NO_CHANGE" /\ say.unchanged /\ st.transition # 0
                  THEN st.transition ELSE w.at,
   observed |-> w.at, failures |-> TransientCount(f, st), next |-> say.next,
   terminal |-> say.terminal]

Emit(f, w, st, say) ==
  LET key == IF say.result = "NO_CHANGE" /\ st.key # <<>> THEN st.key
             ELSE NotificationKey(f, say.result, SubjectVersion(f), say.decision)
  IN  [result |-> say.result, decision |-> say.decision, key |-> key,
       state |-> Persist(f, w, st, say, key)]

\* An answer that leaves the durable state as it is.
Preserved(result, st) ==
  [result |-> result, decision |-> st.decision, key |-> st.key, state |-> st]

CloseStale(f, w, st) ==
  LET subject == IF st.rev # 0 THEN st.subject ELSE SubjectVersion(f)
      rev == IF st.rev # 0 THEN st.rev ELSE IF w.rev # 0 THEN w.rev ELSE f.packet.rev
      key == NotificationKey(f, "CLOSE_WATCH", subject, "STALE_WATCH")
      say == [result |-> "CLOSE_WATCH", decision |-> "STALE_WATCH", digest |-> <<"STALE">>,
              next |-> 0, unchanged |-> FALSE, terminal |-> "CLOSED"]
  IN  [result |-> "CLOSE_WATCH", decision |-> "STALE_WATCH", key |-> key,
       state |-> [Persist(f, w, st, say, key) EXCEPT !.rev = rev, !.subject = subject]]

MapDecision(f, w, st, decision) ==
  LET digest == Digest(f, decision)
      unchanged == st.digest = digest
      Say(result, name, next, same) ==
        [result |-> result, decision |-> name, digest |-> digest, next |-> next,
         unchanged |-> same,
         terminal |-> IF result = "CLOSE_WATCH" THEN "CLOSED" ELSE "OPEN"]
      Typed(result, next) == Say(result, decision, next, FALSE)
      NoChange == Say("NO_CHANGE", decision, NextCheck(w, st, TRUE), TRUE)
      Recheck == Say("RECHECK_LATER", decision, NextCheck(w, st, unchanged), unchanged)
      soon == NextCheck(w, st, FALSE)
      notified == st.key = NotificationKey(f, "NOTIFY_OWNER", SubjectVersion(f), decision)
      resume == decision = "RESUME_WORKER"
  IN  Emit(f, w, st, FirstOf(<<
        <<decision = "NOOP_COMPLETE" \/ f.packet.status = "COMPLETE", Typed("CLOSE_WATCH", 0)>>,
        <<decision = "RECONCILE_AMBIGUOUS", Typed("BLOCK_RECONCILIATION", 0)>>,
        <<decision = "BLOCK_HUMAN" /\ notified, NoChange>>,
        <<decision = "BLOCK_HUMAN", Typed("NOTIFY_OWNER", 0)>>,
        <<resume /\ w.class # "worker_progress_or_yield",
          Say("BLOCK_RECONCILIATION", "OUT_OF_SCOPE", 0, FALSE)>>,
        <<resume /\ ~ResumeAllowed(f), Recheck>>,
        <<resume /\ st.decision = decision /\ unchanged, NoChange>>,
        <<resume, Typed("RESUME_ADMITTED_WORKER", soon)>>,
        <<decision \in WaitDecisions, Recheck>>,
        <<st.decision = decision, NoChange>>,
        <<TRUE, Typed("WAKE_COORDINATOR", soon)>>>>))

\* A state that has been observed also has a decision (WatchLoop!LoopTypeOK), so
\* the error for an older observation of an incomplete state is not modelled.
Evaluate(f, w, st) == FirstOf(<<
  <<st.terminal = "CLOSED", Preserved("CLOSE_WATCH", st)>>,
  <<StaleIdentity(f, w, st), CloseStale(f, w, st)>>,
  <<ObservationIsOlder(w, st), Preserved("NO_CHANGE", st)>>,
  <<f.mutation.ambiguous \/ f.failure.class = "AMBIGUOUS_MUTATION",
    MapDecision(f, w, st, "RECONCILE_AMBIGUOUS")>>,
  <<TRUE, MapDecision(f, w, st, Plan(PlannerView(f, w, st)))>>>>)
=============================================================================
