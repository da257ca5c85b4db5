----------------------------- MODULE WatchLoop -----------------------------
(***************************************************************************)
(* One watch over time: its evaluator is called again and again with the   *)
(* state it returned last (tools/coordinator_watch.py, command evaluate).  *)
(* The facts of an observation are whatever the world shows; one observer  *)
(* may be overtaken and have its observation evaluated late.               *)
(***************************************************************************)
EXTENDS Watch

CONSTANTS
  Themes,       \* environment: kinds of worlds, each a set of facts that can be observed
  Watches,      \* environment: the classes of watches and their revisions
  MaxClock,     \* bound on time
  MaxFailures   \* bound on the failures a watch has counted

ASSUME WatchLoopAssumption ==
  /\ \A world \in Themes : world \subseteq Facts /\ world # {}
  /\ Watches \subseteq [class: WatchClasses, rev: MaybeRevision]
  /\ MaxClock \in Nat \ {0} /\ MaxFailures \in Nat

VARIABLES
  theme,   \* the facts this world can show
  watch,   \* the class of the watch and the revision it is bound to, or 0
  clock,
  state,   \* the durable state
  late     \* the observation of an observer that is overtaken

loopVars == <<theme, watch, clock, state, late>>

NoObservation == [at |-> 0, facts |-> <<>>]

LoopInit ==
  theme \in Themes /\ watch \in Watches /\ clock = 1 /\ state = NewState /\ late = NoObservation

Tick == clock < MaxClock /\ clock' = clock + 1 /\ UNCHANGED <<theme, watch, state, late>>

\* An observer collects its facts and is overtaken before the evaluation.
Observe ==
  /\ late = NoObservation
  /\ \E f \in theme : late' = [at |-> clock, facts |-> f]
  /\ UNCHANGED <<theme, watch, clock, state>>

Answer(o) == Evaluate(o.facts, [class |-> watch.class, rev |-> watch.rev, at |-> o.at], state)
Reenter(o) ==
  /\ state.failures < MaxFailures
  /\ state' = Answer(o).state
  /\ UNCHANGED <<theme, watch, clock>>

Now(f) == [at |-> clock, facts |-> f]
EvaluateNow == (\E f \in theme : Reenter(Now(f))) /\ UNCHANGED late
EvaluateLate == late # NoObservation /\ Reenter(late) /\ late' = NoObservation

LoopNext == Tick \/ Observe \/ EvaluateNow \/ EvaluateLate

LoopSpec == LoopInit /\ [][LoopNext]_loopVars

(***************************************************************************)
(* Properties                                                              *)
(***************************************************************************)
\* The state that is kept is well formed: times and counters stay in bounds,
\* and it has an identity, a digest, a decision and a key together or not at
\* all, which is what _observation_is_older's caller insists on.
LoopTypeOK ==
  /\ clock \in 1..MaxClock
  /\ state.transition \in 0..MaxClock /\ state.observed \in 0..MaxClock
  /\ state.failures \in 0..MaxFailures /\ state.next \in 0..(MaxClock + MaxRecheck)
  /\ state.rev \in MaybeRevision /\ state.subject \in Heads \cup {"NONE"}
  /\ state.decision \in Decisions \cup {"", "OUT_OF_SCOPE", "STALE_WATCH"}
  /\ {state.rev = 0, state.digest = <<>>, state.decision = "", state.key = <<>>, state.observed = 0}
       \in {{TRUE}, {FALSE}}

Good(f) == f.packet.status \in {"ACTIVE", "PAUSED"} /\ ~f.mutation.ambiguous /\ ~StaleWorker(f)
Mergeable(f) ==
  /\ f.pr.state = "OPEN" /\ {f.git.head, f.ci.head, f.review.head} = {f.pr.head}
  /\ f.ci.state = "PASS" /\ f.review.state = "CLEAR" /\ f.pr.mergeable = "YES"
  /\ f.git.dirty = "NO" /\ f.git.unpushed = "NO" /\ f.resource # "BLOCK"
  /\ f.packet.risk = "HIGH" => Audited(f)

\* Whatever the planner and the watch have come through before (evaluate), a
\* worker is resumed, an implementation launched or a merge announced only on
\* facts that bear it out: no doubt about a mutation and no worker of another
\* revision, progress for a resume, clean and admitted for a launch, the exact
\* head everywhere for a merge, and for each an ACTIVE packet. One exception is
\* the code's own: the merge of a PAUSED packet may be announced, and only by a
\* watch on CI or the review.
ActsAreEarned ==
  \A f \in theme :
    LET answer == Answer(Now(f))
        wakesFor(decision) == answer.result = "WAKE_COORDINATOR" /\ answer.decision = decision
    IN  /\ answer.result = "RESUME_ADMITTED_WORKER" =>
             Good(f) /\ f.packet.status = "ACTIVE" /\ ResumeAllowed(f)
        /\ wakesFor("MERGE_READY") =>
             /\ Good(f) /\ Mergeable(f)
             /\ f.packet.status = "PAUSED" => watch.class \in {"exact_head_ci", "review_state"}
        /\ wakesFor("ADMIT_IMPLEMENTATION") =>
             /\ Good(f) /\ f.packet.status = "ACTIVE" /\ ~ActiveWorker(f)
             /\ f.git.dirty = "NO" /\ f.admission = "ALLOW" /\ f.resource \in {"PASS", "WARN"}

GateDecisions == {"ADMIT_IMPLEMENTATION", "AUTHORIZE_PUBLICATION", "MERGE_READY"}
Without(f, s) == NormalizeFacts([r \in (DOMAIN f) \ {s} |-> f[r]])
OpensNoGate(s) ==
  late # NoObservation =>
    LET plan == Plan(Without(late.facts, s))
    IN  plan \in GateDecisions => plan = Plan(late.facts)

\* An observation that lacks what is known of Git, the publication, CI or the
\* review never opens a gate that the whole payload keeps shut (plan).
UnknownOpensNoGate == \A s \in {"git", "publication", "ci", "review"} : OpensNoGate(s)

Closed == state.terminal = "CLOSED"
LateIsOlder == state.rev # 0 /\ late.at < state.observed
SameIdentity(f) == state.rev = f.packet.rev /\ state.subject = SubjectVersion(f) /\ watch.rev \in {0, state.rev}

\* An observation that is older than the latest accepted one of the same
\* watch changes nothing, and nothing changes a closed watch (evaluate).
OldNewsChangesNothing ==
  [][Closed \/ (EvaluateLate /\ LateIsOlder /\ SameIdentity(late.facts)) => state' = state]_state

\* Nothing that the planner looks at before a transient failure.
OnlyTransient(f) ==
  /\ f.failure.class = "TRANSIENT" /\ f.failure.identical < 2 /\ f.packet.status = "ACTIVE"
  /\ ~f.mutation.ambiguous /\ ~StaleWorker(f) /\ ~ResourceBlocked(f)

\* A transient failure that stays reaches the owner once its retries are
\* spent, however often observations are repeated or come late: the counter
\* the watch persists is the one the planner decides by.
TransientEscalates ==
  /\ ~Closed
  /\ \A f \in theme : OnlyTransient(f) /\ state.failures > f.wait.budget
  => state.decision = "BLOCK_HUMAN"
=============================================================================
