------------------------------- MODULE Skills -------------------------------
(***************************************************************************)
(* Who may do what (tools/skills-contract.py) and the verdict of the worker*)
(* adapter on one external write (tools/worker_adapter.py). An assertion   *)
(* stands for a signed binding and the signed dispatch that names it; what *)
(* the dispatch id does once it is used is in DispatchStore.               *)
(***************************************************************************)
EXTENDS Planner

ActionClasses == {"read", "repo_write", "shell", "network", "external_read", "external_write",
                  "production_read", "production_write", "destructive"}
HighRiskClasses == {"external_write", "production_write", "destructive"}

ToolRegistry ==
  LET external == {"network", "external_read"}
  IN  [repo_read |-> {"read"}, repo_write |-> {"read", "repo_write"}, shell_local |-> {"shell"},
       shell_network |-> external \cup {"shell"},
       shell_external_write |-> external \cup {"shell", "external_write"},
       shell_production_write |-> external \cup {"shell", "production_write", "destructive"},
       network_fetch |-> external, network_post |-> {"network", "external_write"},
       production_read |-> external \cup {"production_read"},
       production_write |-> external \cup {"production_write", "external_write", "destructive"}]

\* A profile: denied is what is not allowed.
Profile(allowed, approval) ==
  [allowed |-> allowed, denied |-> ActionClasses \ allowed, approval |-> approval]

DefaultProfiles ==
  LET write == {"read", "repo_write", "shell"}
      external == write \cup {"network", "external_read"}
  IN  [repo_read |-> Profile({"read"}, {}), repo_write |-> Profile(write, {}),
       external_read |-> Profile(external, {}),
       external_write |-> Profile(external \cup {"external_write"}, {"external_write"}),
       production_read |-> Profile(external \cup {"production_read"}, {}),
       production_write |-> Profile(ActionClasses, HighRiskClasses)]

ParseProfile(p) ==
  /\ p.allowed \cup p.denied = ActionClasses /\ p.allowed \cap p.denied = {}
  /\ p.approval \subseteq p.allowed
KeepsDenials(custom, canonical) ==
  custom.allowed \subseteq canonical.allowed /\ canonical.denied \subseteq custom.denied
IsNarrowing(custom, canonical) ==
  /\ custom.allowed \subseteq canonical.allowed /\ canonical.denied \subseteq custom.denied
  /\ canonical.approval \subseteq custom.approval

\* The profiles of a repository, and whether they loaded without a finding.
Loads(custom) ==
  \A name \in DOMAIN custom :
    name \in DOMAIN DefaultProfiles /\ ParseProfile(custom[name])
      /\ IsNarrowing(custom[name], DefaultProfiles[name])
MergeProfiles(custom) ==
  [name \in DOMAIN DefaultProfiles |->
     IF name \in DOMAIN custom THEN custom[name] ELSE DefaultProfiles[name]]

(***************************************************************************)
(* authorize: an assertion a, the effect it is shown for, the profiles     *)
(***************************************************************************)
WritePermissions == {"write", "maintain", "admin"}
BindsSession(a, profiles) ==
  /\ a.profile \in DOMAIN profiles /\ a.approved \subseteq ActionClasses
  /\ \/ a.basis = "collaborator" /\ a.permission \in WritePermissions
     \/ a.basis = "approver" /\ a.permission = "production_approver" /\ a.profile = "production_write"

EvaluateAction(a, profiles) ==
  LET profile == profiles[a.profile]
  IN  /\ a.basis = "approver" => a.tool = "shell_production_write"
      /\ a.classes = ToolRegistry[a.tool] /\ a.classes \subseteq profile.allowed \ profile.denied
      /\ (a.classes \cap profile.approval) \subseteq a.approved

ScopeProblem(a, effect) == a.scope # [rev |-> effect.rev, subject |-> effect.subject]

Authorizes(a, effect, expired, custom) ==
  /\ a.signed /\ a.effect = effect
  /\ a.classes \cap HighRiskClasses # {} => ~ScopeProblem(a, effect) /\ ~expired
  /\ Loads(custom) /\ BindsSession(a, MergeProfiles(custom)) /\ EvaluateAction(a, MergeProfiles(custom))

\* What the adapter demands before it asks for an authorization.
AuthorizesConcreteEffect(a, effect, expired, custom) ==
  /\ a.signed /\ a.tool = "network_post" /\ "external_write" \in a.classes /\ a.effect = effect
  /\ a.permission \in WritePermissions
  /\ Authorizes(a, effect, expired, custom)

\* The verdict on a write whose facts are w, when the gate would say so.
AllowedActions == {"update_work_packet", "comment_work_packet", "create_pull_request",
                   "update_pull_request", "authorize_publication"}
AdapterEvaluate(w, gate) == FirstOf(<<
  <<w.action \notin AllowedActions, "AUTHORITY_DENIED">>,
  <<w.bound # w.authoritative, "STALE_WORKER">>,
  <<w.outcome \in {"TIMEOUT", "UNKNOWN", "AMBIGUOUS"}, "RECONCILE_AMBIGUOUS">>,
  <<w.failure = "SEMANTIC", "FAILED_SEMANTIC">>,
  <<w.resource = "BLOCK" \/ w.admission # "ALLOW", "RESOURCE_BLOCKED">>,
  <<w.prior \/ w.outcome = "APPLIED", "NO_CHANGE">>,
  <<w.failure = "TRANSIENT" /\ w.count < w.budget /\ w.outcome = "NOT_SENT", "TRANSIENT_RETRYABLE">>,
  <<w.failure = "TRANSIENT", "RECONCILE_AMBIGUOUS">>,
  <<gate = "REPLAY", "NO_CHANGE">>,
  <<gate # "ALLOW", "AUTHORITY_DENIED">>,
  <<TRUE, "APPLIED">>>>)
=============================================================================
