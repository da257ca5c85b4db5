---------------------------- MODULE MCWatchHost ----------------------------
EXTENDS WatchHost

CONSTANTS p1, p2

\* A red and a green head with an open pull request, a blocked packet, and
\* what may get in the way of each.
Red == [status |-> "ACTIVE", rev |-> 1, risk |-> "HIGH", deps |-> {"COMPLETE"}, ambiguous |-> FALSE,
        publication |-> [audit |-> "UNKNOWN", rev |-> 0], head |-> "h1", pr |-> "OPEN",
        ci |-> "failure", claims |-> {[rev |-> 1, status |-> "ACTIVE", ambiguous |-> FALSE]},
        tree |-> [head |-> "h1", dirty |-> "NO", unpushed |-> "NO"],
        memory |-> [total |-> 512, available |-> 256, swapUsed |-> 0]]
Green == [Red EXCEPT !.ci = "success"]
Blocked == [Red EXCEPT !.status = "BLOCKED"]
Crowded == [Red EXCEPT !.memory.available = 100]
Unclaimed == [Red EXCEPT !.claims = {}]
Doubtful == [Green EXCEPT !.ambiguous = TRUE]
Revised == [Red EXCEPT !.rev = 2]
MCWorld == {Red, Green, Blocked, Crowded, Unclaimed, Doubtful, Revised}

Wake(decision, rev) == [result |-> "WAKE_COORDINATOR", decision |-> decision, rev |-> rev,
                        subject |-> "h1", status |-> "ACTIVE"]
Notice == [result |-> "NOTIFY_OWNER", decision |-> "BLOCK_HUMAN", rev |-> 1, subject |-> "h1", status |-> ""]
For(effect) ==
  [signed |-> TRUE, effect |-> effect, tool |-> "network_post",
   classes |-> {"network", "external_write"}, profile |-> "external_write",
   basis |-> "collaborator", permission |-> "write", approved |-> {"external_write"},
   scope |-> [rev |-> effect.rev, subject |-> effect.subject]]
Replan == For(Wake("REPLAN_SEMANTIC_FAILURE", 1))
MCAssertions ==
  {Replan, For(Wake("AUDIT_REVIEW", 1)), For(Notice), [Replan EXCEPT !.approved = {}]}

Lax == [external_write |-> [DefaultProfiles.external_write EXCEPT !.approval = {}]]
Strict == [external_write |-> DefaultProfiles.external_read]
MCCustoms == {<<>>, Lax, Strict}
=============================================================================
