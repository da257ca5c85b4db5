----------------------------- MODULE Collector -----------------------------
(***************************************************************************)
(* The facts one run of the watch host reads                               *)
(* (tools/coordinator_watch_collect.py): a world of an issue, a branch, its*)
(* pull request, a worktree, the memory and the claims of the host in, the *)
(* facts of Planner out. A read that fails ends the run before it changes  *)
(* anything and is left out; so is the branch, which names the head.       *)
(***************************************************************************)
EXTENDS Watch

\* One claim file that names this repository and workstream: a worker's lease.
Claims == [rev: Revisions, status: ActiveWorkerStatuses \cup {"RELEASED"}, ambiguous: BOOLEAN]

\* Memory in units of 64 MiB.
GiB == 16
ObserveResource(memory) ==
  LET quarter == IF memory.total \div 4 > GiB THEN memory.total \div 4 ELSE GiB
      fifth == IF memory.total \div 5 > 1 THEN memory.total \div 5 ELSE 1
      blockMemory == IF memory.total >= 24 * GiB THEN 8 * GiB
                     ELSE IF memory.total >= 8 * GiB THEN quarter ELSE fifth
      blockSwap == IF memory.total >= 8 * GiB THEN GiB ELSE 4
  IN  IF memory.total = 0 THEN "UNKNOWN"
      ELSE IF memory.available < blockMemory \/ memory.swapUsed > blockSwap THEN "BLOCK"
      ELSE "PASS"

\* "UNKNOWN" where the code returns None.
MatchingClaim(claims, rev) ==
  LET live == {c \in claims : c.rev = rev /\ c.status \in ActiveWorkerStatuses}
  IN  IF \E c \in live : c.ambiguous THEN "UNKNOWN" ELSE IF live # {} THEN "YES" ELSE "NO"

ObserveAdmission(resource, claims, rev) ==
  IF resource = "BLOCK" THEN "DENY HOST_BUDGET"
  ELSE IF resource # "UNKNOWN" /\ MatchingClaim(claims, rev) = "YES" THEN "ALLOW" ELSE "UNKNOWN"

WorktreeBound(world) == world.tree.head = world.head
ObserveGit(world) ==
  [head |-> world.head, yielded |-> FALSE,
   dirty |-> IF WorktreeBound(world) THEN world.tree.dirty ELSE "UNKNOWN",
   unpushed |-> IF WorktreeBound(world) THEN world.tree.unpushed ELSE "UNKNOWN"]

CIFromGithub ==
  [success |-> "PASS", pending |-> "PENDING", failure |-> "FAIL", error |-> "FAIL", none |-> "UNKNOWN"]

\* The worker is never collected (nothing calls _observe_worker), and review
\* and mergeability are never known.
CollectAuthoritative(world) ==
  LET resource == ObserveResource(world.memory)
  IN  [packet |-> [status |-> world.status, rev |-> world.rev, risk |-> world.risk, deps |-> world.deps],
       git |-> ObserveGit(world), resource |-> resource,
       admission |-> ObserveAdmission(resource, world.claims, world.rev),
       mutation |-> [ambiguous |-> world.ambiguous],
       failure |-> [class |-> "NONE", identical |-> 0],
       publication |-> world.publication,
       pr |-> IF world.pr = "NONE" THEN Missing.pr
              ELSE [exists |-> TRUE, state |-> world.pr, head |-> world.head, mergeable |-> "UNKNOWN"],
       ci |-> [state |-> CIFromGithub[world.ci], head |-> world.head],
       review |-> [actionable |-> "NO", state |-> "UNKNOWN", head |-> "UNKNOWN"],
       wait |-> [external |-> FALSE, count |-> 0, budget |-> 3], gates |-> "NOT_REQUIRED"]

Worlds ==
  [status: PacketStatuses, rev: Revisions, risk: {"NORMAL", "HIGH"}, ambiguous: BOOLEAN,
   deps: {{"UNKNOWN"}} \cup SUBSET PacketStatuses, publication: Publication, head: Heads,
   pr: {"NONE", "OPEN", "MERGED", "CLOSED"}, ci: DOMAIN CIFromGithub, claims: SUBSET Claims,
   tree: [head: Heads, dirty: Tri, unpushed: Tri],
   memory: [total: Nat, available: Nat, swapUsed: Nat]]

Collect(world) == NormalizeFacts(CollectAuthoritative(world))
=============================================================================
