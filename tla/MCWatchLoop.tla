---------------------------- MODULE MCWatchLoop ----------------------------
EXTENDS WatchLoop

Ready ==
  [packet |-> [status |-> "ACTIVE", rev |-> 1, risk |-> "NORMAL", deps |-> {"COMPLETE"}],
   worker |-> Missing.worker,
   git |-> [head |-> "h1", dirty |-> "NO", unpushed |-> "NO", yielded |-> FALSE],
   resource |-> "PASS", admission |-> "ALLOW", mutation |-> [ambiguous |-> FALSE],
   failure |-> [class |-> "NONE", identical |-> 0],
   publication |-> [audit |-> "PASS", rev |-> 1],
   pr |-> [exists |-> TRUE, state |-> "OPEN", head |-> "h1", mergeable |-> "YES"],
   ci |-> [state |-> "PASS", head |-> "h1"],
   review |-> [actionable |-> "NO", state |-> "CLEAR", head |-> "h1"],
   wait |-> [external |-> FALSE, count |-> 0, budget |-> 2], gates |-> "NOT_REQUIRED"]
AtWork == [present |-> TRUE, status |-> "ACTIVE", rev |-> 1, progress |-> TRUE]
Started == [Ready EXCEPT !.pr = Missing.pr, !.worker = AtWork]

Merging ==
  {[Ready EXCEPT !.packet.status = p, !.ci = c, !.review.head = r] :
     p \in {"ACTIVE", "PAUSED"}, r \in {"h1", "h2"},
     c \in {[state |-> "PASS", head |-> "h1"], [state |-> "PASS", head |-> "h2"]}}
Reviewing ==
  {[Ready EXCEPT !.git.head = h, !.ci.state = c, !.git.dirty = d] :
     h \in {"h1", "h2"}, c \in {"PASS", "FAIL"}, d \in {"YES", "NO"}}
Working ==
  {[Started EXCEPT !.packet.rev = r, !.worker = w] :
     r \in {1, 2}, w \in {Missing.worker, AtWork, [AtWork EXCEPT !.progress = FALSE]}}
Pausing ==
  {[Started EXCEPT !.packet.status = p, !.pr = q] :
     p \in {"ACTIVE", "PAUSED", "BLOCKED"}, q \in {Ready.pr, Missing.pr}}
Handing ==
  {[Started EXCEPT !.git.dirty = "YES", !.git.yielded = y, !.publication = p] :
     y \in BOOLEAN,
     p \in {[audit |-> "PASS", rev |-> 1], [audit |-> "PASS", rev |-> 2], [audit |-> "FAIL", rev |-> 0]}}
Crowded ==
  {[Ready EXCEPT !.resource = r, !.pr = p, !.worker = w] :
     r \in {"PASS", "BLOCK"}, p \in {Ready.pr, Missing.pr}, w \in {AtWork, Missing.worker}}
Failing ==
  {[Started EXCEPT !.failure.class = c, !.packet.status = p] :
     c \in {"SEMANTIC", "AMBIGUOUS_MUTATION", "NONE"}, p \in {"ACTIVE", "COMPLETE"}}
Transient ==
  {[Started EXCEPT !.failure.class = "TRANSIENT", !.worker = w, !.wait.external = e] :
     w \in {AtWork, Missing.worker}, e \in BOOLEAN}

MCThemes == {Merging, Reviewing, Working, Pausing, Handing, Crowded, Failing, Transient}
MCWatches == {[class |-> "exact_head_ci", rev |-> 0],
              [class |-> "worker_progress_or_yield", rev |-> 0],
              [class |-> "worker_progress_or_yield", rev |-> 2]}
=============================================================================
