--------------------------- MODULE WorkAdmission ---------------------------
(***************************************************************************)
(* Which worker may start, and what may be taken down when one has ended   *)
(* (tools/work_admission.py): verdicts on a set of claims. A path is the   *)
(* sequence of its parts, "/" at the front of an absolute one and then one *)
(* empty part for each slash more.                                         *)
(***************************************************************************)
EXTENDS Naturals, FiniteSets, SequencesExt

ActiveClaimStatuses == {"CLAIMED", "ACTIVE", "WAIT", "YIELD", "RETRY"}
ReleasableClaimStatuses == {"COMPLETE", "ABANDON", "SUPERSEDED", "RELEASED"}
HostOk == {"PASS", "WARN"}
NoRuntime == [id |-> "NONE", isolated |-> TRUE]

(***************************************************************************)
(* Paths                                                                   *)
(***************************************************************************)
Rejected == <<"..">>
NormalizePath(raw) ==
  LET Step(path, part) ==
        IF path = Rejected \/ part = "/" \/ (part = ".." /\ path = <<>>) THEN Rejected
        ELSE IF part \in {"", "."} THEN path
        ELSE IF part = ".." THEN Front(path) ELSE Append(path, part)
  IN  FoldLeft(Step, <<>>, raw)

\* Exactly two slashes at the front, which POSIX lets mean something else.
TwoSlashes(raw) == Len(raw) > 2 /\ raw[2] = "" /\ (Len(raw) = 3 \/ raw[3] # "")

\* An absolute path, where a step above the root stays at the root; normpath
\* makes one slash of many but leaves two as they are.
CanonicalizeWorktree(raw) ==
  LET Step(path, part) ==
        IF part \in {"", "."} \/ (part = ".." /\ path = <<>>) THEN path
        ELSE IF part = ".." THEN Front(path) ELSE Append(path, part)
  IN  <<IF TwoSlashes(raw) THEN "//" ELSE "/">> \o FoldLeft(Step, <<>>, Tail(raw))

PathsOverlap(left, right) ==
  LET a == NormalizePath(left) b == NormalizePath(right)
  IN  IsPrefix(a, b) \/ IsPrefix(b, a)

(***************************************************************************)
(* Admission                                                               *)
(***************************************************************************)
\* What a claim must be to be read at all.
ParseClaim(c) ==
  /\ \A path \in c.owned : NormalizePath(path) \notin {<<>>, Rejected}
  /\ Head(c.tree) = "/" /\ Len(CanonicalizeWorktree(c.tree)) > 1

HandsOnClaims(claims) == {c \in claims : c.status \in {"CLAIMED", "ACTIVE"}}
ActiveClaims(claims) == {c \in claims : c.status \in ActiveClaimStatuses}

SharedRuntime(a, b) ==
  /\ a.runtime.id # "NONE" /\ a.runtime.id = b.runtime.id
  /\ ~(a.runtime.isolated /\ b.runtime.isolated)

\* The same identity and another revision of it are denied in two steps.
Conflict(proposed, c) ==
  \/ SharedRuntime(proposed, c)
  \/ /\ c.repo = proposed.repo
     /\ \/ CanonicalizeWorktree(c.tree) = CanonicalizeWorktree(proposed.tree)
        \/ c.workstream = proposed.workstream
        \/ c.owned = {} \/ proposed.owned = {}
        \/ \E left \in proposed.owned, right \in c.owned : PathsOverlap(left, right)

EvaluateAdmit(proposed, existing, host, wip) ==
  LET live == ActiveClaims(existing)
  IN  /\ \A c \in existing \cup {proposed} : ParseClaim(c)
      /\ ~proposed.ambiguous /\ proposed.status \in ActiveClaimStatuses /\ host \in HostOk
      /\ \A c, d \in existing : c.id = d.id => c = d
      /\ \A c \in live : ~c.ambiguous
      /\ \A c \in existing : c.id # proposed.id
      /\ (live = {} \/ Cardinality(live) < wip)
      /\ \A c \in live : ~Conflict(proposed, c)

(***************************************************************************)
(* Release and cleanup                                                     *)
(***************************************************************************)
OnlyOne(id, existing) == Cardinality({c \in existing : c.id = id}) = 1
EvaluateRelease(claim, existing) ==
  /\ claim.status \in ReleasableClaimStatuses
  /\ OnlyOne(claim.id, existing) /\ ~claim.ambiguous
  /\ \A c \in existing : ParseClaim(c)

\* What is known of the worktree is what the claim says; a claim that says
\* nothing of it is read as clean and pushed.
EvaluateCleanup(claim, existing) ==
  EvaluateRelease(claim, existing) /\ ~claim.dirty /\ ~claim.unpushed
=============================================================================
