----------------------------- MODULE Preflight -----------------------------
(***************************************************************************)
(* The last look at a worktree before a worker touches it                  *)
(* (tools/implementation_preflight.py): the coordinator takes down which   *)
(* directory a path names (identity), and check opens that directory, asks *)
(* Git for its branch, its HEAD, its index flags, its status and its origin*)
(* one call at a time, looks whether the path still names it and compares. *)
(* Anyone may rename, edit or commit between two of these calls.           *)
(***************************************************************************)
EXTENDS Naturals

CONSTANT Sessions

VARIABLES
  fs,      \* path -> the directory (inode chain) it names, or "NONE"
  dir,     \* directory -> what Git says of it
  probe    \* session -> one run of identity and check

NoDirectory == "NONE"
NoProbe == [step |-> "NONE", path |-> <<>>, identity |-> NoDirectory, fd |-> NoDirectory,
            branch |-> "", head |-> 0, origin |-> "", from |-> {}]

\* No Git call is made with a path: the descriptor of the open directory is
\* what every one of them gets.
PathSource(s) == fs[probe[s].path]
Source(s) == probe[s].fd

Becomes(s, p) == probe' = [probe EXCEPT ![s] = p] /\ UNCHANGED <<fs, dir>>
Block(s) == Becomes(s, [NoProbe EXCEPT !.step = "BLOCK"])
\* Where an answer came from is kept for the properties: from is a history.
Read(s, to, p) == Becomes(s, [p EXCEPT !.step = to, !.from = @ \cup {Source(s)}])

WorktreeIdentity(s, path) ==
  /\ probe[s].step = "NONE"
  /\ IF fs[path] = NoDirectory THEN Block(s)
     ELSE Becomes(s, [NoProbe EXCEPT !.step = "IDENTIFIED", !.path = path, !.identity = fs[path]])

IsBound(s) == fs[probe[s].path] = probe[s].identity
OpenBoundWorktree(s) ==
  /\ probe[s].step = "IDENTIFIED"
  /\ IF IsBound(s) THEN Becomes(s, [probe[s] EXCEPT !.step = "OPEN", !.fd = probe[s].identity])
     ELSE Block(s)

\* With no directory Git answers nothing. The descriptor of a directory that
\* has gone since still answers here; the comparison at the end refuses it.
Answers(s, step) == probe[s].step = step /\ Source(s) # NoDirectory

ReadBranch(s) ==
  Answers(s, "OPEN") /\ Read(s, "BRANCH", [probe[s] EXCEPT !.branch = dir[Source(s)].branch])
ReadHead(s) ==
  Answers(s, "BRANCH") /\ Read(s, "HEAD", [probe[s] EXCEPT !.head = dir[Source(s)].head])
RejectHiddenIndexFlags(s) ==
  /\ Answers(s, "HEAD")
  /\ IF dir[Source(s)].change = "HIDDEN" THEN Block(s) ELSE Read(s, "FLAGS", probe[s])
ReadStatus(s) ==
  /\ Answers(s, "FLAGS")
  /\ IF dir[Source(s)].change = "SEEN" THEN Block(s) ELSE Read(s, "STATUS", probe[s])
ReadOrigin(s) ==
  Answers(s, "STATUS") /\ Read(s, "ORIGIN", [probe[s] EXCEPT !.origin = dir[Source(s)].origin])

Compare(s, expected) ==
  /\ probe[s].step = "ORIGIN"
  /\ IF /\ IsBound(s) /\ probe[s].origin = expected.repo
        /\ probe[s].branch = expected.branch /\ probe[s].head = expected.head
     THEN Becomes(s, [probe[s] EXCEPT !.step = "PASS"])
     ELSE Block(s)

Check(s, expected) ==
  \/ OpenBoundWorktree(s) \/ ReadBranch(s) \/ ReadHead(s) \/ RejectHiddenIndexFlags(s)
  \/ ReadStatus(s) \/ ReadOrigin(s) \/ Compare(s, expected)
=============================================================================
