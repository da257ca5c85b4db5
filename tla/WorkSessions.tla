---------------------------- MODULE WorkSessions ----------------------------
(***************************************************************************)
(* Workers on one repository: a coordinator selects a runnable Work Packet,*)
(* admits a claim for it, has the packet read again, captures and checks   *)
(* the worktree, and the worker edits, commits, pauses, ends and is cleaned*)
(* up after, while owners edit packets, the execution profile moves on and *)
(* directories are renamed. The verdicts are the code's (WorkAdmission,    *)
(* ContextEpoch, Preflight); that they are asked in this order, and that   *)
(* one coordinator records a claim with the verdict on it, is how their    *)
(* callers outside the repository use them.                                *)
(***************************************************************************)
EXTENDS WorkAdmission, ContextEpoch, Preflight

CONSTANTS
  Work,        \* workstream -> its tree, owned paths and runtime
  Packets,     \* workstream -> the packet its Issue starts with
  Worktrees,   \* path -> the directory it names at first
  Directories, \* directory -> what Git says of it at first
  Decoy,       \* a directory that may be renamed over a worktree
  Renamed,     \* the workstream that a packet may be put under later
  Bindings,    \* what callers of packet-project may have compared
  FirstProfile, MaxWip,
  MaxHead, MaxMoves   \* bounds on the commits of a worktree and on what others do

Bodies ==
  [version : {2, 3}, repo : STRING, workstream : STRING, status : STRING, branch : STRING, head : Nat,
   rev : Nat, profile : [id : STRING, rev : Nat], implementer : STRING, sound : BOOLEAN,
   tidy : BOOLEAN, blocker : BOOLEAN, waiting : BOOLEAN, next : BOOLEAN]
Profiles ==
  [id : STRING, rev : Nat, legacy : SUBSET STRING, primary : STRING, disabled : SUBSET STRING]
Places ==
  [branch : STRING, head : Nat, change : {"NONE", "SEEN", "HIDDEN"}, unpushed : BOOLEAN,
   origin : STRING]

\* The directory that the operating system finds, for which // is /.
Path(raw) == Tail(CanonicalizeWorktree(raw))

\* Every worktree is one of the paths that name a directory at first.
ASSUME WorkAssumption ==
  /\ DOMAIN Packets # {} /\ FirstProfile \in Profiles /\ Renamed \in STRING
  /\ Bindings \subseteq SUBSET WholeBinding
  /\ \A w \in DOMAIN Packets : Packets[w] \in Bodies /\ Path(Work[w].tree) \in DOMAIN Worktrees
  /\ Worktrees \in [DOMAIN Worktrees -> DOMAIN Directories]
  /\ Directories \in [DOMAIN Directories -> Places]
  /\ Decoy \in DOMAIN Directories /\ NoDirectory \notin DOMAIN Directories

VARIABLES issue, profile, host, claims, sess, moves
vars == <<fs, dir, probe, issue, profile, host, claims, sess, moves>>
world == <<issue, profile, host, moves>>
disk == <<fs, dir, probe>>

NoBody == Packets[CHOOSE w \in DOMAIN Packets : TRUE]
NewSession == [pc |-> "IDLE", ws |-> "", selected |-> NoBody, packet |-> NoBody,
               bound |-> {}, durable |-> FALSE, open |-> FALSE]

Init ==
  /\ fs = Worktrees /\ dir = Directories /\ probe = [s \in Sessions |-> NoProbe]
  /\ issue = [w \in DOMAIN Packets |-> [body |-> Packets[w], open |-> TRUE, ready |-> TRUE]]
  /\ profile = FirstProfile /\ host = "PASS" /\ claims = {} /\ moves = 0
  /\ sess = [s \in Sessions |-> NewSession]

Goes(s, to) == sess' = [sess EXCEPT ![s] = [@ EXCEPT !.pc = to]]
Mine(s) == CHOOSE c \in claims : c.id = s
Holds(s) == \E c \in claims : c.id = s
Marked(s, status) == claims' = (claims \ {Mine(s)}) \cup {[Mine(s) EXCEPT !.status = status]}
TreeOf == [w \in DOMAIN Packets |-> Path(Work[w].tree)]
Tree(s) == TreeOf[sess[s].ws]
\* Of a session that is over only its claim and the worktree are left.
Ends(s, status) ==
  /\ sess' = [sess EXCEPT ![s] = [NewSession EXCEPT !.pc = "OVER", !.ws = sess[s].ws]]
  /\ probe' = [probe EXCEPT ![s] = NoProbe]
  /\ Marked(s, status) /\ UNCHANGED <<fs, dir>>

(***************************************************************************)
(* Starting                                                                *)
(***************************************************************************)
Select(s, w) ==
  LET at == fs[TreeOf[w]] IN
  /\ sess[s].pc = "IDLE" /\ at # NoDirectory
  /\ EvaluateEligible(issue[w], profile, [branch |-> dir[at].branch, head |-> dir[at].head,
                                          target |-> Packets[w].repo])
  /\ sess' = [sess EXCEPT ![s] = [@ EXCEPT !.pc = "SELECTED", !.ws = w, !.selected = issue[w].body]]
  /\ UNCHANGED <<claims, world, disk>>

Proposed(s) ==
  LET w == sess[s].ws body == sess[s].selected IN
  [id |-> s, repo |-> body.repo, workstream |-> body.workstream, rev |-> body.rev,
   tree |-> Work[w].tree, owned |-> Work[w].owned, runtime |-> Work[w].runtime,
   status |-> "CLAIMED", dirty |-> FALSE, unpushed |-> FALSE, ambiguous |-> FALSE]

Admit(s, wip) ==
  /\ sess[s].pc = "SELECTED"
  /\ IF EvaluateAdmit(Proposed(s), claims, host, wip)
     THEN claims' = claims \cup {Proposed(s)} /\ Goes(s, "CLAIMED")
     ELSE sess' = [sess EXCEPT ![s] = NewSession] /\ UNCHANGED claims
  /\ UNCHANGED <<world, disk>>

\* A context that holds no packet has the Issue's read to it: at first, and
\* again after it was cleared or handed on. What was compared is kept.
Project(s, bound) ==
  LET body == issue[sess[s].ws].body
      to == IF sess[s].pc = "CLAIMED" THEN "PROJECTED" ELSE "WORKING"
  IN  /\ sess[s].pc \in {"CLAIMED", "CLEARED"}
      /\ IF ProjectPacket(body, sess[s].selected, bound, profile)
         THEN /\ sess' = [sess EXCEPT ![s] = [@ EXCEPT !.pc = to, !.packet = body, !.bound = bound]]
              /\ UNCHANGED <<claims, disk>>
         ELSE Ends(s, "ABANDON")
      /\ UNCHANGED world

Identify(s) ==
  /\ sess[s].pc = "PROJECTED" /\ WorktreeIdentity(s, Tree(s))
  /\ UNCHANGED <<claims, sess, world>>
CheckStep(s) ==
  /\ sess[s].pc = "PROJECTED" /\ Check(s, sess[s].packet)
  /\ UNCHANGED <<claims, sess, world>>
Start(s) ==
  /\ sess[s].pc = "PROJECTED"
  /\ \/ probe[s].step = "PASS" /\ Goes(s, "WORKING") /\ Marked(s, "ACTIVE") /\ UNCHANGED disk
     \/ probe[s].step = "BLOCK" /\ Ends(s, "ABANDON")
  /\ UNCHANGED world

(***************************************************************************)
(* Working                                                                 *)
(***************************************************************************)
Working(s) == sess[s].pc = "WORKING"
Changed(s, d) ==
  /\ dir' = [dir EXCEPT ![probe[s].identity] = d]
  /\ UNCHANGED <<fs, probe, claims, world>>
Place(s) == dir[probe[s].identity]

\* What a worker learns with an edit is in its context and nowhere else.
Edit(s) ==
  /\ Working(s) /\ ~sess[s].open /\ Place(s).head < MaxHead
  /\ sess' = [sess EXCEPT ![s] = [@ EXCEPT !.open = TRUE, !.durable = FALSE]]
  /\ Changed(s, [Place(s) EXCEPT !.change = "SEEN"])
Commit(s) ==
  /\ Working(s) /\ sess[s].open /\ sess' = [sess EXCEPT ![s] = [@ EXCEPT !.open = FALSE]]
  /\ Changed(s, [Place(s) EXCEPT !.change = "NONE", !.head = @ + 1, !.unpushed = TRUE])
Push(s) ==
  /\ Working(s) /\ Place(s).unpushed /\ Changed(s, [Place(s) EXCEPT !.unpushed = FALSE])
  /\ UNCHANGED sess

\* A context is asked about at any time, and what the answer says is done: a
\* checkpoint is taken, or the packet and all else is forgotten.
Forgets(s, to) == sess' = [sess EXCEPT ![s] = [@ EXCEPT !.pc = to, !.packet = NoBody, !.bound = {},
                                                      !.durable = FALSE]]
Epoch(s) ==
  LET answers == {DecideEpoch([inFlight |-> sess[s].open, checkpoint |-> sess[s].durable, boundary |-> b,
                               precompact |-> p, sameAtomic |-> a]) : b, p, a \in BOOLEAN}
  IN  /\ Working(s)
      /\ \/ "CLEAR" \in answers /\ Forgets(s, "CLEARED")
         \/ /\ "CHECKPOINT_REQUIRED" \in answers
            /\ sess' = [sess EXCEPT ![s] = [@ EXCEPT !.durable = TRUE]]
      /\ UNCHANGED <<claims, world, disk>>

\* The packet is handed on as the Issue holds it, for another chat to take up.
Yield(s) ==
  /\ Working(s) /\ VerifyHandoff(sess[s].packet, issue[sess[s].ws].body, Mine(s).repo, profile)
  /\ Forgets(s, "YIELDED") /\ Marked(s, "YIELD") /\ UNCHANGED <<world, disk>>
Resume(s) ==
  /\ sess[s].pc = "YIELDED" /\ Goes(s, "CLEARED") /\ Marked(s, "ACTIVE") /\ UNCHANGED <<world, disk>>

(***************************************************************************)
(* Ending                                                                  *)
(***************************************************************************)
\* Every status that a claim can be released in is treated alike; ABANDON is
\* that of a session that was not let in.
Finish(s) ==
  /\ Working(s) /\ Ends(s, "COMPLETE") /\ UNCHANGED world

Release(s) ==
  /\ Holds(s) /\ EvaluateRelease(Mine(s), claims) /\ Marked(s, "RELEASED")
  /\ UNCHANGED <<sess, world, disk>>

\* What is there when a session is over may be put into its claim, and may
\* change again. A cleanup looks at the claim only.
Reconcile(s) ==
  LET d == dir[fs[Tree(s)]] IN
  /\ sess[s].pc = "OVER" /\ fs[Tree(s)] # NoDirectory
  /\ claims' = (claims \ {Mine(s)})
                 \cup {[Mine(s) EXCEPT !.dirty = d.change # "NONE", !.unpushed = d.unpushed]}
  /\ UNCHANGED <<sess, world, disk>>
Cleanup(s) ==
  /\ Holds(s) /\ fs[Tree(s)] # NoDirectory /\ EvaluateCleanup(Mine(s), claims)
  /\ fs' = [fs EXCEPT ![Tree(s)] = NoDirectory]
  /\ UNCHANGED <<dir, probe, claims, sess, world>>

(***************************************************************************)
(* The others                                                              *)
(***************************************************************************)
\* An edit or a rename is one move, anything else is two.
Moves(n) == moves + n <= MaxMoves /\ moves' = moves + n

Rewritten(w, b) ==
  {[b EXCEPT !.rev = @ + 1, !.profile = IF b.version = 3 THEN [id |-> profile.id, rev |-> profile.rev]
                                        ELSE @],
   [b EXCEPT !.blocker = ~@], [b EXCEPT !.workstream = Renamed]}
EditIssue(w) ==
  /\ Moves(1)
  /\ \E b \in Rewritten(w, issue[w].body) \ {issue[w].body} : issue' = [issue EXCEPT ![w].body = b]
  /\ UNCHANGED <<profile, host, claims, sess, disk>>
ChangeProfile ==
  LET head == [profile EXCEPT !.rev = @ + 1, !.legacy = {}] IN
  /\ Moves(2) /\ ProfileTransition(profile, head) /\ profile' = head
  /\ UNCHANGED <<issue, host, claims, sess, disk>>
HostChanges ==
  /\ Moves(2) /\ host' = (IF host = "PASS" THEN "BLOCK" ELSE "PASS")
  /\ UNCHANGED <<issue, profile, claims, sess, disk>>
Swap(p) ==
  /\ Moves(1) /\ \A q \in DOMAIN fs : fs[q] # NoDirectory
  /\ fs' = [fs EXCEPT ![p] = IF @ = Decoy THEN Worktrees[p] ELSE Decoy]
  /\ \A q \in DOMAIN fs \ {p} : fs[q] # Decoy
  /\ UNCHANGED <<dir, probe, issue, profile, host, claims, sess>>
Touch(d) ==
  /\ Moves(2) /\ d # Decoy /\ dir[d].change = "NONE"
  /\ \E how \in {"SEEN", "HIDDEN"} : dir' = [dir EXCEPT ![d].change = how]
  /\ UNCHANGED <<fs, probe, issue, profile, host, claims, sess>>
Doubt(s) ==
  /\ Moves(2) /\ Holds(s)
  /\ claims' = (claims \ {Mine(s)}) \cup {[Mine(s) EXCEPT !.ambiguous = ~@]}
  /\ UNCHANGED <<issue, profile, host, sess, disk>>

Next ==
  \/ \E s \in Sessions :
       \/ \E w \in DOMAIN Packets : Select(s, w)
       \/ \E wip \in 1..MaxWip : Admit(s, wip)
       \/ \E bound \in Bindings : Project(s, bound)
       \/ Identify(s) \/ CheckStep(s) \/ Start(s) \/ Edit(s) \/ Commit(s) \/ Push(s)
       \/ Epoch(s) \/ Yield(s) \/ Resume(s) \/ Finish(s)
       \/ Release(s) \/ Reconcile(s) \/ Cleanup(s) \/ Doubt(s)
  \/ \E w \in DOMAIN Packets : EditIssue(w)
  \/ ChangeProfile \/ HostChanges
  \/ \E p \in DOMAIN fs : Swap(p)
  \/ \E d \in DOMAIN dir : Touch(d)

Spec == Init /\ [][Next]_vars

(***************************************************************************)
(* Properties                                                              *)
(***************************************************************************)
Started(s) == sess[s].pc \in {"WORKING", "CLEARED", "YIELDED"}
HasPacket(s) == sess[s].pc \in {"PROJECTED", "WORKING"}
Live == {c \in claims : c.status \in {"CLAIMED", "ACTIVE", "WAIT", "YIELD", "RETRY"}}

\* Sessions, claims and probes have the shape the programs give them; a
\* session past admission has exactly one claim.
TypeOK ==
  /\ fs \in [DOMAIN Worktrees -> DOMAIN Directories \cup {NoDirectory}]
  /\ \A s \in Sessions :
       /\ sess[s].pc \in {"IDLE", "SELECTED", "CLAIMED", "PROJECTED", "WORKING", "CLEARED", "YIELDED",
                           "OVER"}
       /\ Cardinality({c \in claims : c.id = s})
            = (IF sess[s].pc \in {"IDLE", "SELECTED"} THEN 0 ELSE 1)
       /\ sess[s].bound \subseteq WholeBinding
       /\ probe[s].step \notin {"NONE", "BLOCK"} => probe[s].identity \in DOMAIN dir
       /\ probe[s].step # "NONE" => sess[s].pc \in {"PROJECTED", "WORKING", "CLEARED", "YIELDED"}

\* Whatever order workers start, pause and end in, two live claims never own
\* one file however the paths are written, hold one workstream in two revisions
\* or share a runtime that is not isolated (evaluate_admit). Two workers that
\* have started never work in one directory either, of whatever repositories
\* their claims speak and whatever is renamed, as long as no branch is that of
\* two packets of one repository: claims are compared by what they call their
\* worktrees, only preflight looks at the directory, and it looks at the origin
\* and the branch.
IndependentWorkers ==
  \A s, t \in Sessions : s # t =>
    /\ Started(s) /\ Started(t) => probe[s].identity # probe[t].identity
    /\ \A c, d \in Live : c.id = s /\ d.id = t =>
         /\ c.repo = d.repo =>
              /\ c.workstream # d.workstream
              /\ \A a \in c.owned, b \in d.owned : ~PathsOverlap(a, b)
         /\ c.runtime.id = d.runtime.id =>
              c.runtime.id = "NONE" \/ (c.runtime.isolated /\ d.runtime.isolated)

\* A worker that has started was let in on what Git said of the directory the
\* coordinator captured, and of no other, whatever was renamed over its path
\* between the calls.
PassedEvidenceIsBound ==
  \A s \in Sessions : Started(s) => probe[s].from = {probe[s].identity}

\* However the Issue is edited between selection, admission, start and every
\* later reading of a context that was cleared or handed on, a worker agrees
\* with its claim in the repository, the workstream and the revision, each as
\* far as the reading compared it (require_identity), and one that reads with
\* the binding of packet-identity has a packet that is runnable, as it was
\* when it was selected. A reading that compares nothing is bound to nothing.
WorksOnItsClaim ==
  \A s \in Sessions : HasPacket(s) =>
    /\ \A key \in {"repo", "workstream", "rev"} \cap sess[s].bound :
         sess[s].packet[key] = Mine(s)[key]
    /\ "body" \in sess[s].bound =>
         sess[s].packet.status = "ACTIVE" /\ ~NotRunnable(sess[s].packet)
=============================================================================
