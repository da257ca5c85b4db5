---------------------------- MODULE ContextEpoch ----------------------------
(***************************************************************************)
(* What a worker may read and when it may forget: the lint, the identity   *)
(* and the projection of a Work Packet and the epochs of a context         *)
(* (tools/context_epoch.py), the execution profile a packet must name      *)
(* (tools/execution_profile.py) and which packet is runnable               *)
(* (tools/work_admission.py eligible). A body is a record; sound stands for*)
(* its metadata, target and sections being all there and well formed, tidy *)
(* for no section that a packet does not have; blocker, waiting and next   *)
(* say what its sections say.                                              *)
(***************************************************************************)
EXTENDS Naturals

\* What the text of a profile must say to be one at all.
LoadProfile(profile) ==
  /\ profile.rev >= 1 /\ profile.primary \notin profile.disabled
  /\ profile.legacy \cap profile.disabled = {}

\* Who executes: a version 3 packet names a profile and its revision, a
\* version 2 packet an implementer that the profile still maps to itself.
PacketAuthority(profile, body) ==
  \/ /\ body.version = 3 /\ body.implementer = "NONE"
     /\ body.profile = [id |-> profile.id, rev |-> profile.rev]
  \/ /\ body.version = 2 /\ body.profile = [id |-> "NONE", rev |-> 0]
     /\ body.implementer \in profile.legacy

ProfileTransition(base, head) ==
  LoadProfile(base) /\ LoadProfile(head) /\ (head = base \/ head.rev = base.rev + 1)

\* Not BLOCK: PASS for a tidy packet, WARN for another.
AnalyzePacket(body, profile) ==
  body.sound /\ LoadProfile(profile) /\ PacketAuthority(profile, body)

NotRunnable(body) == body.blocker \/ body.waiting \/ ~body.next

EvaluateEligible(issue, profile, observed) ==
  LET body == issue.body
  IN  /\ AnalyzePacket(body, profile) /\ body.repo = observed.target
      /\ issue.open /\ body.status = "ACTIVE"
      /\ body.branch = observed.branch /\ body.head = observed.head
      /\ issue.ready /\ ~NotRunnable(body)

\* What is compared when a packet is read again: the keys that the caller gives
\* a value for, and the body if it gives a hash. The binding file of
\* packet-identity gives all of them; --expect arguments give any.
IdentityKeys ==
  {"version", "repo", "workstream", "status", "branch", "rev", "profile", "implementer"}
WholeBinding == IdentityKeys \cup {"body"}
RequireHash(body, expected, bound) == "body" \in bound => body = expected
RequireIdentity(body, expected, bound) ==
  /\ \A key \in IdentityKeys \cap bound : body[key] = expected[key]
  /\ "body" \in bound => body = expected

\* The sizes a projection is cut to are left out.
ProjectPacket(body, expected, bound, profile) ==
  AnalyzePacket(body, profile) /\ RequireIdentity(body, expected, bound)

\* A packet is handed on as it is persisted, without a warning, and runnable
\* if it is ACTIVE.
VerifyHandoff(body, persisted, target, profile) ==
  /\ body = persisted /\ AnalyzePacket(body, profile) /\ body.tidy /\ body.repo = target
  /\ body.status = "ACTIVE" => ~NotRunnable(body)

DecideEpoch(f) ==
  IF f.inFlight THEN "CONTINUE"
  ELSE IF f.boundary THEN IF f.checkpoint THEN "CLEAR" ELSE "CHECKPOINT_REQUIRED"
  ELSE IF ~f.precompact THEN "CONTINUE"
  ELSE IF f.sameAtomic THEN "SUMMARIZE"
  ELSE IF f.checkpoint THEN "CLEAR" ELSE "CHECKPOINT_REQUIRED"
=============================================================================
