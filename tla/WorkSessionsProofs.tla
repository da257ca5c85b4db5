------------------------- MODULE WorkSessionsProofs -------------------------
(***************************************************************************)
(* What keeps the workers of a repository apart and on their claims, for   *)
(* every number of sessions, packets, paths and directories, everything    *)
(* that callers may have compared, and every number of edits, renames and  *)
(* changes of the profile.                                                 *)
(***************************************************************************)
EXTENDS WorkSessions, FiniteSetTheorems, TLAPS

-----------------------------------------------------------------------------
(***************************************************************************)
(* The inductive invariant                                                 *)
(***************************************************************************)
Workstreams == DOMAIN Packets
Steps == {"NONE", "BLOCK", "IDENTIFIED", "OPEN", "BRANCH", "HEAD", "FLAGS", "STATUS", "ORIGIN", "PASS"}
Paths == DOMAIN Worktrees \cup {<<>>}
Probes ==
  [step : Steps, path : Paths,
   identity : DOMAIN Directories \cup {NoDirectory}, fd : DOMAIN Directories \cup {NoDirectory},
   branch : STRING \cup {""}, head : Nat, origin : STRING \cup {""},
   from : SUBSET (DOMAIN Directories \cup {NoDirectory})]
SessionRecords ==
  [pc : {"IDLE", "SELECTED", "CLAIMED", "PROJECTED", "WORKING", "CLEARED", "YIELDED", "OVER"},
   ws : Workstreams \cup {""}, selected : Bodies, packet : Bodies,
   bound : SUBSET WholeBinding, durable : BOOLEAN, open : BOOLEAN]
Claims ==
  [id : Sessions, repo : STRING, workstream : STRING, rev : Nat,
   tree : {Work[w].tree : w \in Workstreams}, owned : {Work[w].owned : w \in Workstreams},
   runtime : {Work[w].runtime : w \in Workstreams},
   status : ActiveClaimStatuses \cup ReleasableClaimStatuses,
   dirty : BOOLEAN, unpushed : BOOLEAN, ambiguous : BOOLEAN]

DiskTyped ==
  /\ fs \in [DOMAIN Worktrees -> DOMAIN Directories \cup {NoDirectory}]
  /\ dir \in [DOMAIN Directories -> Places]
WorldTyped ==
  /\ issue \in [Workstreams -> [body : Bodies, open : BOOLEAN, ready : BOOLEAN]]
  /\ profile \in Profiles
Typed ==
  /\ DiskTyped /\ WorldTyped
  /\ probe \in [Sessions -> Probes] /\ sess \in [Sessions -> SessionRecords]
  /\ claims \in SUBSET Claims

\* What an owner never rewrites in a packet, and Git never in a directory.
OfItsIssue(b, w) == b.repo = Packets[w].repo /\ b.branch = Packets[w].branch
IssuesKeep == \A w \in Workstreams : OfItsIssue(issue[w].body, w)
Lasting(d, at) == d[at].branch = Directories[at].branch /\ d[at].origin = Directories[at].origin
DirsKeep == \A at \in DOMAIN Directories : Lasting(dir, at)

\* A session has the packet it selected, which was runnable, until its end;
\* the one it reads agrees with that in all that was compared.
Reads(me) == me.pc \in {"SELECTED", "CLAIMED", "PROJECTED", "WORKING", "CLEARED", "YIELDED"}
Runnable(b) == b.status = "ACTIVE" /\ ~NotRunnable(b)
SessionOK(me) ==
  /\ me.pc # "IDLE" => me.ws \in Workstreams
  /\ Reads(me) => OfItsIssue(me.selected, me.ws) /\ Runnable(me.selected)
  /\ me.pc \in {"PROJECTED", "WORKING"} =>
       OfItsIssue(me.packet, me.ws) /\ RequireIdentity(me.packet, me.selected, me.bound)

\* A claim says what its session selected, and how far the session has come.
Standing(pc) ==
  CASE pc \in {"CLAIMED", "PROJECTED"} -> {"CLAIMED"} [] pc \in {"WORKING", "CLEARED"} -> {"ACTIVE"}
    [] pc = "YIELDED" -> {"YIELD"} [] OTHER -> {"COMPLETE", "ABANDON", "RELEASED"}
ClaimOK(me, c) ==
  /\ c.status \in Standing(me.pc) /\ c.tree = Work[me.ws].tree
  /\ Reads(me) =>
       /\ c.rev = me.selected.rev /\ c.repo = me.selected.repo
       /\ c.workstream = me.selected.workstream
Before(me) == me.pc \in {"IDLE", "SELECTED"}
ClaimsFollow ==
  \A s \in Sessions :
    /\ Before(sess[s]) <=> ~Holds(s)
    /\ \A c \in claims : c.id = s => ClaimOK(sess[s], c)
Unique(cs) == \A c, d \in cs : c.id = d.id => c = d

\* Two live claims, as EvaluateAdmit leaves them.
Compatible(c, d) ==
  /\ c.repo = d.repo =>
       /\ c.workstream # d.workstream
       /\ CanonicalizeWorktree(c.tree) # CanonicalizeWorktree(d.tree)
       /\ \A a \in c.owned, b \in d.owned : ~PathsOverlap(a, b)
  /\ c.runtime.id = d.runtime.id =>
       c.runtime.id = "NONE" \/ (c.runtime.isolated /\ d.runtime.isolated)
Active(cs) == {c \in cs : c.status \in ActiveClaimStatuses}
Apart(cs) == \A c, d \in Active(cs) : c.id # d.id => Compatible(c, d)

\* A probe asks one directory, and remembers what never changes there.
ProbeOK(p, me) ==
  /\ p.step # "NONE" => me.pc \in {"PROJECTED", "WORKING", "CLEARED", "YIELDED"}
  /\ me.pc \in {"WORKING", "CLEARED", "YIELDED"} => p.step = "PASS"
  /\ p.step \notin {"NONE", "BLOCK"} => p.identity \in DOMAIN Directories
  /\ p.step \in {"IDENTIFIED", "OPEN"} => p.from = {}
  /\ p.step \notin {"NONE", "BLOCK", "IDENTIFIED"} => p.fd = p.identity
  /\ p.step \notin {"NONE", "BLOCK", "IDENTIFIED", "OPEN"} =>
       p.from = {p.identity} /\ p.branch = Directories[p.identity].branch
  /\ p.step \in {"ORIGIN", "PASS"} => p.origin = Directories[p.identity].origin
  /\ p.step = "PASS" => p.origin = Packets[me.ws].repo /\ p.branch = Packets[me.ws].branch

SessionsOK == \A s \in Sessions : SessionOK(sess[s])
ProbesOK == \A s \in Sessions : ProbeOK(probe[s], sess[s])
ClaimsOK == Unique(claims) /\ Apart(claims) /\ ClaimsFollow

IInv == Typed /\ IssuesKeep /\ DirsKeep /\ SessionsOK /\ ProbesOK /\ ClaimsOK

-----------------------------------------------------------------------------
(***************************************************************************)
(* Sets of claims                                                          *)
(***************************************************************************)
LEMMA TheClaim ==
  ASSUME Unique(claims), NEW c \in claims
  PROVE  Mine(c.id) = c /\ Holds(c.id) /\ {d \in claims : d.id = c.id} = {c}
<1>1. \A d \in claims : d.id = c.id => d = c
  BY DEF Unique
<1>2. Mine(c.id) = c
  BY <1>1 DEF Mine
<1> QED BY <1>1, <1>2 DEF Holds

LEMMA MineHolds ==
  ASSUME NEW s, Holds(s)
  PROVE  Mine(s) \in claims /\ Mine(s).id = s
BY DEF Mine, Holds

\* Conflicts are mutual, whichever of the two claims came first.
LEMMA CompatibleIsMutual ==
  ASSUME NEW c, NEW d, Compatible(c, d)
  PROVE  Compatible(d, c)
BY DEF Compatible, PathsOverlap

\* Claims agree on everything that may conflict.
Swapped(C, D, m, n) == D = (C \ {m}) \cup {n}
LeavesLive(m, n) == n.status \in ActiveClaimStatuses => m.status \in ActiveClaimStatuses
Alike(c, d) ==
  /\ c.id = d.id /\ c.repo = d.repo /\ c.workstream = d.workstream /\ c.owned = d.owned
  /\ c.runtime = d.runtime /\ c.tree = d.tree

\* Another status or another doubt on one claim of a set.
LEMMA OneClaimMarked ==
  ASSUME NEW C, NEW D, NEW m \in C, NEW n, Unique(C), Apart(C), Swapped(C, D, m, n), Alike(m, n),
         LeavesLive(m, n)
  PROVE  Unique(D) /\ Apart(D)
<1>1. \A c \in D : c.id = m.id => c = n
  BY DEF Unique, Swapped
<1>2. \A c \in D : c.id # m.id => c \in C
  BY DEF Alike, Swapped
<1>4. Unique(D)
  BY <1>1, <1>2 DEF Unique
<1>5. Apart(D)
  <2> SUFFICES ASSUME NEW c \in Active(D), NEW d \in Active(D), c.id # d.id
               PROVE  Compatible(c, d)
    BY DEF Apart
  <2>1. CASE c.id # m.id /\ d.id # m.id
    BY <1>2, <2>1 DEF Apart, Active
  <2>2. CASE c.id = m.id
    <3>1. c = n /\ m \in Active(C) /\ d \in Active(C)
      BY <1>1, <1>2, <2>2 DEF Active, LeavesLive
    <3>2. Compatible(m, d)
      BY <2>2, <3>1 DEF Apart
    <3> QED BY <3>1, <3>2 DEF Compatible, Alike
  <2>3. CASE d.id = m.id
    <3>1. d = n /\ m \in Active(C) /\ c \in Active(C)
      BY <1>1, <1>2, <2>3 DEF Active, LeavesLive
    <3>2. Compatible(c, m)
      BY <2>3, <3>1 DEF Apart
    <3> QED BY <3>1, <3>2 DEF Compatible, Alike
  <2> QED BY <2>1, <2>2, <2>3
<1> QED BY <1>4, <1>5

\* One claim more, that conflicts with none of the active ones.
LEMMA OneClaimMore ==
  ASSUME NEW C, NEW D, NEW n, Unique(C), Apart(C), D = C \cup {n}, \A c \in C : c.id # n.id,
         \A c \in Active(C) : Compatible(n, c)
  PROVE  Unique(D) /\ Apart(D)
<1>1. Unique(D)
  BY DEF Unique
<1>2. Apart(D)
  <2> SUFFICES ASSUME NEW c \in Active(D), NEW d \in Active(D), c.id # d.id
               PROVE  Compatible(c, d)
    BY DEF Apart
  <2>1. CASE c \in C /\ d \in C
    BY <2>1 DEF Apart, Active
  <2>2. CASE c = n
    BY <2>2 DEF Active
  <2>3. CASE d = n
    <3>1. Compatible(d, c)
      BY <2>3 DEF Active
    <3> QED BY <3>1, CompatibleIsMutual
  <2> QED BY <2>1, <2>2, <2>3 DEF Active
<1> QED BY <1>1, <1>2

-----------------------------------------------------------------------------
(***************************************************************************)
(* What an action leaves alone                                             *)
(***************************************************************************)
LEMMA WorldStays ==
  ASSUME IInv, UNCHANGED <<issue, profile>>
  PROVE  WorldTyped' /\ IssuesKeep'
BY DEF IInv, Typed, WorldTyped, IssuesKeep

LEMMA DiskStays ==
  ASSUME IInv, UNCHANGED <<fs, dir>>
  PROVE  DiskTyped' /\ DirsKeep'
BY DEF IInv, Typed, DiskTyped, DirsKeep

LEMMA SessionsStay ==
  ASSUME IInv, UNCHANGED <<sess, probe>>
  PROVE  /\ sess' \in [Sessions -> SessionRecords] /\ probe' \in [Sessions -> Probes]
         /\ SessionsOK' /\ ProbesOK'
BY DEF IInv, Typed, SessionsOK, ProbesOK

LEMMA ClaimsStay ==
  ASSUME IInv, UNCHANGED <<sess, claims>>
  PROVE  claims' \in SUBSET Claims /\ ClaimsOK'
BY DEF IInv, Typed, ClaimsOK, ClaimsFollow, Holds

\* A session that stays where it is keeps its claim, and so do the others.
LEMMA ClaimsHeld ==
  ASSUME IInv, NEW s \in Sessions, NEW me \in SessionRecords, sess' = [sess EXCEPT ![s] = me],
         UNCHANGED claims,
         \/ me.pc = sess[s].pc /\ me.ws = sess[s].ws /\ me.selected = sess[s].selected
         \/ /\ <<sess[s].pc, me.pc>> \in {<<"CLAIMED", "PROJECTED">>, <<"WORKING", "CLEARED">>,
                                          <<"CLEARED", "WORKING">>}
            /\ me.ws = sess[s].ws /\ me.selected = sess[s].selected
         \/ Before(me) /\ Before(sess[s])
  PROVE  claims' \in SUBSET Claims /\ ClaimsOK'
<1>1. claims' \in SUBSET Claims /\ Unique(claims)' /\ Apart(claims)'
  BY DEF IInv, Typed, ClaimsOK
<1>2. \A t \in Sessions : sess'[t] = IF t = s THEN me ELSE sess[t]
  BY DEF IInv, Typed
<1>3. Before(me) <=> Before(sess[s])
  BY DEF Before
<1>4. \A c \in claims : c.id = s => ClaimOK(me, c)
  <2>1. CASE Before(me)
    BY <1>3, <2>1 DEF IInv, ClaimsOK, ClaimsFollow, Holds
  <2>2. CASE ~Before(me)
    <3>1. Standing(me.pc) = Standing(sess[s].pc) /\ (Reads(me) <=> Reads(sess[s]))
      BY <2>2 DEF Standing, Reads, Before
    <3>2. \A c \in claims : c.id = s => ClaimOK(sess[s], c)
      BY DEF IInv, ClaimsOK, ClaimsFollow
    <3> QED BY <2>2, <3>1, <3>2 DEF ClaimOK, Before
  <2> QED BY <2>1, <2>2
<1>5. \A t \in Sessions : Holds(t)' <=> Holds(t)
  BY DEF Holds
<1>6. ClaimsFollow'
  BY <1>2, <1>3, <1>4, <1>5 DEF IInv, ClaimsOK, ClaimsFollow
<1> QED BY <1>1, <1>6 DEF ClaimsOK

\* One session moves on, with its probe.
LEMMA SessionMoves ==
  ASSUME IInv, NEW s \in Sessions, NEW me \in SessionRecords, sess' = [sess EXCEPT ![s] = me],
         NEW p \in Probes, probe' = [probe EXCEPT ![s] = p], SessionOK(me), ProbeOK(p, me)
  PROVE  /\ sess' \in [Sessions -> SessionRecords] /\ probe' \in [Sessions -> Probes]
         /\ SessionsOK' /\ ProbesOK'
<1>1. \A t \in Sessions : sess'[t] = (IF t = s THEN me ELSE sess[t])
                       /\ probe'[t] = (IF t = s THEN p ELSE probe[t])
  BY DEF IInv, Typed
<1>2. sess' \in [Sessions -> SessionRecords] /\ probe' \in [Sessions -> Probes]
  BY DEF IInv, Typed
<1>3. \A t \in Sessions : SessionOK(sess[t]) /\ ProbeOK(probe[t], sess[t])
  BY DEF IInv, SessionsOK, ProbesOK
<1> QED BY <1>1, <1>2, <1>3 DEF SessionsOK, ProbesOK

\* A session marks its claim, and stands where the mark says.
LEMMA SessionMarks ==
  ASSUME IInv, NEW s \in Sessions, NEW me \in SessionRecords, sess' = [sess EXCEPT ![s] = me],
         NEW n \in Claims, Holds(s), claims' = (claims \ {Mine(s)}) \cup {n}, Alike(Mine(s), n),
         LeavesLive(Mine(s), n),
         ClaimOK(me, n), ~Before(me)
  PROVE  claims' \in SUBSET Claims /\ ClaimsOK'
<1> PICK m \in claims : m = Mine(s) /\ m.id = s
  BY MineHolds
<1>1. /\ Unique(claims') /\ Apart(claims') /\ n \in claims'
      /\ \A c \in claims' : c.id = s => c = n
      /\ \A c \in claims' : c.id # s => c \in claims
      /\ \A c \in claims : c.id # s => c \in claims'
  <2> PICK C, D : C = claims /\ D = claims'
    OBVIOUS
  <2>1. Unique(C) /\ Apart(C) /\ m \in C /\ Swapped(C, D, m, n)
    BY DEF IInv, ClaimsOK, Swapped
  <2>2. Alike(m, n) /\ LeavesLive(m, n)
    OBVIOUS
  <2>3. Unique(D) /\ Apart(D)
    BY <2>1, <2>2, OneClaimMarked
  <2>4. \A c \in claims : c.id = s => c = m
    BY <2>1 DEF Unique
  <2> QED BY <2>3, <2>4 DEF Alike
<1>2. claims' \in SUBSET Claims
  BY DEF IInv, Typed
<1>3. \A t \in Sessions : sess'[t] = IF t = s THEN me ELSE sess[t]
  BY DEF IInv, Typed
<1>4. n.id = s
  BY DEF Alike
<1>5. \A t \in Sessions : t # s => (Holds(t)' <=> Holds(t))
  BY <1>1 DEF Holds
<1>6. Holds(s)'
  BY <1>1, <1>4 DEF Holds
<1>7. ClaimsFollow'
  <2> SUFFICES ASSUME NEW t \in Sessions
               PROVE  /\ Before(sess'[t]) <=> ~Holds(t)'
                      /\ \A c \in claims' : c.id = t => ClaimOK(sess'[t], c)
    BY DEF ClaimsFollow
  <2>1. CASE t = s
    BY <1>1, <1>3, <1>6, <2>1
  <2>2. CASE t # s
    BY <1>1, <1>3, <1>5, <2>2 DEF IInv, ClaimsOK, ClaimsFollow
  <2> QED BY <2>1, <2>2
<1> QED BY <1>1, <1>2, <1>7 DEF ClaimsOK

-----------------------------------------------------------------------------
(***************************************************************************)
(* The first state                                                         *)
(***************************************************************************)
LEMMA FirstTypes == NoBody \in Bodies /\ NewSession \in SessionRecords /\ NoProbe \in Probes
<1>1. NoBody \in Bodies
  BY WorkAssumption DEF NoBody
<1>2. NewSession \in SessionRecords
  BY <1>1, WorkAssumption DEF NewSession, SessionRecords
<1>3. NoProbe \in Probes
  <2>1. \A nowhere \in Paths :
          [step |-> "NONE", path |-> nowhere, identity |-> NoDirectory, fd |-> NoDirectory,
           branch |-> "", head |-> 0, origin |-> "", from |-> {}] \in Probes
    BY DEF Probes, Steps
  <2>2. <<>> \in Paths
    BY Zenon DEF Paths
  <2> QED BY <2>1, <2>2, Zenon DEF NoProbe
<1> QED BY <1>1, <1>2, <1>3

LEMMA NewIsOK == SessionOK(NewSession) /\ ProbeOK(NoProbe, NewSession) /\ Before(NewSession)
BY DEF NewSession, NoProbe, SessionOK, ProbeOK, Reads, Before

LEMMA InitInv == Init => IInv
<1> SUFFICES ASSUME Init
             PROVE  IInv
  OBVIOUS
<1>1. DiskTyped /\ DirsKeep
  BY WorkAssumption DEF Init, DiskTyped, DirsKeep, Lasting
<1>2. WorldTyped /\ IssuesKeep
  BY WorkAssumption DEF Init, WorldTyped, IssuesKeep, OfItsIssue, Workstreams
<1>3. Typed
  BY <1>1, <1>2, FirstTypes DEF Init, Typed
<1>4. SessionsOK /\ ProbesOK
  BY NewIsOK DEF Init, SessionsOK, ProbesOK
<1>5. ClaimsOK
  BY NewIsOK DEF Init, ClaimsOK, Unique, Apart, Active, ClaimsFollow, Holds
<1> QED BY <1>1, <1>2, <1>3, <1>4, <1>5 DEF IInv

-----------------------------------------------------------------------------
(***************************************************************************)
(* Starting                                                                *)
(***************************************************************************)
LEMMA SelectInv ==
  ASSUME IInv, NEW s \in Sessions, NEW w \in Workstreams, Select(s, w)
  PROVE  IInv'
<1> PICK me : me = [sess[s] EXCEPT !.pc = "SELECTED", !.ws = w, !.selected = issue[w].body]
  OBVIOUS
<1>1. sess' = [sess EXCEPT ![s] = me] /\ UNCHANGED <<claims, fs, dir, probe, issue, profile>>
  BY DEF Select, world, disk
<1>2. sess[s] \in SessionRecords /\ probe[s] \in Probes /\ issue[w].body \in Bodies /\ sess[s].pc = "IDLE"
  BY DEF IInv, Typed, WorldTyped, Select
<1>3. /\ me \in SessionRecords /\ me.pc = "SELECTED" /\ me.ws = w /\ me.selected = issue[w].body
  BY <1>2 DEF SessionRecords, Workstreams
<1>4. OfItsIssue(me.selected, w)
  BY <1>3 DEF IInv, IssuesKeep
<1>5. Runnable(me.selected)
  BY <1>3 DEF Select, EvaluateEligible, Runnable
<1>50. SessionOK(me)
  BY <1>3, <1>4, <1>5 DEF SessionOK
<1>6. probe[s].step = "NONE"
  BY <1>2 DEF IInv, ProbesOK, ProbeOK
<1>7. ProbeOK(probe[s], me)
  BY <1>3, <1>6 DEF ProbeOK
<1>8. probe' = [probe EXCEPT ![s] = probe[s]]
  BY <1>1 DEF IInv, Typed
<1>9. /\ sess' \in [Sessions -> SessionRecords] /\ probe' \in [Sessions -> Probes]
      /\ SessionsOK' /\ ProbesOK'
  BY <1>1, <1>2, <1>3, <1>50, <1>7, <1>8, SessionMoves
<1>10. Before(me) /\ Before(sess[s])
  BY <1>2, <1>3 DEF Before
<1>11. claims' \in SUBSET Claims /\ ClaimsOK'
  BY <1>1, <1>3, <1>10, ClaimsHeld
<1>12. DiskTyped' /\ DirsKeep' /\ WorldTyped' /\ IssuesKeep'
  BY <1>1, WorldStays, DiskStays
<1> QED BY <1>9, <1>11, <1>12 DEF IInv, Typed

\* A refused admission lets the packet go; an admitted claim conflicts with no
\* live one, and there was none of this session.
LEMMA AdmitInv ==
  ASSUME IInv, NEW s \in Sessions, NEW wip, Admit(s, wip)
  PROVE  IInv'
<1>1. UNCHANGED <<fs, dir, probe, issue, profile>> /\ sess[s].pc = "SELECTED"
  BY DEF Admit, world, disk
<1>2. sess[s] \in SessionRecords /\ probe[s] \in Probes /\ sess[s].selected \in Bodies
  BY DEF IInv, Typed, SessionRecords
<1>3. DiskTyped' /\ DirsKeep' /\ WorldTyped' /\ IssuesKeep'
  BY <1>1, WorldStays, DiskStays
<1>4. probe' = [probe EXCEPT ![s] = probe[s]] /\ probe[s].step = "NONE"
  BY <1>1 DEF IInv, Typed, ProbesOK, ProbeOK
<1>5. CASE EvaluateAdmit(Proposed(s), claims, host, wip)
  <2> PICK me, n : me = [sess[s] EXCEPT !.pc = "CLAIMED"] /\ n = Proposed(s)
    OBVIOUS
  <2>1. sess' = [sess EXCEPT ![s] = me] /\ claims' = claims \cup {n}
    BY <1>5 DEF Admit, Goes
  <2>2. /\ me \in SessionRecords /\ me.pc = "CLAIMED" /\ me.ws = sess[s].ws
        /\ me.selected = sess[s].selected
    BY <1>2 DEF SessionRecords
  <2>3. SessionOK(sess[s])
    BY DEF IInv, SessionsOK
  <2>4. SessionOK(me)
    BY <1>1, <2>2, <2>3 DEF SessionOK, Reads
  <2>5. ProbeOK(probe[s], me)
    BY <1>4, <2>2 DEF ProbeOK
  <2>6. /\ sess' \in [Sessions -> SessionRecords] /\ probe' \in [Sessions -> Probes]
        /\ SessionsOK' /\ ProbesOK'
    BY <1>2, <1>4, <2>1, <2>2, <2>4, <2>5, SessionMoves
  <2>7. sess[s].ws \in Workstreams
    BY <1>1, <2>3 DEF SessionOK
  <2>8. /\ n \in Claims /\ n.id = s /\ n.tree = Work[me.ws].tree /\ n.status = "CLAIMED"
        /\ n.rev = me.selected.rev /\ n.repo = me.selected.repo
        /\ n.workstream = me.selected.workstream
    <3>1. /\ sess[s].selected.repo \in STRING /\ sess[s].selected.rev \in Nat
          /\ sess[s].selected.workstream \in STRING
      BY <1>2 DEF Bodies
    <3> QED BY <2>2, <2>7, <3>1 DEF Proposed, Claims, ActiveClaimStatuses
  <2>9. /\ \A c \in claims : c.id # n.id
        /\ \A c \in Active(claims) : ~Conflict(n, c)
    BY <1>5 DEF EvaluateAdmit, ActiveClaims, Active
  <2>10. \A c \in Active(claims) : Compatible(n, c)
    <3> TAKE c \in Active(claims)
    <3>1. ~Conflict(n, c)
      BY <2>9
    <3>2. n.repo = c.repo => /\ n.workstream # c.workstream
                             /\ CanonicalizeWorktree(n.tree) # CanonicalizeWorktree(c.tree)
                             /\ \A a \in n.owned, b \in c.owned : ~PathsOverlap(a, b)
      BY <3>1 DEF Conflict
    <3>3. n.runtime.id = c.runtime.id =>
            n.runtime.id = "NONE" \/ (n.runtime.isolated /\ c.runtime.isolated)
      BY <3>1 DEF Conflict, SharedRuntime
    <3> QED BY <3>2, <3>3 DEF Compatible
  <2>11. Unique(claims') /\ Apart(claims')
    <3> PICK C, D : C = claims /\ D = claims'
      OBVIOUS
    <3>1. /\ Unique(C) /\ Apart(C) /\ D = C \cup {n} /\ \A c \in C : c.id # n.id
          /\ \A c \in Active(C) : Compatible(n, c)
      BY <2>1, <2>9, <2>10 DEF IInv, ClaimsOK
    <3>2. Unique(D) /\ Apart(D)
      BY <3>1, OneClaimMore
    <3> QED BY <3>2
  <2>12. claims' \in SUBSET Claims
    BY <2>1, <2>8 DEF IInv, Typed
  <2>13. ClaimsFollow'
    <3>1. \A t \in Sessions : sess'[t] = IF t = s THEN me ELSE sess[t]
      BY <2>1 DEF IInv, Typed
    <3>2. \A t \in Sessions : Holds(t)' <=> Holds(t) \/ t = s
      BY <2>1, <2>8 DEF Holds
    <3>3. ClaimOK(me, n) /\ ~Before(me)
      BY <2>2, <2>8 DEF ClaimOK, Standing, Before
    <3>4. \A c \in claims' : c.id = s => c = n
      BY <2>1, <2>8, <2>9
    <3> SUFFICES ASSUME NEW t \in Sessions
                 PROVE  /\ Before(sess'[t]) <=> ~Holds(t)'
                        /\ \A c \in claims' : c.id = t => ClaimOK(sess'[t], c)
      BY DEF ClaimsFollow
    <3>5. CASE t = s
      BY <3>1, <3>2, <3>3, <3>4, <3>5
    <3>6. CASE t # s
      BY <2>1, <2>8, <3>1, <3>2, <3>6 DEF IInv, ClaimsOK, ClaimsFollow
    <3> QED BY <3>5, <3>6
  <2> QED BY <1>3, <2>6, <2>11, <2>12, <2>13 DEF IInv, Typed, ClaimsOK
<1>6. CASE ~EvaluateAdmit(Proposed(s), claims, host, wip)
  <2>1. sess' = [sess EXCEPT ![s] = NewSession] /\ UNCHANGED claims
    BY <1>6 DEF Admit
  <2>2. ProbeOK(probe[s], NewSession)
    BY <1>4 DEF ProbeOK, NewSession
  <2>3. /\ sess' \in [Sessions -> SessionRecords] /\ probe' \in [Sessions -> Probes]
        /\ SessionsOK' /\ ProbesOK'
    BY <1>2, <1>4, <2>1, <2>2, FirstTypes, NewIsOK, SessionMoves
  <2>4. claims' \in SUBSET Claims /\ ClaimsOK'
    BY <1>1, <2>1, FirstTypes, NewIsOK, ClaimsHeld DEF Before
  <2> QED BY <1>3, <2>3, <2>4 DEF IInv, Typed
<1> QED BY <1>5, <1>6

-----------------------------------------------------------------------------
(***************************************************************************)
(* Preflight                                                               *)
(***************************************************************************)
LEMMA NothingAsked == NoProbe.step = "NONE" /\ NoProbe.from = {}
BY Zenon DEF NoProbe

\* One step of the probe of a session: the probe after it is p.
Probed(s, p) ==
  /\ probe' = [probe EXCEPT ![s] = p] /\ UNCHANGED <<fs, dir>>
  /\ p \in Probes /\ ProbeOK(p, sess[s])

LEMMA Blocked ==
  ASSUME IInv, NEW s \in Sessions, sess[s].pc = "PROJECTED", Block(s)
  PROVE  \E p : Probed(s, p)
<1> PICK p : p = [NoProbe EXCEPT !.step = "BLOCK"]
  OBVIOUS
<1>1. p \in Probes /\ p.step = "BLOCK"
  BY FirstTypes DEF Probes, Steps
<1>2. ProbeOK(p, sess[s])
  BY <1>1 DEF ProbeOK
<1> QED BY <1>1, <1>2 DEF Probed, Block, Becomes

LEMMA IdentifyProbes ==
  ASSUME IInv, NEW s \in Sessions, sess[s].pc = "PROJECTED", WorktreeIdentity(s, Tree(s))
  PROVE  \E p : Probed(s, p)
<1>1. CASE fs[Tree(s)] = NoDirectory
  BY <1>1, Blocked DEF WorktreeIdentity
<1>2. CASE fs[Tree(s)] # NoDirectory
  <2> PICK path, at : path = Tree(s) /\ at = fs[path]
    OBVIOUS
  <2> PICK p : p = [NoProbe EXCEPT !.step = "IDENTIFIED", !.path = path, !.identity = at]
    OBVIOUS
  <2>1. sess[s].ws \in Workstreams
    BY DEF IInv, SessionsOK, SessionOK
  <2>2. path \in DOMAIN Worktrees
    BY <2>1, WorkAssumption DEF Tree, TreeOf, Workstreams
  <2>3. path \in Paths
    BY <2>2, Zenon DEF Paths
  <2>4. at \in DOMAIN Directories
    BY <1>2, <2>2 DEF IInv, Typed, DiskTyped
  <2>5. p \in Probes /\ p.step = "IDENTIFIED" /\ p.identity = at /\ p.from = {}
    BY <2>3, <2>4, FirstTypes, NothingAsked DEF Probes, Steps
  <2>6. ProbeOK(p, sess[s])
    BY <2>4, <2>5 DEF ProbeOK
  <2>7. probe' = [probe EXCEPT ![s] = p] /\ UNCHANGED <<fs, dir>>
    BY <1>2 DEF WorktreeIdentity, Becomes
  <2> QED BY <2>5, <2>6, <2>7 DEF Probed
<1> QED BY <1>1, <1>2

\* What Git says of the directory whose descriptor is held.
LEMMA TheSource ==
  ASSUME IInv, NEW s \in Sessions, probe[s].step \notin {"NONE", "BLOCK", "IDENTIFIED"}
  PROVE  /\ Source(s) = probe[s].identity /\ probe[s].identity \in DOMAIN Directories
         /\ dir[Source(s)] \in Places /\ Lasting(dir, Source(s))
         /\ probe[s] \in Probes /\ ProbeOK(probe[s], sess[s])
<1>1. Source(s) = probe[s].identity /\ probe[s].identity \in DOMAIN Directories
  BY DEF IInv, ProbesOK, ProbeOK, Source
<1>2. dir[Source(s)] \in Places /\ Lasting(dir, Source(s))
  BY <1>1 DEF IInv, Typed, DiskTyped, DirsKeep
<1> QED BY <1>1, <1>2 DEF IInv, Typed, ProbesOK

LEMMA OpenProbes ==
  ASSUME IInv, NEW s \in Sessions, sess[s].pc = "PROJECTED", OpenBoundWorktree(s)
  PROVE  \E p : Probed(s, p)
<1>1. CASE IsBound(s)
  <2> PICK p : p = [probe[s] EXCEPT !.step = "OPEN", !.fd = probe[s].identity]
    OBVIOUS
  <2>1. probe[s] \in Probes /\ ProbeOK(probe[s], sess[s]) /\ probe[s].step = "IDENTIFIED"
    BY DEF IInv, Typed, ProbesOK, OpenBoundWorktree
  <2>2. /\ p \in Probes /\ p.step = "OPEN" /\ p.identity = probe[s].identity
        /\ p.fd = p.identity /\ p.from = probe[s].from
    BY <2>1 DEF Probes, Steps
  <2>3. ProbeOK(p, sess[s])
    BY <2>1, <2>2 DEF ProbeOK
  <2> QED BY <1>1, <2>2, <2>3 DEF OpenBoundWorktree, Becomes, Probed
<1>2. CASE ~IsBound(s)
  BY <1>2, Blocked DEF OpenBoundWorktree
<1> QED BY <1>1, <1>2

LEMMA ReadProbes ==
  ASSUME IInv, NEW s \in Sessions, sess[s].pc = "PROJECTED",
         ReadBranch(s) \/ ReadHead(s) \/ RejectHiddenIndexFlags(s) \/ ReadStatus(s) \/ ReadOrigin(s)
  PROVE  \E p : Probed(s, p)
<1>0. probe[s].step \notin {"NONE", "BLOCK", "IDENTIFIED"}
  BY DEF ReadBranch, ReadHead, RejectHiddenIndexFlags, ReadStatus, ReadOrigin, Answers
<1> PICK at, d, q : at = Source(s) /\ d = dir[at] /\ q = probe[s]
  OBVIOUS
<1>1. /\ at = q.identity /\ at \in DOMAIN Directories /\ d \in Places
      /\ d.branch = Directories[at].branch /\ d.origin = Directories[at].origin
      /\ q \in Probes /\ ProbeOK(q, sess[s])
  BY <1>0, TheSource DEF Lasting
<1>2. d.branch \in STRING /\ d.head \in Nat /\ d.origin \in STRING
  BY <1>1 DEF Places
<1>3. q.from \subseteq {at} /\ q.from \cup {at} = {at}
  BY <1>0, <1>1 DEF ProbeOK
<1>4. CASE ReadBranch(s)
  <2> PICK p : p = [[q EXCEPT !.branch = d.branch] EXCEPT !.step = "BRANCH", !.from = @ \cup {at}]
    OBVIOUS
  <2>1. /\ p \in Probes /\ p.step = "BRANCH" /\ p.identity = at /\ p.fd = q.fd
        /\ p.from = {at} /\ p.branch = d.branch
    BY <1>1, <1>2, <1>3 DEF Probes, Steps
  <2>2. ProbeOK(p, sess[s])
    BY <1>0, <1>1, <2>1 DEF ProbeOK
  <2> QED BY <1>4, <2>1, <2>2 DEF ReadBranch, Read, Becomes, Probed
<1>5. CASE ReadHead(s)
  <2> PICK p : p = [[q EXCEPT !.head = d.head] EXCEPT !.step = "HEAD", !.from = @ \cup {at}]
    OBVIOUS
  <2>1. /\ p \in Probes /\ p.step = "HEAD" /\ p.identity = at /\ p.fd = q.fd
        /\ p.from = {at} /\ p.branch = q.branch
    BY <1>1, <1>2, <1>3 DEF Probes, Steps
  <2>2. ProbeOK(p, sess[s])
    BY <1>0, <1>1, <1>5, <2>1 DEF ProbeOK, ReadHead, Answers
  <2> QED BY <1>5, <2>1, <2>2 DEF ReadHead, Read, Becomes, Probed
<1>6. CASE RejectHiddenIndexFlags(s) \/ ReadStatus(s)
  <2>1. CASE Block(s)
    BY <2>1, Blocked
  <2>2. ASSUME NEW to \in {"FLAGS", "STATUS"}, Read(s, to, q)
        PROVE  \E p : Probed(s, p)
    <3> PICK p : p = [q EXCEPT !.step = to, !.from = @ \cup {at}]
      OBVIOUS
    <3>1. /\ p \in Probes /\ p.step = to /\ p.identity = at /\ p.fd = q.fd
          /\ p.from = {at} /\ p.branch = q.branch
      BY <1>1, <1>2, <1>3 DEF Probes, Steps
    <3>2. ProbeOK(p, sess[s])
      BY <1>0, <1>1, <1>6, <3>1 DEF ProbeOK, RejectHiddenIndexFlags, ReadStatus, Answers
    <3> QED BY <2>2, <3>1, <3>2 DEF Read, Becomes, Probed
  <2> QED BY <1>6, <2>1, <2>2 DEF RejectHiddenIndexFlags, ReadStatus
<1>7. CASE ReadOrigin(s)
  <2> PICK p : p = [[q EXCEPT !.origin = d.origin] EXCEPT !.step = "ORIGIN", !.from = @ \cup {at}]
    OBVIOUS
  <2>1. /\ p \in Probes /\ p.step = "ORIGIN" /\ p.identity = at /\ p.fd = q.fd
        /\ p.from = {at} /\ p.branch = q.branch /\ p.origin = d.origin
    BY <1>1, <1>2, <1>3 DEF Probes, Steps
  <2>2. ProbeOK(p, sess[s])
    BY <1>0, <1>1, <1>7, <2>1 DEF ProbeOK, ReadOrigin, Answers
  <2> QED BY <1>7, <2>1, <2>2 DEF ReadOrigin, Read, Becomes, Probed
<1> QED BY <1>4, <1>5, <1>6, <1>7

LEMMA CompareProbes ==
  ASSUME IInv, NEW s \in Sessions, sess[s].pc = "PROJECTED", Compare(s, sess[s].packet)
  PROVE  \E p : Probed(s, p)
<1> PICK p : p = [probe[s] EXCEPT !.step = "PASS"]
  OBVIOUS
<1>1. probe[s] \in Probes /\ ProbeOK(probe[s], sess[s]) /\ probe[s].step = "ORIGIN"
  BY DEF IInv, Typed, ProbesOK, Compare
<1>2. /\ p \in Probes /\ p.step = "PASS" /\ p.identity = probe[s].identity /\ p.fd = probe[s].fd
      /\ p.from = probe[s].from /\ p.branch = probe[s].branch /\ p.origin = probe[s].origin
  BY <1>1 DEF Probes, Steps
<1>3. CASE probe[s].origin = sess[s].packet.repo /\ probe[s].branch = sess[s].packet.branch
  <2>0. OfItsIssue(sess[s].packet, sess[s].ws)
    BY DEF IInv, SessionsOK, SessionOK
  <2>1. ProbeOK(p, sess[s])
    BY <1>1, <1>2, <1>3, <2>0 DEF ProbeOK, OfItsIssue
  <2>2. CASE Block(s)
    BY <2>2, Blocked
  <2>3. CASE Becomes(s, p)
    BY <1>2, <2>1, <2>3 DEF Becomes, Probed
  <2> QED BY <2>2, <2>3 DEF Compare
<1>4. CASE ~(probe[s].origin = sess[s].packet.repo /\ probe[s].branch = sess[s].packet.branch)
  BY <1>4, Blocked DEF Compare
<1> QED BY <1>3, <1>4

LEMMA PreflightInv ==
  ASSUME IInv, NEW s \in Sessions, Identify(s) \/ CheckStep(s)
  PROVE  IInv'
<1>1. sess[s].pc = "PROJECTED" /\ UNCHANGED <<claims, sess, issue, profile>>
  BY DEF Identify, CheckStep, world
<1>2. \E p : Probed(s, p)
  BY <1>1, IdentifyProbes, OpenProbes, ReadProbes, CompareProbes DEF Identify, CheckStep, Check
<1> PICK p : Probed(s, p)
  BY <1>2
<1> PICK me : me = sess[s]
  OBVIOUS
<1>3. /\ me \in SessionRecords /\ SessionOK(me) /\ sess' = [sess EXCEPT ![s] = me]
      /\ p \in Probes /\ ProbeOK(p, me) /\ probe' = [probe EXCEPT ![s] = p]
  BY <1>1 DEF IInv, Typed, SessionsOK, Probed
<1>4. /\ sess' \in [Sessions -> SessionRecords] /\ probe' \in [Sessions -> Probes]
      /\ SessionsOK' /\ ProbesOK'
  BY <1>3, SessionMoves
<1>5. claims' \in SUBSET Claims /\ ClaimsOK'
  BY <1>1, ClaimsStay
<1>6. DiskTyped' /\ DirsKeep' /\ WorldTyped' /\ IssuesKeep'
  BY <1>1, WorldStays, DiskStays DEF Probed
<1> QED BY <1>4, <1>5, <1>6 DEF IInv, Typed

-----------------------------------------------------------------------------
(***************************************************************************)
(* Sessions that move with their claim                                     *)
(***************************************************************************)
\* A claim of a set with another status.
LEMMA StatusTypes ==
  ASSUME NEW m \in Claims, NEW status \in ActiveClaimStatuses \cup ReleasableClaimStatuses,
         NEW n, n = [m EXCEPT !.status = status]
  PROVE  n \in Claims /\ Alike(m, n) /\ n.status = status /\ n.rev = m.rev
BY DEF Claims, Alike

LEMMA ItsClaim ==
  ASSUME IInv, NEW s \in Sessions, ~Before(sess[s])
  PROVE  /\ Holds(s) /\ Mine(s) \in claims /\ Mine(s) \in Claims /\ Mine(s).id = s
         /\ ClaimOK(sess[s], Mine(s))
<1>1. Holds(s)
  BY DEF IInv, ClaimsOK, ClaimsFollow
<1> QED BY <1>1, MineHolds DEF IInv, Typed, ClaimsOK, ClaimsFollow

\* From one place that holds a live claim to the next.
LEMMA MovesWithClaim ==
  ASSUME IInv, NEW s \in Sessions, NEW me \in SessionRecords, NEW status,
         sess' = [sess EXCEPT ![s] = me], Marked(s, status), probe[s].step = "PASS",
         \/ sess[s].pc = "PROJECTED" /\ me = [sess[s] EXCEPT !.pc = "WORKING"] /\ status = "ACTIVE"
         \/ sess[s].pc = "YIELDED" /\ me.pc = "CLEARED" /\ status = "ACTIVE"
         \/ sess[s].pc = "WORKING" /\ me.pc = "YIELDED" /\ status = "YIELD",
         me.ws = sess[s].ws, me.selected = sess[s].selected,
         UNCHANGED <<issue, profile, fs, dir, probe>>
  PROVE  IInv'
<1> PICK m, n : m = Mine(s) /\ n = [m EXCEPT !.status = status]
  OBVIOUS
<1>1. sess[s] \in SessionRecords /\ SessionOK(sess[s]) /\ probe[s] \in Probes /\ ProbeOK(probe[s], sess[s])
  BY DEF IInv, Typed, SessionsOK, ProbesOK
<1>2. /\ me.pc \in {"WORKING", "CLEARED", "YIELDED"} /\ sess[s].pc \in {"PROJECTED", "WORKING", "YIELDED"}
      /\ me.pc = "WORKING" =>
           sess[s].pc = "PROJECTED" /\ me.packet = sess[s].packet /\ me.bound = sess[s].bound
  BY <1>1 DEF SessionRecords
<1>3. SessionOK(me) /\ ProbeOK(probe[s], me)
  BY <1>1, <1>2 DEF SessionOK, ProbeOK, Reads
<1>4. probe' = [probe EXCEPT ![s] = probe[s]]
  BY DEF IInv, Typed
<1>5. /\ sess' \in [Sessions -> SessionRecords] /\ probe' \in [Sessions -> Probes]
      /\ SessionsOK' /\ ProbesOK'
  BY <1>1, <1>2, <1>3, <1>4, SessionMoves
<1>6. ~Before(sess[s]) /\ ~Before(me)
  BY <1>2 DEF Before
<1>7. Holds(s) /\ m \in Claims /\ ClaimOK(sess[s], m)
  BY <1>6, ItsClaim
<1>70. status \in {"ACTIVE", "YIELD"} /\ status \in Standing(me.pc)
  BY <1>1 DEF Standing, SessionRecords
<1>8. n \in Claims /\ Alike(m, n) /\ n.status = status /\ n.rev = m.rev
  BY <1>7, <1>70, StatusTypes DEF ActiveClaimStatuses
<1>9. m.status \in ActiveClaimStatuses
  BY <1>2, <1>7 DEF ClaimOK, Standing, ActiveClaimStatuses
<1>10. LeavesLive(m, n)
  BY <1>9 DEF LeavesLive
<1>11. ClaimOK(me, n)
  BY <1>2, <1>7, <1>70, <1>8 DEF ClaimOK, Reads, Alike
<1>12. claims' = (claims \ {Mine(s)}) \cup {n}
  BY DEF Marked
<1>13. claims' \in SUBSET Claims /\ ClaimsOK'
  BY <1>2, <1>4, <1>6, <1>7, <1>8, <1>10, <1>11, <1>12, SessionMarks
<1> QED BY <1>5, <1>13, WorldStays, DiskStays DEF IInv, Typed

\* The end of a session, from wherever it held its claim.
LEMMA EndsInv ==
  ASSUME IInv, NEW s \in Sessions, NEW status \in {"COMPLETE", "ABANDON"}, Ends(s, status),
         sess[s].pc \in {"CLAIMED", "PROJECTED", "WORKING", "CLEARED"}, UNCHANGED <<issue, profile>>
  PROVE  IInv'
<1> PICK me, m, n : /\ me = [NewSession EXCEPT !.pc = "OVER", !.ws = sess[s].ws]
                    /\ m = Mine(s) /\ n = [m EXCEPT !.status = status]
  OBVIOUS
<1>1. sess[s] \in SessionRecords /\ SessionOK(sess[s])
  BY DEF IInv, Typed, SessionsOK
<1>2. me \in SessionRecords /\ me.pc = "OVER" /\ me.ws = sess[s].ws /\ me.ws \in Workstreams
  BY <1>1, FirstTypes DEF SessionRecords, SessionOK
<1>3. SessionOK(me) /\ ProbeOK(NoProbe, me)
  BY <1>2, NothingAsked DEF SessionOK, ProbeOK, Reads
<1>4. sess' = [sess EXCEPT ![s] = me] /\ probe' = [probe EXCEPT ![s] = NoProbe] /\ UNCHANGED <<fs, dir>>
  BY DEF Ends
<1>5. /\ sess' \in [Sessions -> SessionRecords] /\ probe' \in [Sessions -> Probes]
      /\ SessionsOK' /\ ProbesOK'
  BY <1>2, <1>3, <1>4, FirstTypes, SessionMoves
<1>6. ~Before(sess[s]) /\ ~Before(me)
  BY <1>2 DEF Before
<1>7. Holds(s) /\ m \in Claims /\ ClaimOK(sess[s], m)
  BY <1>6, ItsClaim
<1>8. n \in Claims /\ Alike(m, n) /\ n.status = status /\ n.rev = m.rev
  BY <1>7, StatusTypes DEF ReleasableClaimStatuses
<1>9. LeavesLive(m, n)
  BY <1>8 DEF LeavesLive, ActiveClaimStatuses
<1>10. ClaimOK(me, n)
  <2>1. n.status \in Standing(me.pc)
    BY <1>2, <1>8 DEF Standing
  <2>2. n.tree = Work[me.ws].tree
    BY <1>2, <1>7, <1>8 DEF ClaimOK, Alike
  <2>3. ~Reads(me)
    BY <1>2 DEF Reads
  <2> QED BY <2>1, <2>2, <2>3 DEF ClaimOK
<1>11. claims' = (claims \ {Mine(s)}) \cup {n}
  BY DEF Ends, Marked
<1>12. claims' \in SUBSET Claims /\ ClaimsOK'
  BY <1>2, <1>4, <1>6, <1>7, <1>8, <1>9, <1>10, <1>11, SessionMarks
<1> QED BY <1>4, <1>5, <1>12, WorldStays, DiskStays DEF IInv, Typed

\* The packet that is read, at first or again, agrees with the one that was
\* selected in all that was compared.
LEMMA ProjectInv ==
  ASSUME IInv, NEW s \in Sessions, NEW bound \in Bindings, Project(s, bound)
  PROVE  IInv'
<1> PICK body, to : body = issue[sess[s].ws].body /\ to = IF sess[s].pc = "CLAIMED" THEN "PROJECTED" ELSE "WORKING"
  OBVIOUS
<1>1. /\ sess[s] \in SessionRecords /\ SessionOK(sess[s]) /\ probe[s] \in Probes
      /\ ProbeOK(probe[s], sess[s]) /\ sess[s].pc \in {"CLAIMED", "CLEARED"}
      /\ bound \in SUBSET WholeBinding
  BY WorkAssumption DEF IInv, Typed, SessionsOK, ProbesOK, Project
<1>2. CASE ProjectPacket(body, sess[s].selected, bound, profile)
  <2> PICK me : me = [sess[s] EXCEPT !.pc = to, !.packet = body, !.bound = bound]
    OBVIOUS
  <2>1. sess' = [sess EXCEPT ![s] = me] /\ UNCHANGED <<claims, fs, dir, probe, issue, profile>>
    BY <1>2 DEF Project, world, disk
  <2>2. sess[s].ws \in Workstreams
    BY <1>1 DEF SessionOK
  <2>3. body \in Bodies /\ OfItsIssue(body, sess[s].ws)
    BY <2>2 DEF IInv, Typed, WorldTyped, IssuesKeep
  <2>4. /\ me \in SessionRecords /\ me.pc = to /\ me.ws = sess[s].ws
        /\ me.selected = sess[s].selected /\ me.packet = body /\ me.bound = bound
    BY <1>1, <2>3 DEF SessionRecords
  <2>5. RequireIdentity(body, sess[s].selected, bound)
    BY <1>2 DEF ProjectPacket
  <2>6. SessionOK(me)
    BY <1>1, <2>3, <2>4, <2>5 DEF SessionOK, Reads
  <2>7. probe' = [probe EXCEPT ![s] = probe[s]]
    BY <2>1 DEF IInv, Typed
  <2>8. ProbeOK(probe[s], me)
    BY <1>1, <2>4 DEF ProbeOK
  <2>9. /\ sess' \in [Sessions -> SessionRecords] /\ probe' \in [Sessions -> Probes]
        /\ SessionsOK' /\ ProbesOK'
    BY <1>1, <2>1, <2>4, <2>6, <2>7, <2>8, SessionMoves
  <2>10. claims' \in SUBSET Claims /\ ClaimsOK'
    BY <1>1, <2>1, <2>4, ClaimsHeld
  <2> QED BY <2>1, <2>9, <2>10, WorldStays, DiskStays DEF IInv, Typed
<1>3. CASE ~ProjectPacket(body, sess[s].selected, bound, profile)
  <2>1. Ends(s, "ABANDON") /\ UNCHANGED <<issue, profile>>
    BY <1>3 DEF Project, world
  <2> QED BY <1>1, <2>1, EndsInv
<1> QED BY <1>2, <1>3

LEMMA StartInv ==
  ASSUME IInv, NEW s \in Sessions, Start(s)
  PROVE  IInv'
<1>1. sess[s].pc = "PROJECTED" /\ UNCHANGED <<issue, profile>>
  BY DEF Start, world
<1>2. CASE Ends(s, "ABANDON")
  BY <1>1, <1>2, EndsInv
<1>3. CASE probe[s].step = "PASS" /\ Goes(s, "WORKING") /\ Marked(s, "ACTIVE") /\ UNCHANGED disk
  <2> PICK me : me = [sess[s] EXCEPT !.pc = "WORKING"]
    OBVIOUS
  <2>1. sess' = [sess EXCEPT ![s] = me] /\ UNCHANGED <<fs, dir, probe>>
    BY <1>3 DEF Goes, disk
  <2>2. me \in SessionRecords /\ me.ws = sess[s].ws /\ me.selected = sess[s].selected
    BY DEF IInv, Typed, SessionRecords
  <2> QED BY <1>1, <1>3, <2>1, <2>2, MovesWithClaim
<1> QED BY <1>2, <1>3 DEF Start

\* What a session has left when its context is gone.
LEMMA Forgotten ==
  ASSUME IInv, NEW s \in Sessions, NEW to \in {"CLEARED", "YIELDED"}, Forgets(s, to)
  PROVE  \E me \in SessionRecords :
           /\ sess' = [sess EXCEPT ![s] = me] /\ me.pc = to /\ me.ws = sess[s].ws
           /\ me.selected = sess[s].selected
<1> PICK me : me = [sess[s] EXCEPT !.pc = to, !.packet = NoBody, !.bound = {}, !.durable = FALSE]
  OBVIOUS
<1>1. /\ me \in SessionRecords /\ me.pc = to /\ me.ws = sess[s].ws /\ me.selected = sess[s].selected
  BY FirstTypes DEF IInv, Typed, SessionRecords
<1> QED BY <1>1 DEF Forgets

LEMMA YieldResumeInv ==
  ASSUME IInv, NEW s \in Sessions, Yield(s) \/ Resume(s)
  PROVE  IInv'
<1>1. /\ sess[s].pc \in {"WORKING", "YIELDED"} /\ UNCHANGED <<issue, profile, fs, dir, probe>>
      /\ sess[s] \in SessionRecords
  BY DEF Yield, Resume, Working, world, disk, IInv, Typed
<1>2. probe[s].step = "PASS"
  BY <1>1 DEF IInv, ProbesOK, ProbeOK
<1>3. CASE Yield(s)
  <2>1. sess[s].pc = "WORKING" /\ Forgets(s, "YIELDED") /\ Marked(s, "YIELD")
    BY <1>3 DEF Yield, Working
  <2> PICK me \in SessionRecords :
        /\ sess' = [sess EXCEPT ![s] = me] /\ me.pc = "YIELDED" /\ me.ws = sess[s].ws
        /\ me.selected = sess[s].selected
    BY <2>1, Forgotten
  <2> QED BY <1>1, <1>2, <2>1, MovesWithClaim
<1>4. CASE Resume(s)
  <2> PICK me : me = [sess[s] EXCEPT !.pc = "CLEARED"]
    OBVIOUS
  <2>1. sess[s].pc = "YIELDED" /\ sess' = [sess EXCEPT ![s] = me] /\ Marked(s, "ACTIVE")
    BY <1>4 DEF Resume, Goes
  <2>2. /\ me \in SessionRecords /\ me.pc = "CLEARED" /\ me.ws = sess[s].ws
        /\ me.selected = sess[s].selected
    BY <1>1 DEF SessionRecords
  <2> QED BY <1>1, <1>2, <2>1, <2>2, MovesWithClaim
<1> QED BY <1>3, <1>4

LEMMA FinishInv ==
  ASSUME IInv, NEW s \in Sessions, Finish(s)
  PROVE  IInv'
BY EndsInv DEF Finish, Working, world

-----------------------------------------------------------------------------
(***************************************************************************)
(* Working                                                                 *)
(***************************************************************************)
LEMMA DirMoves ==
  ASSUME IInv, NEW at \in DOMAIN Directories, NEW d \in Places, dir' = [dir EXCEPT ![at] = d],
         d.branch = dir[at].branch, d.origin = dir[at].origin, UNCHANGED fs
  PROVE  DiskTyped' /\ DirsKeep'
<1>1. \A x \in DOMAIN Directories : dir'[x] = IF x = at THEN d ELSE dir[x]
  BY DEF IInv, Typed, DiskTyped
<1>2. DiskTyped'
  BY DEF IInv, Typed, DiskTyped
<1> QED BY <1>1, <1>2 DEF IInv, DirsKeep, Lasting

\* A worker that goes on keeps its place, its packet and its claim.
LEMMA WorkerStays ==
  ASSUME IInv, NEW s \in Sessions, NEW me \in SessionRecords, sess' = [sess EXCEPT ![s] = me],
         me.pc = sess[s].pc, me.ws = sess[s].ws, me.selected = sess[s].selected,
         me.packet = sess[s].packet, me.bound = sess[s].bound, UNCHANGED <<claims, probe>>
  PROVE  /\ sess' \in [Sessions -> SessionRecords] /\ probe' \in [Sessions -> Probes]
         /\ SessionsOK' /\ ProbesOK' /\ claims' \in SUBSET Claims /\ ClaimsOK'
<1>1. probe[s] \in Probes /\ ProbeOK(probe[s], sess[s]) /\ SessionOK(sess[s])
  BY DEF IInv, Typed, SessionsOK, ProbesOK
<1>2. SessionOK(me) /\ ProbeOK(probe[s], me)
  BY <1>1 DEF SessionOK, ProbeOK, Reads
<1>3. probe' = [probe EXCEPT ![s] = probe[s]]
  BY DEF IInv, Typed
<1>4. claims' \in SUBSET Claims /\ ClaimsOK'
  BY ClaimsHeld
<1>5. /\ sess' \in [Sessions -> SessionRecords] /\ probe' \in [Sessions -> Probes]
      /\ SessionsOK' /\ ProbesOK'
  BY <1>1, <1>2, <1>3, SessionMoves
<1> QED BY <1>4, <1>5

LEMMA ItsPlace ==
  ASSUME IInv, NEW s \in Sessions, Working(s)
  PROVE  probe[s].identity \in DOMAIN Directories /\ Place(s) \in Places /\ sess[s] \in SessionRecords
<1>1. probe[s].identity \in DOMAIN Directories
  BY DEF IInv, ProbesOK, ProbeOK, Working
<1> QED BY <1>1 DEF IInv, Typed, DiskTyped, Place

LEMMA EditInv ==
  ASSUME IInv, NEW s \in Sessions, Edit(s)
  PROVE  IInv'
<1> PICK me, d, at : /\ me = [sess[s] EXCEPT !.open = TRUE, !.durable = FALSE]
                     /\ d = [Place(s) EXCEPT !.change = "SEEN"] /\ at = probe[s].identity
  OBVIOUS
<1>1. Working(s) /\ UNCHANGED <<fs, probe, claims, issue, profile>>
  BY DEF Edit, Changed, world
<1>2. at \in DOMAIN Directories /\ Place(s) \in Places /\ sess[s] \in SessionRecords /\ dir[at] = Place(s)
  BY <1>1, ItsPlace DEF Place
<1>4. /\ me \in SessionRecords /\ me.pc = sess[s].pc /\ me.ws = sess[s].ws
      /\ me.selected = sess[s].selected /\ me.packet = sess[s].packet /\ me.bound = sess[s].bound
  BY <1>2 DEF SessionRecords
<1>5. d \in Places /\ d.branch = dir[at].branch /\ d.origin = dir[at].origin
  BY <1>2 DEF Places
<1>6. sess' = [sess EXCEPT ![s] = me] /\ dir' = [dir EXCEPT ![at] = d]
  BY DEF Edit, Changed
<1>7. DiskTyped' /\ DirsKeep'
  BY <1>1, <1>2, <1>5, <1>6, DirMoves
<1> QED BY <1>1, <1>4, <1>6, <1>7, WorkerStays, WorldStays DEF IInv, Typed

LEMMA CommitInv ==
  ASSUME IInv, NEW s \in Sessions, Commit(s)
  PROVE  IInv'
<1> PICK head : head = Place(s).head + 1
  OBVIOUS
<1> PICK me, d, at : /\ me = [sess[s] EXCEPT !.open = FALSE]
                     /\ d = [Place(s) EXCEPT !.change = "NONE", !.head = head, !.unpushed = TRUE]
                     /\ at = probe[s].identity
  OBVIOUS
<1>1. Working(s) /\ UNCHANGED <<fs, probe, claims, issue, profile>>
  BY DEF Commit, Changed, world
<1>2. at \in DOMAIN Directories /\ Place(s) \in Places /\ sess[s] \in SessionRecords /\ dir[at] = Place(s)
  BY <1>1, ItsPlace DEF Place
<1>4. /\ me \in SessionRecords /\ me.pc = sess[s].pc /\ me.ws = sess[s].ws
      /\ me.selected = sess[s].selected /\ me.packet = sess[s].packet /\ me.bound = sess[s].bound
  BY <1>2 DEF SessionRecords
<1>5. d \in Places /\ d.branch = dir[at].branch /\ d.origin = dir[at].origin
  <2>1. Place(s).head \in Nat
    BY <1>2 DEF Places
  <2>2. head \in Nat
    BY <2>1
  <2> QED BY <1>2, <2>2 DEF Places
<1>6. sess' = [sess EXCEPT ![s] = me] /\ dir' = [dir EXCEPT ![at] = d]
  BY DEF Commit, Changed
<1>7. DiskTyped' /\ DirsKeep'
  BY <1>1, <1>2, <1>5, <1>6, DirMoves
<1> QED BY <1>1, <1>4, <1>6, <1>7, WorkerStays, WorldStays DEF IInv, Typed

LEMMA PushInv ==
  ASSUME IInv, NEW s \in Sessions, Push(s)
  PROVE  IInv'
<1> PICK d, at : d = [Place(s) EXCEPT !.unpushed = FALSE] /\ at = probe[s].identity
  OBVIOUS
<1>1. Working(s) /\ UNCHANGED <<fs, probe, sess, claims, issue, profile>>
  BY DEF Push, Changed, world
<1>2. at \in DOMAIN Directories /\ Place(s) \in Places /\ dir[at] = Place(s)
  BY <1>1, ItsPlace DEF Place
<1>5. d \in Places /\ d.branch = dir[at].branch /\ d.origin = dir[at].origin
  BY <1>2 DEF Places
<1>6. dir' = [dir EXCEPT ![at] = d]
  BY DEF Push, Changed
<1>7. DiskTyped' /\ DirsKeep'
  BY <1>1, <1>2, <1>5, <1>6, DirMoves
<1> QED BY <1>1, <1>7, SessionsStay, ClaimsStay, WorldStays DEF IInv, Typed

\* A context is cleared, or a checkpoint taken.
LEMMA EpochInv ==
  ASSUME IInv, NEW s \in Sessions, Epoch(s)
  PROVE  IInv'
<1>1. Working(s) /\ UNCHANGED <<claims, issue, profile, fs, dir, probe>>
  BY DEF Epoch, world, disk
<1>2. /\ sess[s] \in SessionRecords /\ SessionOK(sess[s]) /\ probe[s] \in Probes
      /\ ProbeOK(probe[s], sess[s]) /\ probe' = [probe EXCEPT ![s] = probe[s]]
  BY <1>1 DEF IInv, Typed, SessionsOK, ProbesOK
<1>3. CASE Forgets(s, "CLEARED")
  <2> PICK me \in SessionRecords :
        /\ sess' = [sess EXCEPT ![s] = me] /\ me.pc = "CLEARED" /\ me.ws = sess[s].ws
        /\ me.selected = sess[s].selected
    BY <1>3, Forgotten
  <2>1. SessionOK(me) /\ ProbeOK(probe[s], me)
    BY <1>1, <1>2 DEF SessionOK, ProbeOK, Reads, Working
  <2>2. /\ sess' \in [Sessions -> SessionRecords] /\ probe' \in [Sessions -> Probes]
        /\ SessionsOK' /\ ProbesOK'
    BY <1>2, <2>1, SessionMoves
  <2>3. claims' \in SUBSET Claims /\ ClaimsOK'
    BY <1>1, ClaimsHeld DEF Working
  <2> QED BY <1>1, <2>2, <2>3, WorldStays, DiskStays DEF IInv, Typed
<1>4. CASE sess' = [sess EXCEPT ![s] = [@ EXCEPT !.durable = TRUE]]
  <2> PICK me : me = [sess[s] EXCEPT !.durable = TRUE]
    OBVIOUS
  <2>1. /\ me \in SessionRecords /\ me.pc = sess[s].pc /\ me.ws = sess[s].ws
        /\ me.selected = sess[s].selected /\ me.packet = sess[s].packet /\ me.bound = sess[s].bound
    BY <1>2 DEF SessionRecords
  <2>2. sess' = [sess EXCEPT ![s] = me]
    BY <1>4
  <2> QED BY <1>1, <2>1, <2>2, WorkerStays, WorldStays, DiskStays DEF IInv, Typed
<1> QED BY <1>3, <1>4 DEF Epoch

-----------------------------------------------------------------------------
(***************************************************************************)
(* Ending, and the others                                                  *)
(***************************************************************************)
\* Only the status or the doubt of a claim changes, and nothing comes alive.
LEMMA ClaimMarked ==
  ASSUME IInv, NEW s \in Sessions, NEW n, Holds(s), n \in Claims, Alike(Mine(s), n), n.rev = Mine(s).rev,
         LeavesLive(Mine(s), n), n.status \in Standing(sess[s].pc),
         claims' = (claims \ {Mine(s)}) \cup {n}, UNCHANGED <<sess, probe, fs, dir, issue, profile>>
  PROVE  IInv'
<1> PICK me, m : me = sess[s] /\ m = Mine(s)
  OBVIOUS
<1>1. me \in SessionRecords /\ sess' = [sess EXCEPT ![s] = me]
  BY DEF IInv, Typed
<1>2. ~Before(me)
  BY DEF IInv, ClaimsOK, ClaimsFollow
<1>3. ClaimOK(me, m)
  BY <1>2, ItsClaim
<1>4. ClaimOK(me, n)
  BY <1>3 DEF ClaimOK, Alike
<1>5. claims' \in SUBSET Claims /\ ClaimsOK'
  BY <1>1, <1>2, <1>4, SessionMarks
<1> QED BY <1>5, SessionsStay, WorldStays, DiskStays DEF IInv, Typed

LEMMA ReleaseInv ==
  ASSUME IInv, NEW s \in Sessions, Release(s)
  PROVE  IInv'
<1> PICK m, n : m = Mine(s) /\ n = [m EXCEPT !.status = "RELEASED"]
  OBVIOUS
<1>1. Holds(s) /\ ~Before(sess[s])
  BY DEF Release, IInv, ClaimsOK, ClaimsFollow
<1>2. m \in Claims /\ ClaimOK(sess[s], m)
  BY <1>1, ItsClaim
<1>3. m.status \in ReleasableClaimStatuses
  BY DEF Release, EvaluateRelease
<1>4. "RELEASED" \in Standing(sess[s].pc)
  BY <1>2, <1>3 DEF ClaimOK, Standing, ReleasableClaimStatuses
<1>5. n \in Claims /\ Alike(m, n) /\ n.status = "RELEASED" /\ n.rev = m.rev
  BY <1>2, StatusTypes DEF ReleasableClaimStatuses
<1>6. LeavesLive(m, n)
  BY <1>5 DEF LeavesLive, ActiveClaimStatuses
<1>7. claims' = (claims \ {Mine(s)}) \cup {n} /\ UNCHANGED <<sess, probe, fs, dir, issue, profile>>
  BY DEF Release, Marked, world, disk
<1> QED BY <1>1, <1>4, <1>5, <1>6, <1>7, ClaimMarked

LEMMA DoubtInv ==
  ASSUME IInv, NEW s \in Sessions, Doubt(s)
  PROVE  IInv'
<1> PICK m, n : m = Mine(s) /\ n = [m EXCEPT !.ambiguous = ~@]
  OBVIOUS
<1>1. Holds(s) /\ ~Before(sess[s])
  BY DEF Doubt, IInv, ClaimsOK, ClaimsFollow
<1>2. m \in Claims /\ ClaimOK(sess[s], m)
  BY <1>1, ItsClaim
<1>3. n \in Claims /\ Alike(m, n) /\ n.status = m.status /\ n.rev = m.rev
  BY <1>2 DEF Claims, Alike
<1>4. LeavesLive(m, n) /\ n.status \in Standing(sess[s].pc)
  BY <1>2, <1>3 DEF LeavesLive, ClaimOK
<1>5. claims' = (claims \ {Mine(s)}) \cup {n} /\ UNCHANGED <<sess, probe, fs, dir, issue, profile>>
  BY DEF Doubt, disk
<1> QED BY <1>1, <1>3, <1>4, <1>5, ClaimMarked

LEMMA ReconcileInv ==
  ASSUME IInv, NEW s \in Sessions, Reconcile(s)
  PROVE  IInv'
<1> PICK m, d : m = Mine(s) /\ d = dir[fs[Tree(s)]]
  OBVIOUS
<1> PICK n : n = [m EXCEPT !.dirty = d.change # "NONE", !.unpushed = d.unpushed]
  OBVIOUS
<1>1. sess[s].pc = "OVER" /\ ~Before(sess[s])
  BY DEF Reconcile, Before
<1>2. Holds(s) /\ m \in Claims /\ ClaimOK(sess[s], m)
  BY <1>1, ItsClaim
<1>3. Tree(s) \in DOMAIN Worktrees
  <2>1. sess[s].ws \in Workstreams
    BY <1>1 DEF IInv, SessionsOK, SessionOK
  <2> QED BY <2>1, WorkAssumption DEF Tree, TreeOf, Workstreams
<1>4. fs[Tree(s)] \in DOMAIN Directories
  BY <1>3 DEF Reconcile, IInv, Typed, DiskTyped
<1>5. d.unpushed \in BOOLEAN
  BY <1>4 DEF IInv, Typed, DiskTyped, Places
<1>6. n \in Claims /\ Alike(m, n) /\ n.status = m.status /\ n.rev = m.rev
  BY <1>2, <1>5 DEF Claims, Alike
<1>7. LeavesLive(m, n) /\ n.status \in Standing(sess[s].pc)
  BY <1>2, <1>6 DEF LeavesLive, ClaimOK
<1>8. claims' = (claims \ {Mine(s)}) \cup {n} /\ UNCHANGED <<sess, probe, fs, dir, issue, profile>>
  BY DEF Reconcile, world, disk
<1> QED BY <1>2, <1>6, <1>7, <1>8, ClaimMarked

LEMMA PathsMove ==
  ASSUME IInv, NEW p, NEW at \in DOMAIN Directories \cup {NoDirectory}, fs' = [fs EXCEPT ![p] = at],
         UNCHANGED <<dir, probe, claims, sess, issue, profile>>
  PROVE  IInv'
<1>1. DiskTyped' /\ DirsKeep'
  BY DEF IInv, Typed, DiskTyped, DirsKeep
<1> QED BY <1>1, SessionsStay, ClaimsStay, WorldStays DEF IInv, Typed

LEMMA CleanupInv ==
  ASSUME IInv, NEW s \in Sessions, Cleanup(s)
  PROVE  IInv'
BY PathsMove DEF Cleanup, world

LEMMA SwapInv ==
  ASSUME IInv, NEW p \in DOMAIN fs, Swap(p)
  PROVE  IInv'
<1> PICK at : at = IF fs[p] = Decoy THEN Worktrees[p] ELSE Decoy
  OBVIOUS
<1>1. at \in DOMAIN Directories \cup {NoDirectory}
  BY WorkAssumption DEF IInv, Typed, DiskTyped
<1>2. fs' = [fs EXCEPT ![p] = at] /\ UNCHANGED <<dir, probe, claims, sess, issue, profile>>
  BY DEF Swap
<1> QED BY <1>1, <1>2, PathsMove

LEMMA TouchInv ==
  ASSUME IInv, NEW at \in DOMAIN dir, Touch(at)
  PROVE  IInv'
<1> PICK how \in {"SEEN", "HIDDEN"} : dir' = [dir EXCEPT ![at].change = how]
  BY DEF Touch
<1> PICK d : d = [dir[at] EXCEPT !.change = how]
  OBVIOUS
<1>1. at \in DOMAIN Directories /\ dir[at] \in Places
  BY DEF IInv, Typed, DiskTyped
<1>2. d \in Places /\ d.branch = dir[at].branch /\ d.origin = dir[at].origin
  BY <1>1 DEF Places
<1>3. dir' = [dir EXCEPT ![at] = d] /\ UNCHANGED <<fs, probe, issue, profile, claims, sess>>
  BY DEF Touch
<1>4. DiskTyped' /\ DirsKeep'
  BY <1>1, <1>2, <1>3, DirMoves
<1> QED BY <1>3, <1>4, SessionsStay, ClaimsStay, WorldStays DEF IInv, Typed

\* An owner changes the revision, the profile, the workstream and the blockers
\* of a packet, never its repository and branch.
LEMMA EditIssueInv ==
  ASSUME IInv, NEW w \in Workstreams, EditIssue(w)
  PROVE  IInv'
<1> PICK old : old = issue[w].body
  OBVIOUS
<1> PICK b \in Rewritten(w, old) : issue' = [issue EXCEPT ![w].body = b]
  BY DEF EditIssue
<1>1. old \in Bodies /\ profile.id \in STRING /\ profile.rev \in Nat /\ OfItsIssue(old, w)
  BY DEF IInv, Typed, WorldTyped, Profiles, IssuesKeep
<1>2. b \in Bodies /\ b.repo = old.repo /\ b.branch = old.branch
  <2> PICK id, rev, next : id = profile.id /\ rev = profile.rev /\ next = old.rev + 1
    OBVIOUS
  <2>1. [id |-> id, rev |-> rev] \in [id : STRING, rev : Nat]
    BY <1>1
  <2>2. old.rev \in Nat /\ old.profile \in [id : STRING, rev : Nat]
    BY <1>1 DEF Bodies
  <2>3. next \in Nat
    BY <2>2
  <2>4. CASE b = [old EXCEPT !.blocker = ~@]
    BY <1>1, <2>4 DEF Bodies
  <2>5. CASE b = [old EXCEPT !.rev = next, !.profile = [id |-> id, rev |-> rev]]
    BY <1>1, <2>1, <2>5, <2>3 DEF Bodies
  <2>6. CASE b = [old EXCEPT !.rev = next, !.profile = old.profile]
    BY <1>1, <2>6, <2>2, <2>3 DEF Bodies
  <2>7. CASE b = [old EXCEPT !.workstream = Renamed]
    BY <1>1, <2>7, WorkAssumption DEF Bodies
  <2> QED BY <2>4, <2>5, <2>6, <2>7 DEF Rewritten
<1>3. OfItsIssue(b, w)
  BY <1>1, <1>2 DEF OfItsIssue
<1>4. \A v \in Workstreams : issue'[v].body = IF v = w THEN b ELSE issue[v].body
  BY DEF IInv, Typed, WorldTyped
<1>5. issue' \in [Workstreams -> [body : Bodies, open : BOOLEAN, ready : BOOLEAN]]
  BY <1>2 DEF IInv, Typed, WorldTyped
<1>6. UNCHANGED <<profile, claims, sess, fs, dir, probe>>
  BY DEF EditIssue, disk
<1>7. WorldTyped' /\ IssuesKeep'
  BY <1>3, <1>4, <1>5, <1>6 DEF IInv, Typed, WorldTyped, IssuesKeep
<1> QED BY <1>6, <1>7, SessionsStay, ClaimsStay, DiskStays DEF IInv, Typed

LEMMA ProfileHostInv ==
  ASSUME IInv, ChangeProfile \/ HostChanges
  PROVE  IInv'
<1>1. UNCHANGED <<issue, claims, sess, fs, dir, probe>>
  BY DEF ChangeProfile, HostChanges, disk
<1>2. profile' \in Profiles
  <2> PICK next : next = profile.rev + 1
    OBVIOUS
  <2>1. profile \in Profiles /\ profile.rev \in Nat
    BY DEF IInv, Typed, WorldTyped, Profiles
  <2>2. next \in Nat
    BY <2>1
  <2>3. profile' = profile \/ profile' = [profile EXCEPT !.rev = next, !.legacy = {}]
    BY DEF ChangeProfile, HostChanges
  <2>4. [profile EXCEPT !.rev = next, !.legacy = {}] \in Profiles
    BY <2>1, <2>2 DEF Profiles
  <2> QED BY <2>1, <2>3, <2>4
<1>3. WorldTyped' /\ IssuesKeep'
  BY <1>1, <1>2 DEF IInv, Typed, WorldTyped, IssuesKeep
<1> QED BY <1>1, <1>3, SessionsStay, ClaimsStay, DiskStays DEF IInv, Typed

-----------------------------------------------------------------------------
(***************************************************************************)
(* Every step                                                              *)
(***************************************************************************)
LEMMA NextInv == IInv /\ [Next]_vars => IInv'
<1> SUFFICES ASSUME IInv, [Next]_vars
             PROVE  IInv'
  OBVIOUS
<1>1. CASE UNCHANGED vars
  <2>1. UNCHANGED <<fs, dir, probe, issue, profile, claims, sess>>
    BY <1>1 DEF vars
  <2> QED BY <2>1, SessionsStay, ClaimsStay, WorldStays, DiskStays DEF IInv, Typed
<1>2. ASSUME NEW s \in Sessions, NEW w \in DOMAIN Packets, Select(s, w)
      PROVE  IInv'
  BY <1>2, SelectInv DEF Workstreams
<1>3. ASSUME NEW s \in Sessions, NEW wip \in 1..MaxWip, Admit(s, wip)
      PROVE  IInv'
  BY <1>3, AdmitInv
<1>4. ASSUME NEW s \in Sessions, NEW bound \in Bindings, Project(s, bound)
      PROVE  IInv'
  BY <1>4, ProjectInv
<1>5. ASSUME NEW s \in Sessions, Identify(s) \/ CheckStep(s) \/ Start(s)
      PROVE  IInv'
  BY <1>5, PreflightInv, StartInv
<1>6. ASSUME NEW s \in Sessions, Edit(s) \/ Commit(s) \/ Push(s)
      PROVE  IInv'
  BY <1>6, EditInv, CommitInv, PushInv
<1>7. ASSUME NEW s \in Sessions, Epoch(s)
      PROVE  IInv'
  BY <1>7, EpochInv
<1>8. ASSUME NEW s \in Sessions, Yield(s) \/ Resume(s)
      PROVE  IInv'
  BY <1>8, YieldResumeInv
<1>9. ASSUME NEW s \in Sessions, Finish(s)
      PROVE  IInv'
  BY <1>9, FinishInv
<1>10. ASSUME NEW s \in Sessions, Release(s) \/ Reconcile(s) \/ Cleanup(s) \/ Doubt(s)
       PROVE  IInv'
  BY <1>10, ReleaseInv, ReconcileInv, CleanupInv, DoubtInv
<1>11. ASSUME NEW w \in DOMAIN Packets, EditIssue(w)
       PROVE  IInv'
  BY <1>11, EditIssueInv DEF Workstreams
<1>12. CASE ChangeProfile \/ HostChanges
  BY <1>12, ProfileHostInv
<1>13. ASSUME NEW p \in DOMAIN fs, Swap(p)
       PROVE  IInv'
  BY <1>13, SwapInv
<1>14. ASSUME NEW at \in DOMAIN dir, Touch(at)
       PROVE  IInv'
  BY <1>14, TouchInv
<1> QED BY <1>1, <1>2, <1>3, <1>4, <1>5, <1>6, <1>7, <1>8, <1>9, <1>10, <1>11, <1>12, <1>13, <1>14
        DEF Next

LEMMA Invariant == Spec => []IInv
BY InitInv, NextInv, PTL DEF Spec

-----------------------------------------------------------------------------
(***************************************************************************)
(* What follows                                                            *)
(***************************************************************************)
LEMMA TypesFollow == IInv => TypeOK
<1> SUFFICES ASSUME IInv
             PROVE  TypeOK
  OBVIOUS
<1>1. fs \in [DOMAIN Worktrees -> DOMAIN Directories \cup {NoDirectory}] /\ DOMAIN dir = DOMAIN Directories
  BY DEF IInv, Typed, DiskTyped
<1>2. ASSUME NEW s \in Sessions
      PROVE  Cardinality({c \in claims : c.id = s}) = (IF sess[s].pc \in {"IDLE", "SELECTED"} THEN 0 ELSE 1)
  <2>1. CASE Before(sess[s])
    <3>1. {c \in claims : c.id = s} = {}
      BY <2>1 DEF IInv, ClaimsOK, ClaimsFollow, Holds
    <3> QED BY <2>1, <3>1, FS_EmptySet DEF Before
  <2>2. CASE ~Before(sess[s])
    <3>1. Mine(s) \in claims /\ Mine(s).id = s /\ Unique(claims)
      BY <2>2, ItsClaim DEF IInv, ClaimsOK
    <3>2. {c \in claims : c.id = s} = {Mine(s)}
      BY <3>1 DEF Unique
    <3> QED BY <2>2, <3>2, FS_Singleton DEF Before
  <2> QED BY <2>1, <2>2
<1>3. ASSUME NEW s \in Sessions
      PROVE  /\ sess[s].pc \in {"IDLE", "SELECTED", "CLAIMED", "PROJECTED", "WORKING", "CLEARED",
                                "YIELDED", "OVER"}
             /\ sess[s].bound \subseteq WholeBinding
  <2>1. sess[s] \in SessionRecords
    BY DEF IInv, Typed
  <2> QED BY <2>1 DEF SessionRecords
<1>4. ASSUME NEW s \in Sessions
      PROVE  /\ probe[s].step \notin {"NONE", "BLOCK"} => probe[s].identity \in DOMAIN dir
             /\ probe[s].step # "NONE" => sess[s].pc \in {"PROJECTED", "WORKING", "CLEARED", "YIELDED"}
  BY <1>1 DEF IInv, ProbesOK, ProbeOK
<1> QED BY <1>1, <1>2, <1>3, <1>4 DEF TypeOK

\* Sessions, claims and probes keep their shape, and a session past admission
\* holds exactly one claim (evaluate_admit refuses the id of another).
THEOREM Types == Spec => []TypeOK
BY Invariant, TypesFollow, PTL

\* However its Issue is edited before it is read, and read again after a
\* context was cleared or handed on, a worker agrees with its claim in the
\* repository, the workstream and the revision as far as the caller had
\* context_epoch's require_identity compare them, and with a hash, as the
\* binding of packet-identity has one, its packet is runnable.
THEOREM OnItsClaim == Spec => []WorksOnItsClaim
<1>1. IInv => WorksOnItsClaim
  <2> SUFFICES ASSUME IInv, NEW s \in Sessions, HasPacket(s)
               PROVE  /\ \A key \in {"repo", "workstream", "rev"} \cap sess[s].bound :
                           sess[s].packet[key] = Mine(s)[key]
                      /\ "body" \in sess[s].bound =>
                           sess[s].packet.status = "ACTIVE" /\ ~NotRunnable(sess[s].packet)
    BY DEF WorksOnItsClaim
  <2>1. ~Before(sess[s]) /\ Reads(sess[s]) /\ sess[s].pc \in {"PROJECTED", "WORKING"}
    BY DEF HasPacket, Before, Reads
  <2>2. ClaimOK(sess[s], Mine(s))
    BY <2>1, ItsClaim
  <2>3. /\ RequireIdentity(sess[s].packet, sess[s].selected, sess[s].bound)
        /\ Runnable(sess[s].selected)
    BY <2>1 DEF IInv, SessionsOK, SessionOK
  <2>4. \A key \in {"repo", "workstream", "rev"} : Mine(s)[key] = sess[s].selected[key]
    BY <2>1, <2>2 DEF ClaimOK
  <2>5. \A key \in {"repo", "workstream", "rev"} \cap sess[s].bound :
          sess[s].packet[key] = sess[s].selected[key]
    BY <2>3 DEF RequireIdentity, IdentityKeys
  <2> QED BY <2>3, <2>4, <2>5 DEF RequireIdentity, Runnable
<1> QED BY <1>1, Invariant, PTL

\* Every answer a preflight passed on came from the directory that was taken
\* down for it (implementation_preflight's descriptor), whatever was renamed
\* over the path between the calls of Git.
THEOREM EvidenceIsBound == Spec => []PassedEvidenceIsBound
<1>1. IInv => PassedEvidenceIsBound
  BY DEF IInv, ProbesOK, ProbeOK, PassedEvidenceIsBound, Started
<1> QED BY <1>1, Invariant, PTL

\* No branch is that of two packets of one repository. Git sees to it where
\* each workstream has a worktree: a branch is checked out in one of them only.
DistinctBranches ==
  \A v, w \in Workstreams :
    v # w /\ Packets[v].repo = Packets[w].repo => Packets[v].branch # Packets[w].branch

LEMMA PlacesDiffer ==
  ASSUME IInv, DistinctBranches, NEW s \in Sessions, NEW t \in Sessions, s # t, Started(s), Started(t)
  PROVE  probe[s].identity # probe[t].identity
<1>1. ASSUME NEW r \in Sessions, Started(r)
      PROVE  /\ sess[r].ws \in Workstreams
             /\ Directories[probe[r].identity].origin = Packets[sess[r].ws].repo
             /\ Directories[probe[r].identity].branch = Packets[sess[r].ws].branch
             /\ Mine(r) \in Active(claims) /\ Mine(r).id = r
             /\ Mine(r).tree = Work[sess[r].ws].tree /\ Mine(r).repo = Packets[sess[r].ws].repo
  <2>1. ~Before(sess[r]) /\ Reads(sess[r]) /\ sess[r].pc \in {"WORKING", "CLEARED", "YIELDED"}
    BY <1>1 DEF Started, Before, Reads
  <2>2. SessionOK(sess[r]) /\ ProbeOK(probe[r], sess[r])
    BY DEF IInv, SessionsOK, ProbesOK
  <2>3. Mine(r) \in claims /\ Mine(r).id = r /\ ClaimOK(sess[r], Mine(r))
    BY <2>1, ItsClaim
  <2>4. Mine(r) \in Active(claims)
    BY <2>1, <2>3 DEF Active, ClaimOK, Standing, ActiveClaimStatuses
  <2> QED BY <2>1, <2>2, <2>3, <2>4 DEF ClaimOK, SessionOK, OfItsIssue, ProbeOK
<1> SUFFICES ASSUME probe[s].identity = probe[t].identity
             PROVE  FALSE
  OBVIOUS
<1>2. Packets[sess[s].ws].repo = Packets[sess[t].ws].repo
      /\ Packets[sess[s].ws].branch = Packets[sess[t].ws].branch
  BY <1>1
<1>3. sess[s].ws = sess[t].ws
  BY <1>1, <1>2 DEF DistinctBranches
<1>4. Compatible(Mine(s), Mine(t))
  BY <1>1 DEF IInv, ClaimsOK, Apart
<1> QED BY <1>1, <1>2, <1>3, <1>4 DEF Compatible

\* Two live claims never conflict (work_admission's evaluate_admit, which looks
\* at every status that still holds something), and, as long as no branch is
\* that of two packets of one repository, two workers that have started are
\* never in one directory.
THEOREM Independent ==
  ASSUME DistinctBranches
  PROVE  Spec => []IndependentWorkers
<1>1. IInv => IndependentWorkers
  <2> SUFFICES ASSUME IInv, NEW s \in Sessions, NEW t \in Sessions, s # t
               PROVE  /\ Started(s) /\ Started(t) => probe[s].identity # probe[t].identity
                      /\ \A c, d \in Live : c.id = s /\ d.id = t => Compatible(c, d)
    BY DEF IndependentWorkers, Compatible
  <2>1. Live = Active(claims)
    BY DEF Live, Active, ActiveClaimStatuses
  <2>2. \A c, d \in Live : c.id = s /\ d.id = t => Compatible(c, d)
    BY <2>1 DEF IInv, ClaimsOK, Apart
  <2> QED BY <2>2, PlacesDiffer
<1> QED BY <1>1, Invariant, PTL
=============================================================================
