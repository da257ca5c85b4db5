----------------------------- MODULE WatchHost -----------------------------
(***************************************************************************)
(* The watch host (tools/coordinator_watch_host.py): runs that collect,    *)
(* evaluate the watch and deliver at most one typed action each, with a    *)
(* lock, a watch state, a ledger and a journal per watch identity. A run   *)
(* may die between any two steps; its lock goes with it. A file is replaced*)
(* by a rename, so a write is one step. What the owner and GitHub see is   *)
(* kept in log. All observations carry the same second.                    *)
(***************************************************************************)
EXTENDS Collector, Skills, DispatchStore

CONSTANTS
  Hosts,         \* run-once processes
  World,         \* environment: the worlds there are
  Assertions,    \* environment: what may have been signed
  Customs,       \* environment: profiles of the repository
  WatchClass,    \* the class of the declared watch
  MaxMoves,      \* bound on the changes of the world
  MaxRuns,       \* bound on the runs that are started
  MaxCrashes,    \* bound on the runs that die
  NoHost         \* model value: the lock is free

ASSUME WatchHostAssumption ==
  /\ World \subseteq Worlds /\ WatchClass \in WatchClasses /\ NoHost \notin Hosts
  /\ MaxMoves \in Nat /\ MaxRuns \in Nat /\ MaxCrashes \in Nat

VARIABLES
  facts,         \* what a run collects from the world as it is
  signed,        \* the assertion behind each dispatch id
  custom,        \* the profiles of the repository
  expired,       \* the dispatches past their expiry
  lock,          \* for each watch identity, the run that holds its lock
  st, ledger, journal,   \* its watch state, ledger and effect journal
  run,           \* each process: the step it is at and what it holds in memory
  log,           \* external: effects sent and deliveries reported, in order
  uses,          \* external: what each dispatch was used for, in order
  count          \* moves, runs and crashes so far, and attempt ids drawn

files == <<st, ledger, journal>>
vars == <<facts, signed, custom, expired, lock, files, run, log, uses, count, marker>>

Observable == {Collect(w) : w \in World}
Identities == Revisions \X Heads
NoJournal == [phase |-> "NONE", effect |-> <<>>, dispatch |-> "", attempt |-> 0]
Idle == [pc |-> "idle", seen |-> <<>>, answer |-> <<>>, effect |-> <<>>, dispatch |-> "", attempt |-> 0]

Init ==
  /\ InitMarkers /\ facts \in Observable /\ signed \in [Dispatches -> Assertions] /\ custom \in Customs
  /\ expired = {} /\ lock = [i \in Identities |-> NoHost]
  /\ st = [i \in Identities |-> NewState] /\ ledger = [i \in Identities |-> {}]
  /\ journal = [i \in Identities |-> NoJournal]
  /\ run = [p \in Hosts |-> Idle] /\ log = <<>> /\ uses = <<>>
  /\ count = [moves |-> 0, runs |-> 0, crashes |-> 0, attempts |-> 0]

Tally(what) == count' = [count EXCEPT ![what] = @ + 1]
Outside == <<facts, signed, custom, expired>>
Seen == <<log, uses>>          \* by the owner and by GitHub

(***************************************************************************)
(* A run up to its typed result                                            *)
(***************************************************************************)
Identity(f) == <<f.packet.rev, SubjectVersion(f)>>
Mine(p) == <<run[p].answer.state.rev, run[p].answer.state.subject>>
Result(p) == run[p].answer.result

Go(p, pc) == run' = [run EXCEPT ![p].pc = pc]
\* The end of a run: the lock is released whatever happened.
Finish(p) ==
  /\ run' = [run EXCEPT ![p] = Idle]
  /\ lock' = [i \in Identities |-> IF lock[i] = p THEN NoHost ELSE lock[i]]

\* The first reads, before the lock: they name the watch identity.
Start(p) ==
  /\ run[p].pc = "idle" /\ count.runs < MaxRuns /\ Tally("runs")
  /\ run' = [run EXCEPT ![p].pc = "collected", ![p].seen = facts]
  /\ UNCHANGED <<Outside, lock, files, Seen, marker>>

Free(i) == lock[i] = NoHost
LockHeld(p) ==
  /\ run[p].pc = "collected" /\ ~Free(Identity(run[p].seen)) /\ Finish(p)
  /\ UNCHANGED <<Outside, files, Seen, count, marker>>

\* The state of a typed result waits until it is delivered.
Keep(i, a) == IF a.result \in TypedResults THEN UNCHANGED st ELSE st' = [st EXCEPT ![i] = a.state]

\* A run that has the lock evaluates; a result that is not typed ends it.
EvaluateLocked(p) ==
  /\ run[p].pc = "collected" /\ Free(Identity(run[p].seen))
  /\ LET i == Identity(run[p].seen)
         a == Evaluate(run[p].seen, [class |-> WatchClass, rev |-> 0, at |-> 1], st[i])
     IN  /\ Keep(i, a)
         /\ IF a.result \in TypedResults
            THEN /\ lock' = [lock EXCEPT ![i] = p]
                 /\ run' = [run EXCEPT ![p].pc = "typed", ![p].answer = a]
            ELSE run' = [run EXCEPT ![p] = Idle] /\ UNCHANGED lock
  /\ UNCHANGED <<Outside, ledger, journal, Seen, count, marker>>

Snapshot(f) ==
  [rev |-> f.packet.rev, status |-> f.packet.status, git |-> f.git.head, pr |-> f.pr.head,
   ci |-> f.ci.head, progress |-> f.worker.progress, starting |-> f.worker.rev]
\* The three ways to disagree are reported apart and end the run alike.
Agrees(f, auth, result) ==
  /\ ~auth.mutation.ambiguous /\ Snapshot(f) = Snapshot(auth)
  /\ auth.resource # "BLOCK" /\ auth.admission \notin {"DENY", "DENY HOST_BUDGET"}
  /\ f.resource = auth.resource /\ f.admission = auth.admission
  /\ result = "RESUME_ADMITTED_WORKER" => auth.worker.progress

\* The second reads, under the lock, must bear out the first.
Recollect(p) ==
  /\ run[p].pc = "typed"
  /\ \/ /\ Agrees(run[p].seen, facts, Result(p))
        /\ run' = [run EXCEPT ![p].pc = "agreed", ![p].seen = facts] /\ UNCHANGED lock
     \/ ~Agrees(run[p].seen, facts, Result(p)) /\ Finish(p)
  /\ UNCHANGED <<Outside, files, Seen, count, marker>>

(***************************************************************************)
(* Authorization                                                           *)
(***************************************************************************)
\* The external effect of a typed result; a notice does not name a status.
EffectOf(p) ==
  [result |-> Result(p), decision |-> run[p].answer.decision, rev |-> run[p].seen.packet.rev,
   subject |-> run[p].answer.state.subject,
   status |-> IF Result(p) = "NOTIFY_OWNER" THEN "" ELSE run[p].seen.packet.status]

Entry(p, outcome) == [key |-> run[p].answer.key, outcome |-> outcome]

WriteAction(result) ==
  IF result = "WAKE_COORDINATOR" THEN "comment_work_packet" ELSE "update_work_packet"
DeliverWrite(p, gate) ==
  LET f == run[p].seen
  IN  AdapterEvaluate(
        [action |-> WriteAction(Result(p)), bound |-> Identity(f), authoritative |-> Identity(f),
         outcome |-> "NOT_SENT", failure |-> "NONE", resource |-> f.resource,
         admission |-> f.admission, prior |-> FALSE, count |-> 0, budget |-> 3], gate)
\* A host run authorizes without consuming its dispatch, which may be taken.
Allowed(p, d) ==
  LET gate == IF AuthorizesConcreteEffect(signed[d], EffectOf(p), d \in expired, custom)
              THEN "ALLOW" ELSE "DENIED"
  IN  IF Result(p) = "NOTIFY_OWNER" THEN gate = "ALLOW" ELSE DeliverWrite(p, gate) = "APPLIED"

SettledBefore(p) ==
  /\ run[p].pc = "agreed"
  /\ \/ Entry(p, "AMBIGUOUS") \in ledger[Mine(p)] /\ UNCHANGED st
     \/ /\ {Entry(p, "AMBIGUOUS"), Entry(p, "APPLIED")} \cap ledger[Mine(p)] = {Entry(p, "APPLIED")}
        /\ st' = [st EXCEPT ![Mine(p)] = run[p].answer.state]
  /\ Finish(p) /\ UNCHANGED <<Outside, ledger, journal, Seen, count, marker>>

New(p) == ledger[Mine(p)] \cap {Entry(p, "AMBIGUOUS"), Entry(p, "APPLIED")} = {}

\* No dispatch, one that does not cover the effect, or no delivery boundary.
Denied(p) ==
  /\ run[p].pc = "agreed" /\ New(p) /\ Finish(p)
  /\ UNCHANGED <<Outside, files, Seen, count, marker>>

Undecided(j) == j.phase \in {"SENDING", "AMBIGUOUS"}
Resumes(j, effect) == j.phase \in {"INTENT", "RECEIPT"} /\ j.effect = effect

\* The journal of an earlier send that this run may not go on from.
Conflicts(p) ==
  LET i == Mine(p) j == journal[i]
  IN  /\ run[p].pc = "agreed" /\ New(p) /\ \E d \in Dispatches : Allowed(p, d)
      /\ j.phase # "NONE"
      /\ \/ Undecided(j) /\ UNCHANGED journal
         \/ /\ ~Undecided(j) /\ j.effect # EffectOf(p)
            /\ journal' = [journal EXCEPT ![i] = [@ EXCEPT !.phase = "AMBIGUOUS"]]
      /\ Finish(p) /\ UNCHANGED <<Outside, st, ledger, Seen, count, marker>>

\* Intent is durable before the dispatch is reserved; what an earlier run of
\* the same effect left is taken up with its attempt id.
Execute(p) ==
  /\ run[p].pc = "agreed" /\ New(p)
  /\ \E d \in Dispatches :
       LET i == Mine(p) j == journal[i]
           resumed == Resumes(j, EffectOf(p))
           attempt == IF resumed THEN j.attempt ELSE count.attempts + 1
       IN  /\ Allowed(p, d) /\ (resumed \/ j.phase = "NONE")
           /\ run' = [run EXCEPT ![p].pc = IF j.phase = "RECEIPT" THEN "finalize" ELSE "reserve",
                                 ![p].effect = EffectOf(p), ![p].seen = <<>>,
                                 ![p].dispatch = d, ![p].attempt = attempt]
           /\ IF resumed THEN UNCHANGED <<journal, count>>
              ELSE /\ Tally("attempts")
                   /\ journal' = [journal EXCEPT ![i] =
                        [phase |-> "INTENT", effect |-> EffectOf(p), dispatch |-> d, attempt |-> attempt]]
  /\ UNCHANGED <<Outside, lock, st, ledger, Seen, marker>>

(***************************************************************************)
(* Delivery                                                                *)
(***************************************************************************)
Owner(p) == <<run[p].effect, run[p].attempt>>
Commit(p, phase) ==
  journal' = [journal EXCEPT ![Mine(p)] =
    [phase |-> phase, effect |-> run[p].effect, dispatch |-> run[p].dispatch, attempt |-> run[p].attempt]]
Remember(p, outcome) == ledger' = [ledger EXCEPT ![Mine(p)] = @ \cup {Entry(p, outcome)}]

Reserve(p) ==
  /\ run[p].pc = "reserve"
  /\ LET answer == ReserveAnswer(run[p].dispatch, Owner(p))
     IN  \/ answer = "free" /\ CreateMarker(run[p].dispatch) /\ Go(p, "reserving") /\ UNCHANGED lock
         \/ answer = "owned_reserved" /\ Go(p, "send") /\ UNCHANGED <<lock, marker>>
         \/ answer \in {"conflict", "owned_consumed"} /\ Finish(p) /\ UNCHANGED marker
  /\ UNCHANGED <<Outside, files, Seen, count>>
Reserved(p) ==
  /\ run[p].pc = "reserving" /\ WriteReserved(run[p].dispatch, Owner(p)) /\ Go(p, "send")
  /\ UNCHANGED <<Outside, lock, files, Seen, count>>

BeginSend(p) ==
  /\ run[p].pc = "send" /\ Commit(p, "SENDING") /\ Go(p, "sending")
  /\ UNCHANGED <<Outside, lock, st, ledger, Seen, count, marker>>

\* A send that times out may have been delivered or not.
TakenForSent(p) == UNCHANGED Seen /\ Go(p, "sent")
TimedOut(p) == UNCHANGED Seen /\ Go(p, "unsure")
SendEffect(p) ==
  /\ run[p].pc = "sending"
  /\ \/ /\ log' = Append(log, <<"sent", run[p].effect>>)
        /\ uses' = Append(uses, <<run[p].dispatch, run[p].effect>>)
        /\ \E pc \in {"sent", "unsure"} : Go(p, pc)
     \/ TimedOut(p)
  /\ UNCHANGED <<Outside, lock, files, count, marker>>

Doubt(p) ==
  /\ run[p].pc = "unsure" /\ Commit(p, "AMBIGUOUS") /\ Go(p, "doubted")
  /\ UNCHANGED <<Outside, lock, st, ledger, Seen, count, marker>>
RecordDoubt(p) ==
  /\ run[p].pc = "doubted" /\ Remember(p, "AMBIGUOUS") /\ Finish(p)
  /\ UNCHANGED <<Outside, st, journal, Seen, count, marker>>

Receive(p) ==
  /\ run[p].pc = "sent" /\ Commit(p, "RECEIPT") /\ Go(p, "finalize")
  /\ UNCHANGED <<Outside, lock, st, ledger, Seen, count, marker>>

\* The dispatch of this run is finalized, with the attempt of the journal.
Finalize(p) ==
  /\ run[p].pc = "finalize"
  /\ LET answer == FinalizeAnswer(run[p].dispatch, Owner(p))
     IN  \/ answer = "empty" /\ TruncateMarker(run[p].dispatch) /\ Go(p, "finalizing") /\ UNCHANGED lock
         \/ answer = "ok" /\ Go(p, "record") /\ UNCHANGED <<lock, marker>>
         \/ answer = "conflict" /\ Finish(p) /\ UNCHANGED marker
  /\ UNCHANGED <<Outside, files, Seen, count>>
Finalized(p) ==
  /\ run[p].pc = "finalizing" /\ WriteConsumed(run[p].dispatch, Owner(p)) /\ Go(p, "record")
  /\ UNCHANGED <<Outside, lock, files, Seen, count>>

RecordApplied(p) ==
  /\ run[p].pc = "record" /\ Remember(p, "APPLIED") /\ Go(p, "persist")
  /\ UNCHANGED <<Outside, lock, st, journal, Seen, count, marker>>
Deliver(p) ==
  /\ run[p].pc = "persist" /\ st' = [st EXCEPT ![Mine(p)] = run[p].answer.state]
  /\ log' = Append(log, <<"reported", run[p].effect>>) /\ Finish(p)
  /\ UNCHANGED <<Outside, ledger, journal, uses, count, marker>>

(***************************************************************************)
(* The rest of the world                                                   *)
(***************************************************************************)
Crash(p) ==
  /\ run[p].pc # "idle" /\ count.crashes < MaxCrashes /\ Tally("crashes") /\ Finish(p)
  /\ UNCHANGED <<Outside, files, Seen, marker>>

Move ==
  /\ count.moves < MaxMoves /\ Tally("moves") /\ facts' \in Observable \ {facts}
  /\ UNCHANGED <<signed, custom, expired, lock, files, run, Seen, marker>>
Expire ==
  /\ count.moves < MaxMoves /\ Tally("moves")
  /\ \E d \in Dispatches \ expired : expired' = expired \cup {d}
  /\ UNCHANGED <<facts, signed, custom, lock, files, run, Seen, marker>>

\* The authorize command and the worker adapter consume what they allow.
ConsumeElsewhere ==
  /\ count.moves < MaxMoves /\ Tally("moves")
  /\ \E d \in Dispatches :
       /\ Authorizes(signed[d], signed[d].effect, d \in expired, custom)
       /\ ConsumeOnce(d) /\ uses' = Append(uses, <<d, signed[d].effect>>)
  /\ UNCHANGED <<facts, signed, custom, expired, lock, files, run, log>>

Deliveries(p) ==
  \/ Reserve(p) \/ Reserved(p) \/ BeginSend(p) \/ SendEffect(p) \/ Doubt(p) \/ RecordDoubt(p)
  \/ Receive(p) \/ Finalize(p) \/ Finalized(p) \/ RecordApplied(p) \/ Deliver(p)
Decide(p) == SettledBefore(p) \/ Denied(p) \/ Conflicts(p) \/ Execute(p)
Next ==
  \/ \E p \in Hosts : \/ Start(p) \/ LockHeld(p) \/ EvaluateLocked(p) \/ Recollect(p)
                      \/ Decide(p) \/ Deliveries(p) \/ Crash(p)
  \/ Move \/ Expire \/ ConsumeElsewhere

Spec == Init /\ [][Next]_vars

(***************************************************************************)
(* Properties                                                              *)
(***************************************************************************)
SignedEffects == {a.effect : a \in Assertions}
Phases == {"NONE", "INTENT", "SENDING", "AMBIGUOUS", "RECEIPT"}
Held == {"typed", "agreed", "reserve", "reserving", "send", "sending", "sent", "unsure", "doubted",
         "finalize", "finalizing", "record", "persist"}

\* Every file holds what its reader accepts, and a run past its evaluation
\* has the lock of its watch.
TypeOK ==
  /\ facts \in Observable /\ expired \subseteq Dispatches
  /\ \A i \in Identities : lock[i] \in Hosts \cup {NoHost} /\ journal[i].phase \in Phases
  /\ \A d \in Dispatches :
       marker[d] \notin {Absent, Blank} => marker[d].owner \in SignedEffects \X Nat
  /\ \A p \in Hosts :
       run[p].pc \notin {"idle", "collected"} => run[p].pc \in Held /\ lock[Mine(p)] = p

\* Only a signed effect reaches the outside; it does so at most once and its delivery is reported at
\* most once and after that, through crashes, timeouts and renewed dispatches
\* (_execute_authorized).
Contract == INSTANCE EffectContract WITH Effects <- SignedEffects
AtMostOnce == Contract!Spec

\* A dispatch serves one purpose once: a host run that authorizes without
\* consuming and a worker adapter that consumes never both use it.
DispatchServesOnce ==
  \A m, n \in DOMAIN uses : uses[m][1] = uses[n][1] => m = n

\* What the ledger calls applied is the effect of the journal, it was sent, and a
\* dispatch is consumed by that very attempt (finalize_dispatch before _record_applied).
AppliedIsFinal ==
  \A i \in Identities : \A entry \in ledger[i] :
    entry.outcome = "APPLIED" =>
      LET j == journal[i]
      IN  /\ entry.key = <<j.effect.rev, j.effect.result, j.effect.decision, j.effect.subject>>
          /\ Contract!Happened("sent", j.effect)
          /\ \E d \in Dispatches :
               marker[d] = [state |-> "consumed", owner |-> <<j.effect, j.attempt>>]

\* The watch never believes in a wake, resume or notice that was not applied
\* (run_once stores the state of a typed result after its delivery).
NoSilentWake ==
  \A i \in Identities :
    st[i].key # <<>> /\ st[i].key[2] \in TypedResults =>
      [key |-> st[i].key, outcome |-> "APPLIED"] \in ledger[i]

\* Each record of a delivery is borne out by the one written before it: the watch
\* state by the ledger, the ledger by the journal and the dispatch marker.
RecordsAreBorneOut == NoSilentWake /\ AppliedIsFinal

\* Whatever profiles a repository declares, an effect that is sent has a
\* dispatch that the built-in profiles and their approvals cover (is_narrowing).
AuthorityIsNotWidened ==
  \A n \in DOMAIN uses :
    LET a == signed[uses[n][1]]
    IN  a.effect = uses[n][2] /\ EvaluateAction(a, DefaultProfiles)
=============================================================================
