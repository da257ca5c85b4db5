---------------------------- MODULE StellarClient ----------------------------
(***************************************************************************)
(* The client of the Stellar Cyber API (app/stellar.py) and the ways the   *)
(* exporter uses one: /api/connection/test lists tenants, an export sends  *)
(* one probe after another, and /api/query/count gathers the counts of all *)
(* partitions at once behind a semaphore, on one token and one HTTP client.*)
(* Ages are counted in ticks since the event, so time needs no bound.      *)
(***************************************************************************)
EXTENDS Naturals, FiniteSets

CONSTANTS
  NumCalls,    \* partitions of a count, probes of an export
  Slots,       \* COUNT_PARTITION_CONCURRENCY
  Attempts,    \* QUERY_RETRY_ATTEMPTS
  RefreshAge,  \* JWT_REFRESH_AGE_SECONDS
  MaxWait,     \* environment: the longest that a request lasts
  MaxAge       \* bound: ages from here on are not told apart

ASSUME StellarAssumption ==
  /\ NumCalls \in Nat \ {0} /\ Slots \in Nat \ {0} /\ Attempts \in Nat \ {0}
  /\ RefreshAge \in Nat \ {0} /\ MaxWait \in Nat
  /\ MaxAge \in Nat /\ RefreshAge <= MaxAge /\ MaxWait <= MaxAge

VARIABLES
  use,       \* what the client is for: "count", "export" or "tenants"
  tenant,    \* the client has a tenant_id
  pc,        \* where each call is
  attempt,   \* the attempt of its retry loop
  force,     \* force_refresh
  tok,       \* age, since it was issued, of the token a call sends
  since,     \* age of the refusal a call has to answer (history)
  waited,    \* how long its request is under way
  outcome,   \* how the call ended
  own,       \* the call has an HTTP client of its own
  lock,      \* holder of _jwt_lock, 0 if none
  jwt,       \* _jwt: its age since it was received and since it was issued
  answer     \* what the API handler answered; the shared client is closed then

loop == <<attempt, force, outcome>>
vars == <<use, tenant, pc, loop, own, tok, since, waited, lock, jwt, answer>>

Calls == 1..NumCalls
Age == 0..MaxAge                 \* the last value stands for "that, older or never"
NoToken == [got |-> MaxAge, issued |-> MaxAge]
\* "api" stands for StellarAPIError and StellarPermissionError.
Errors == {"auth", "api", "connection", "read timeout", "closed"}

Init ==
  /\ use \in {"count", "export", "tenants"} /\ tenant \in BOOLEAN
  /\ pc = [c \in Calls |-> "new"]
  /\ attempt = [c \in Calls |-> 0]
  /\ force = [c \in Calls |-> FALSE] /\ own = force
  /\ tok = [c \in Calls |-> 0] /\ waited = tok
  /\ since = [c \in Calls |-> MaxAge]
  /\ outcome = [c \in Calls |-> "none"]
  /\ lock = 0 /\ jwt = NoToken /\ answer = "none"

\* A call between its beginning and its end; those of a count hold a slot.
Begun == {c \in Calls : pc[c] \notin {"new", "done"}}

(***************************************************************************)
(* Who calls                                                               *)
(***************************************************************************)
\* The partitions of a count in any order, as many at once as there are slots,
\* and on after the answer: nobody cancels the tasks gather has started.  An
\* export begins a probe when the last one was answered or is to be split.
MayBegin(c) ==
  CASE use = "count" -> Cardinality(Begun) < Slots
    [] use = "export" -> /\ Begun = {} /\ answer = "none"
                         /\ \A d \in 1..(c - 1) : outcome[d] \in {"ok", "read timeout"}
    [] use = "tenants" -> c = 1

Begin(c) ==
  /\ pc[c] = "new" /\ MayBegin(c)
  /\ pc' = [pc EXCEPT ![c] = "token"]
  /\ own' = [own EXCEPT ![c] = answer # "none"]
  /\ UNCHANGED <<use, tenant, loop, tok, since, waited, lock, jwt, answer>>

\* The first error ends the handler and closes the shared client; a count is
\* answered when every partition is.  A read timeout of a probe is no error.
Answer ==
  /\ answer = "none"
  /\ \/ \E c \in Calls : /\ outcome[c] \in Errors
                         /\ ~(use = "export" /\ outcome[c] = "read timeout")
                         /\ answer' = outcome[c]
     \/ /\ \A c \in Calls : outcome[c] = "ok" \/ (use = "tenants" /\ c > 1)
                              \/ (use = "export" /\ outcome[c] = "read timeout")
        /\ answer' = "ok"
  /\ UNCHANGED <<use, tenant, own, pc, loop, tok, since, waited, lock, jwt>>

(***************************************************************************)
(* _get_access_token                                                       *)
(***************************************************************************)
Raise(c, error) ==
  /\ pc' = [pc EXCEPT ![c] = "done"]
  /\ outcome' = [outcome EXCEPT ![c] = error]
  /\ attempt' = [attempt EXCEPT ![c] = 0]
  /\ force' = [force EXCEPT ![c] = FALSE]

\* The tenant filter is put into every search; without a tenant it raises.
Scoped == tenant \/ use = "tenants"

\* Mutant: a token is used until the server refuses it.
FreshUntilRefused(token) == token # NoToken

\* The token was received less than JWT_REFRESH_AGE_SECONDS ago.
Fresh(token) == token.got < RefreshAge

\* A token in hand: force_refresh is spent and the request goes out.
Request(c, issued) ==
  /\ waited' = [waited EXCEPT ![c] = 0]
  /\ IF Scoped
     THEN /\ pc' = [pc EXCEPT ![c] = "sent"]
          /\ tok' = [tok EXCEPT ![c] = issued]
          /\ force' = [force EXCEPT ![c] = FALSE]
          /\ UNCHANGED <<attempt, outcome>>
     ELSE Raise(c, "api") /\ UNCHANGED tok

\* _client_scope: the shared client until it is closed, or one of its own.
Usable(c) == answer = "none" \/ own[c]

\* Nothing of a request is left when it is over.
Forget(c) == tok' = [tok EXCEPT ![c] = 0] /\ waited' = [waited EXCEPT ![c] = 0]

\* A refusal is remembered until a later data request is over, or the call is.
Refusal(c, age) == since' = [since EXCEPT ![c] = age]

\* The lock is free: a fresh token is reused, any other is exchanged.
GetToken(c) ==
  /\ pc[c] = "token" /\ lock = 0
  /\ IF ~force[c] /\ Fresh(jwt)
     THEN Request(c, jwt.issued) /\ UNCHANGED lock
     ELSE /\ pc' = [pc EXCEPT ![c] = "exchange"] /\ lock' = c
          /\ UNCHANGED <<loop, tok, waited>>
  /\ UNCHANGED <<use, tenant, own, since, jwt, answer>>

\* The exchange succeeds; the server issued the token while it was under way.
Exchanged(c) ==
  /\ pc[c] = "exchange" /\ Usable(c)
  /\ \E issued \in 0..waited[c] :
       /\ jwt' = [got |-> 0, issued |-> issued]
       /\ Request(c, issued)
  /\ lock' = 0
  /\ UNCHANGED <<use, tenant, own, since, answer>>

(***************************************************************************)
(* The retry loop of search and list_tenants                               *)
(***************************************************************************)

Last(c) == attempt[c] + 1 >= Attempts

\* Mutant: what the last attempt met decides, so a failure forgets a refusal.
RetryForgetting(c, refused) ==
  /\ pc' = [pc EXCEPT ![c] = IF refused THEN "token" ELSE "sleep"]
  /\ attempt' = [attempt EXCEPT ![c] = @ + 1]
  /\ force' = [force EXCEPT ![c] = refused]
  /\ UNCHANGED outcome

\* on_retry, and the next attempt; only a refused token is not waited for.
Retry(c, refused) ==
  /\ pc' = [pc EXCEPT ![c] = IF refused THEN "token" ELSE "sleep"]
  /\ attempt' = [attempt EXCEPT ![c] = @ + 1]
  /\ force' = [force EXCEPT ![c] = @ \/ refused]
  /\ UNCHANGED outcome

\* RequestError or StellarConnectionError.
Unreachable(c) == IF Last(c) THEN Raise(c, "connection") ELSE Retry(c, FALSE)

\* Mutant: the lock is released by a token only.
ReleaseOnSuccess(c) == lock

\* async with: the lock is released however the exchange ends.
Release(c) == 0

\* The exchange fails.  Only a failure of the transport is tried again: no
\* status of the token endpoint counts as transient.
ExchangeFails(c) ==
  /\ pc[c] = "exchange"
  /\ \/ Unreachable(c)
     \/ \E error \in {"auth", "api"} : Raise(c, error)
  /\ lock' = Release(c)
  /\ Forget(c) /\ UNCHANGED <<use, tenant, own, since, jwt, answer>>

\* is_export_probe: documents are asked for, and no total.
IsProbe(c) == use = "export"

\* What the transport makes of a data request.
RequestFails(c) ==
  /\ pc[c] = "sent"
  /\ \/ Unreachable(c)
     \/ IsProbe(c) /\ Raise(c, "read timeout")
  /\ Refusal(c, MaxAge) /\ Forget(c) /\ UNCHANGED <<use, tenant, own, lock, jwt, answer>>

\* What the server answers to a data request.
Responds(c) ==
  /\ pc[c] = "sent" /\ Usable(c)
  /\ \/ /\ \/ \E end \in {"ok", "api"} : Raise(c, end)
           \/ IF Last(c) THEN Raise(c, "api") ELSE Retry(c, FALSE)   \* TRANSIENT_HTTP_STATUSES
        /\ Refusal(c, MaxAge)
     \/ /\ IF Last(c) THEN Raise(c, "auth") ELSE Retry(c, TRUE)      \* 401
        /\ Refusal(c, IF Last(c) THEN MaxAge ELSE 0)
  /\ Forget(c) /\ UNCHANGED <<use, tenant, own, lock, jwt, answer>>

Wake(c) ==
  /\ pc[c] = "sleep"
  /\ pc' = [pc EXCEPT ![c] = "token"]
  /\ UNCHANGED <<use, tenant, own, loop, tok, since, waited, lock, jwt, answer>>

\* A call of a gather that outlives its handler finds the client closed when
\* it next uses it; calls that begin later open a client of their own.
FindsClosed(c) ==
  /\ ~Usable(c) /\ pc[c] \in {"exchange", "sent"}
  /\ Raise(c, "closed") /\ Refusal(c, MaxAge)
  /\ lock' = IF lock = c THEN 0 ELSE lock
  /\ Forget(c) /\ UNCHANGED <<use, tenant, own, jwt, answer>>

\* Time passes, for a request no longer than it lasts at most.
Older(age) == IF age = MaxAge THEN age ELSE age + 1
UnderWay == {c \in Calls : pc[c] \in {"exchange", "sent"}}
Tick ==
  /\ \A c \in UnderWay : waited[c] < MaxWait
  /\ waited' = [c \in Calls |-> IF c \in UnderWay THEN waited[c] + 1 ELSE waited[c]]
  /\ tok' = [c \in Calls |-> IF pc[c] = "sent" THEN Older(tok[c]) ELSE tok[c]]
  /\ since' = [c \in Calls |-> Older(since[c])]
  /\ jwt' = [got |-> Older(jwt.got), issued |-> Older(jwt.issued)]
  /\ UNCHANGED <<use, tenant, own, pc, loop, lock, answer>>

Step(c) == GetToken(c) \/ Exchanged(c) \/ ExchangeFails(c) \/ RequestFails(c)
             \/ Responds(c) \/ Wake(c) \/ FindsClosed(c)

Next == Answer \/ Tick \/ \E c \in Calls : Begin(c) \/ Step(c)

\* The event loop runs what is ready, requests end by their timeouts, and an
\* asyncio.Lock wakes those who wait for it in turn, hence SF for the calls.
Spec == /\ Init /\ [][Next]_vars
        /\ WF_vars(Answer) /\ \A c \in Calls : WF_vars(Begin(c)) /\ SF_vars(Step(c))

(***************************************************************************)
(* Properties                                                              *)
(***************************************************************************)
TypeOK ==
  /\ use \in {"count", "export", "tenants"} /\ tenant \in BOOLEAN
  /\ pc \in [Calls -> {"new", "token", "exchange", "sent", "sleep", "done"}]
  /\ attempt \in [Calls -> 0..(Attempts - 1)]
  /\ force \in [Calls -> BOOLEAN] /\ own \in [Calls -> BOOLEAN]
  /\ outcome \in [Calls -> Errors \cup {"none", "ok"}]
  /\ tok \in [Calls -> Age] /\ since \in [Calls -> Age] /\ waited \in [Calls -> 0..MaxWait]
  /\ lock \in {0} \cup Calls /\ jwt \in [got : Age, issued : Age]
  /\ answer \in Errors \cup {"none", "ok"}

\* The token of an open request is never older than JWT_REFRESH_AGE_SECONDS, the time
\* one exchange takes and the time the request is open: the client counts its age
\* from the receipt, and a call may still use it while another replaces it.  That
\* it has not expired follows if the server's life of a token leaves room for two
\* requests; the code does not see to that, its timeouts come from the environment
\* and bound single operations of a request.
TokenAgeIsBounded ==
  \A c \in Calls : pc[c] = "sent" => tok[c] <= RefreshAge + MaxWait + waited[c]

\* A call whose token was refused (401) sends nothing again but with a token the
\* server issued after the refusal: neither failures of the exchange and the sleeps
\* after them nor what other calls got meanwhile make it reuse an older one.
RefusedTokensAreReplaced ==
  \A c \in Calls : pc[c] = "sent" => tok[c] <= since[c]

\* A call that has begun ends, whatever the server does and however many calls
\* want the one lock.
CallsEnd == \A c \in Calls : pc[c] # "new" ~> pc[c] = "done"
=============================================================================
