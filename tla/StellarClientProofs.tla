------------------------- MODULE StellarClientProofs -------------------------
(***************************************************************************)
(* What the calls of one client rest on, for every number of calls, slots, *)
(* attempts, every refresh age, and requests that last however long.       *)
(***************************************************************************)
EXTENDS StellarClient, TLAPS

-----------------------------------------------------------------------------
(***************************************************************************)
(* The inductive invariant                                                 *)
(***************************************************************************)
PCs == {"new", "token", "exchange", "sent", "sleep", "done"}
Waiting == {"new", "token", "sleep"}

\* One call: where it is (p), whether its next token is forced (f), its refusal
\* (s), how long its request is under way (w) and the age of its token (t).  One
\* that has to answer a refusal forces its exchange, which began after the
\* refusal; so what it brings back, and sends, was issued after it.
CallOK(p, f, s, w, t) ==
  /\ p \in Waiting => w = 0
  /\ p \in Waiting \cup {"exchange"} /\ ~f => s = MaxAge
  /\ p = "exchange" => w <= s
  /\ p = "sent" => t <= RefreshAge + MaxWait + w /\ t <= s

CallInv == \A c \in Calls : CallOK(pc[c], force[c], since[c], waited[c], tok[c])

\* A token is issued during the exchange that fetched it, so it is at most one
\* wait older than its receipt tells, as long as that age is known exactly.
JwtOK(token) == token.got < MaxAge => token.issued <= token.got + MaxWait

IInv == TypeOK /\ JwtOK(jwt) /\ CallInv

\* The state of the calls apart from the token and the lock.
CallsOK ==
  /\ pc \in [Calls -> PCs]
  /\ attempt \in [Calls -> 0..(Attempts - 1)]
  /\ force \in [Calls -> BOOLEAN]
  /\ outcome \in [Calls -> Errors \cup {"none", "ok"}]

LEMMA TypesOfCalls == TypeOK => CallsOK
BY DEF TypeOK, CallsOK, PCs

LEMMA Zeros == 0 \in Age /\ MaxAge \in Age /\ 0 \in 0..MaxWait /\ 0 \in 0..(Attempts - 1)
BY StellarAssumption DEF Age

\* A step of one call leaves what is said of the others.
LEMMA OthersKeep ==
  ASSUME CallInv, NEW c \in Calls,
         \A d \in Calls \ {c} : /\ pc'[d] = pc[d] /\ force'[d] = force[d] /\ since'[d] = since[d]
                                /\ waited'[d] = waited[d] /\ tok'[d] = tok[d],
         CallOK(pc'[c], force'[c], since'[c], waited'[c], tok'[c])
  PROVE  CallInv'
<1>1. ASSUME NEW d \in Calls
      PROVE  CallOK(pc'[d], force'[d], since'[d], waited'[d], tok'[d])
  <2>1. CASE d = c
    BY <2>1
  <2>2. CASE d # c
    BY <2>2 DEF CallInv
  <2> QED BY <2>1, <2>2
<1> QED BY <1>1 DEF CallInv

-----------------------------------------------------------------------------
(***************************************************************************)
(* The ends of a request                                                   *)
(***************************************************************************)
\* Raise and Retry leave every other call alone and send nothing.
LEMMA RaiseKeeps ==
  ASSUME CallsOK, NEW c \in Calls, NEW error \in Errors \cup {"ok"}, Raise(c, error)
  PROVE  /\ CallsOK' /\ pc'[c] = "done"
         /\ \A d \in Calls \ {c} : pc'[d] = pc[d] /\ force'[d] = force[d]
BY Zeros DEF CallsOK, Raise, PCs

LEMMA RetryKeeps ==
  ASSUME CallsOK, NEW c \in Calls, NEW refused \in BOOLEAN, ~Last(c), Retry(c, refused)
  PROVE  /\ CallsOK' /\ pc'[c] \in {"token", "sleep"}
         /\ force'[c] = (force[c] \/ refused)
         /\ \A d \in Calls \ {c} : pc'[d] = pc[d] /\ force'[d] = force[d]
<1>1. pc' = [pc EXCEPT ![c] = IF refused THEN "token" ELSE "sleep"]
  BY DEF Retry
<1>2. attempt[c] + 1 \in 0..(Attempts - 1)
  BY StellarAssumption DEF CallsOK, Last
<1>3. force[c] \/ refused \in BOOLEAN
  BY DEF CallsOK
<1>4. /\ attempt' \in [Calls -> 0..(Attempts - 1)]
      /\ outcome' \in [Calls -> Errors \cup {"none", "ok"}]
  BY <1>2 DEF CallsOK, Retry
<1>5. /\ force' \in [Calls -> BOOLEAN] /\ force'[c] = (force[c] \/ refused)
      /\ \A d \in Calls \ {c} : force'[d] = force[d]
  BY <1>3 DEF CallsOK, Retry
<1>6. /\ pc' \in [Calls -> PCs] /\ pc'[c] \in {"token", "sleep"}
      /\ \A d \in Calls \ {c} : pc'[d] = pc[d]
  BY <1>1 DEF CallsOK, PCs
<1> QED BY <1>4, <1>5, <1>6 DEF CallsOK

\* A request that is over, however it ended, leaves no token behind, frees at most
\* the lock, and leaves what the client knows of its token as it was.  If the call
\* goes on, its refusal is forgotten or its next exchange forced.
LEMMA OverKeeps ==
  ASSUME IInv, NEW c \in Calls, CallsOK', Forget(c), NEW age \in Age,
         since' = [since EXCEPT ![c] = age],
         pc'[c] = "done" \/ (pc'[c] \in {"token", "sleep"} /\ (~force'[c] => age = MaxAge)),
         \A d \in Calls \ {c} : pc'[d] = pc[d] /\ force'[d] = force[d],
         lock' \in {lock, 0}, UNCHANGED <<use, tenant, own, jwt, answer>>
  PROVE  IInv'
<1>1. /\ tok' \in [Calls -> Age] /\ waited' \in [Calls -> 0..MaxWait] /\ since' \in [Calls -> Age]
      /\ since'[c] = age /\ waited'[c] = 0
      /\ \A d \in Calls \ {c} : /\ since'[d] = since[d] /\ waited'[d] = waited[d]
                                /\ tok'[d] = tok[d]
  BY Zeros DEF IInv, TypeOK, Forget
<1>2. TypeOK'
  <2>1. lock' \in {0} \cup Calls
    BY DEF IInv, TypeOK
  <2> QED BY <1>1, <2>1 DEF IInv, TypeOK, CallsOK, PCs
<1>3. CallOK(pc'[c], force'[c], since'[c], waited'[c], tok'[c])
  BY <1>1 DEF CallOK, Waiting
<1>4. CallInv'
  BY <1>1, <1>3, OthersKeep DEF IInv
<1>5. JwtOK(jwt)'
  BY DEF IInv, JwtOK
<1> QED BY <1>2, <1>4, <1>5 DEF IInv

-----------------------------------------------------------------------------
(***************************************************************************)
(* The steps                                                               *)
(***************************************************************************)
LEMMA InitHolds == Init => IInv
<1> SUFFICES ASSUME Init PROVE IInv
  OBVIOUS
<1>1. TypeOK
  BY Zeros DEF Init, TypeOK, NoToken
<1>2. JwtOK(jwt)
  BY StellarAssumption DEF Init, JwtOK, NoToken
<1>3. CallInv
  BY DEF Init, CallInv, CallOK, Waiting
<1> QED BY <1>1, <1>2, <1>3 DEF IInv

LEMMA BeginHolds ==
  ASSUME IInv, NEW c \in Calls, Begin(c)
  PROVE  IInv'
<1>1. TypeOK'
  BY DEF IInv, TypeOK, Begin, loop
<1>2. /\ pc[c] = "new" /\ pc'[c] = "token"
      /\ \A d \in Calls \ {c} : pc'[d] = pc[d]
      /\ UNCHANGED <<force, since, waited, tok, jwt>>
  BY DEF IInv, TypeOK, Begin, loop
<1>3. CallOK(pc'[c], force'[c], since'[c], waited'[c], tok'[c])
  BY <1>2 DEF IInv, CallInv, CallOK, Waiting
<1>4. CallInv'
  BY <1>2, <1>3, OthersKeep DEF IInv
<1>5. JwtOK(jwt)'
  BY <1>2 DEF IInv, JwtOK
<1> QED BY <1>1, <1>4, <1>5 DEF IInv

LEMMA AnswerHolds ==
  ASSUME IInv, Answer
  PROVE  IInv'
<1>1. answer' \in Errors \cup {"none", "ok"}
  BY DEF Answer
<1>2. UNCHANGED <<use, tenant, own, pc, attempt, force, outcome, tok, since, waited, lock, jwt>>
  BY DEF Answer, loop
<1>3. TypeOK'
  BY <1>1, <1>2 DEF IInv, TypeOK
<1> QED BY <1>2, <1>3 DEF IInv, JwtOK, CallInv

\* A token in hand that is at most a refresh age and a wait old, and younger than the
\* refusal of the call, goes out; without a tenant the call ends instead.
LEMMA RequestHolds ==
  ASSUME IInv, NEW c \in Calls, NEW issued \in Age, issued <= RefreshAge + MaxWait,
         issued <= since[c], Request(c, issued),
         lock' \in {lock, 0}, jwt' \in [got : Age, issued : Age], JwtOK(jwt'),
         UNCHANGED <<use, tenant, own, since, answer>>
  PROVE  IInv'
<1>1. /\ waited' \in [Calls -> 0..MaxWait] /\ waited'[c] = 0
      /\ \A d \in Calls \ {c} : waited'[d] = waited[d]
  BY Zeros DEF IInv, TypeOK, Request
<1>2. lock' \in {0} \cup Calls
  BY DEF IInv, TypeOK
<1>3. CASE Scoped
  <2>1. /\ pc' = [pc EXCEPT ![c] = "sent"] /\ tok' = [tok EXCEPT ![c] = issued]
        /\ force' = [force EXCEPT ![c] = FALSE] /\ UNCHANGED <<attempt, outcome>>
    BY <1>3 DEF Request
  <2>2. TypeOK'
    BY <1>1, <1>2, <2>1 DEF IInv, TypeOK
  <2>3. /\ pc'[c] = "sent" /\ tok'[c] = issued
        /\ \A d \in Calls \ {c} : pc'[d] = pc[d] /\ force'[d] = force[d] /\ tok'[d] = tok[d]
    BY <2>1 DEF IInv, TypeOK
  <2>4. CallOK(pc'[c], force'[c], since'[c], waited'[c], tok'[c])
    BY <1>1, <2>3, StellarAssumption DEF CallOK, Waiting, Age
  <2>5. CallInv'
    BY <1>1, <2>3, <2>4, OthersKeep DEF IInv
  <2> QED BY <2>2, <2>5 DEF IInv, JwtOK
<1>4. CASE ~Scoped
  <2>1. Raise(c, "api") /\ tok' = tok /\ "api" \in Errors \cup {"ok"}
    BY <1>4 DEF Request, Errors
  <2>2. /\ CallsOK' /\ pc'[c] = "done"
        /\ \A d \in Calls \ {c} : pc'[d] = pc[d] /\ force'[d] = force[d]
    BY <2>1, RaiseKeeps, TypesOfCalls DEF IInv
  <2>3. TypeOK'
    BY <1>1, <1>2, <2>1, <2>2 DEF IInv, TypeOK, CallsOK, PCs
  <2>4. CallOK(pc'[c], force'[c], since'[c], waited'[c], tok'[c])
    BY <2>2 DEF CallOK, Waiting
  <2>5. CallInv'
    BY <1>1, <2>1, <2>2, <2>4, OthersKeep DEF IInv
  <2> QED BY <2>3, <2>5 DEF IInv, JwtOK
<1> QED BY <1>3, <1>4

\* The token of the client is used by calls with no refusal to answer; a call that
\* has one begins its exchange now, after the refusal.
LEMMA GetTokenHolds ==
  ASSUME IInv, NEW c \in Calls, GetToken(c)
  PROVE  IInv'
<1>0. pc[c] = "token" /\ CallOK("token", force[c], since[c], waited[c], tok[c])
  BY DEF GetToken, IInv, CallInv
<1>1. CASE ~force[c] /\ Fresh(jwt)
  <2>1. Request(c, jwt.issued) /\ UNCHANGED <<use, tenant, own, since, jwt, answer, lock>>
    BY <1>1 DEF GetToken
  <2>2. jwt.got \in Nat /\ jwt.issued \in Age /\ jwt.issued \in Nat /\ jwt.issued <= MaxAge
    BY StellarAssumption DEF IInv, TypeOK, Age
  <2>3. jwt.got < MaxAge /\ jwt.issued <= RefreshAge + MaxWait
    BY <1>1, <2>2, StellarAssumption DEF Fresh, IInv, JwtOK
  <2>4. jwt.issued <= since[c]
    BY <1>0, <1>1, <2>2 DEF CallOK, Waiting
  <2>5. jwt' \in [got : Age, issued : Age] /\ JwtOK(jwt') /\ lock' \in {lock, 0}
    BY <2>1 DEF IInv, TypeOK, JwtOK
  <2> QED BY <2>1, <2>2, <2>3, <2>4, <2>5, RequestHolds
<1>2. CASE ~(~force[c] /\ Fresh(jwt))
  <2>1. /\ pc' = [pc EXCEPT ![c] = "exchange"] /\ lock' = c
        /\ UNCHANGED <<attempt, force, outcome, tok, since, waited, use, tenant, own, jwt, answer>>
    BY <1>2 DEF GetToken, loop
  <2>2. TypeOK'
    BY <2>1 DEF IInv, TypeOK
  <2>3. pc'[c] = "exchange" /\ \A d \in Calls \ {c} : pc'[d] = pc[d]
    BY <2>1 DEF IInv, TypeOK
  <2>4. since[c] \in Nat
    BY StellarAssumption DEF IInv, TypeOK, Age
  <2>5. CallOK(pc'[c], force'[c], since'[c], waited'[c], tok'[c])
    BY <1>0, <2>1, <2>3, <2>4 DEF CallOK, Waiting
  <2>6. CallInv'
    BY <2>1, <2>3, <2>5, OthersKeep DEF IInv
  <2> QED BY <2>1, <2>2, <2>6 DEF IInv, JwtOK
<1> QED BY <1>1, <1>2

\* The token just received was issued no longer ago than the request waited.
LEMMA ExchangedHolds ==
  ASSUME IInv, NEW c \in Calls, Exchanged(c)
  PROVE  IInv'
<1>1. PICK issued \in 0..waited[c] : /\ jwt' = [got |-> 0, issued |-> issued]
                                     /\ Request(c, issued)
  BY DEF Exchanged
<1>2. issued \in Nat /\ issued <= waited[c] /\ waited[c] \in Nat /\ waited[c] <= MaxWait
  BY <1>1, StellarAssumption DEF IInv, TypeOK
<1>3. 0 \in Age /\ issued \in Age /\ issued <= RefreshAge + MaxWait
  BY <1>2, StellarAssumption DEF Age
<1>4. issued <= since[c]
  <2>1. waited[c] <= since[c]
    BY DEF Exchanged, IInv, CallInv, CallOK
  <2>2. since[c] \in Nat
    BY StellarAssumption DEF IInv, TypeOK, Age
  <2> QED BY <1>2, <2>1, <2>2
<1>5. jwt' \in [got : Age, issued : Age] /\ JwtOK(jwt')
  BY <1>1, <1>2, <1>3, StellarAssumption DEF JwtOK
<1>6. lock' \in {lock, 0} /\ UNCHANGED <<use, tenant, own, since, answer>>
  BY DEF Exchanged
<1> QED BY <1>1, <1>3, <1>4, <1>5, <1>6, RequestHolds

\* How a call that does not send again at once comes out of an attempt.
LEMMA UnreachableKeeps ==
  ASSUME CallsOK, NEW c \in Calls, Unreachable(c)
  PROVE  /\ CallsOK'
         /\ pc'[c] = "done" \/ (pc'[c] \in {"token", "sleep"} /\ force'[c] = force[c])
         /\ \A d \in Calls \ {c} : pc'[d] = pc[d] /\ force'[d] = force[d]
<1>1. CASE Last(c)
  <2>1. "connection" \in Errors \cup {"ok"}
    BY DEF Errors
  <2> QED BY <1>1, <2>1, RaiseKeeps DEF Unreachable
<1>2. CASE ~Last(c)
  <2>1. Retry(c, FALSE) /\ force[c] \in BOOLEAN
    BY <1>2 DEF Unreachable, CallsOK
  <2> QED BY <1>2, <2>1, RetryKeeps
<1> QED BY <1>1, <1>2

\* A failed exchange leaves the refusal, and the next exchange as forced as this one.
LEMMA ExchangeFailsHolds ==
  ASSUME IInv, NEW c \in Calls, ExchangeFails(c)
  PROVE  IInv'
<1>1. /\ Forget(c) /\ lock' \in {lock, 0} /\ UNCHANGED <<use, tenant, own, since, jwt, answer>>
      /\ pc[c] = "exchange" /\ CallsOK
  BY TypesOfCalls DEF ExchangeFails, Release, IInv
<1>2. PICK age \in Age : age = since[c] /\ since' = [since EXCEPT ![c] = age]
  BY <1>1 DEF IInv, TypeOK
<1>3. \/ Unreachable(c)
      \/ \E error \in Errors \cup {"ok"} : Raise(c, error)
  BY DEF ExchangeFails, Errors
<1>4. /\ CallsOK'
      /\ \/ pc'[c] = "done"
         \/ pc'[c] \in {"token", "sleep"} /\ force'[c] = force[c]
      /\ \A d \in Calls \ {c} : pc'[d] = pc[d] /\ force'[d] = force[d]
  BY <1>1, <1>3, UnreachableKeeps, RaiseKeeps
<1>5. ~force[c] => age = MaxAge
  BY <1>1, <1>2 DEF IInv, CallInv, CallOK
<1> QED BY <1>1, <1>2, <1>4, <1>5, OverKeeps

\* Once a data request is over nothing is left of an earlier refusal, and a new one
\* forces the next exchange.
LEMMA EndsHold ==
  ASSUME IInv, NEW c \in Calls, RequestFails(c) \/ Responds(c) \/ FindsClosed(c)
  PROVE  IInv'
<1>1. /\ Forget(c) /\ lock' \in {lock, 0} /\ UNCHANGED <<use, tenant, own, jwt, answer>>
      /\ CallsOK
  BY TypesOfCalls DEF RequestFails, Responds, FindsClosed, IInv
<1>2. \/ /\ Refusal(c, MaxAge)
         /\ \/ Unreachable(c)
            \/ \E error \in Errors \cup {"ok"} : Raise(c, error)
            \/ ~Last(c) /\ Retry(c, FALSE)
      \/ Refusal(c, 0) /\ ~Last(c) /\ Retry(c, TRUE)
  BY DEF RequestFails, Responds, FindsClosed, Errors
<1>3. CASE Refusal(c, MaxAge)
  <2>1. since' = [since EXCEPT ![c] = MaxAge] /\ MaxAge \in Age
    BY <1>3, Zeros DEF Refusal
  <2>2. CASE Unreachable(c) \/ \E error \in Errors \cup {"ok"} : Raise(c, error)
    <3>1. /\ CallsOK' /\ pc'[c] \in {"done", "token", "sleep"}
          /\ \A d \in Calls \ {c} : pc'[d] = pc[d] /\ force'[d] = force[d]
      BY <1>1, <2>2, UnreachableKeeps, RaiseKeeps
    <3> QED BY <1>1, <2>1, <3>1, OverKeeps
  <2>3. CASE \E refused \in BOOLEAN : ~Last(c) /\ Retry(c, refused)
    <3>1. /\ CallsOK' /\ pc'[c] \in {"token", "sleep"}
          /\ \A d \in Calls \ {c} : pc'[d] = pc[d] /\ force'[d] = force[d]
      BY <1>1, <2>3, RetryKeeps
    <3> QED BY <1>1, <2>1, <3>1, OverKeeps
  <2> QED BY <1>2, <2>2, <2>3
<1>4. CASE Refusal(c, 0) /\ ~Last(c) /\ Retry(c, TRUE)
  <2>1. since' = [since EXCEPT ![c] = 0] /\ 0 \in Age
    BY <1>4, Zeros DEF Refusal
  <2>2. /\ CallsOK' /\ pc'[c] \in {"token", "sleep"} /\ force'[c]
        /\ \A d \in Calls \ {c} : pc'[d] = pc[d] /\ force'[d] = force[d]
    BY <1>1, <1>4, RetryKeeps
  <2> QED BY <1>1, <2>1, <2>2, OverKeeps
<1> QED BY <1>2, <1>3, <1>4

LEMMA WakeHolds ==
  ASSUME IInv, NEW c \in Calls, Wake(c)
  PROVE  IInv'
<1>1. /\ pc[c] = "sleep" /\ pc' = [pc EXCEPT ![c] = "token"]
      /\ UNCHANGED <<use, tenant, own, attempt, force, outcome, tok, since, waited, lock, jwt, answer>>
  BY DEF Wake, loop
<1>2. TypeOK'
  BY <1>1 DEF IInv, TypeOK
<1>3. pc'[c] = "token" /\ \A d \in Calls \ {c} : pc'[d] = pc[d]
  BY <1>1 DEF IInv, TypeOK
<1>4. CallOK(pc'[c], force'[c], since'[c], waited'[c], tok'[c])
  BY <1>1, <1>3 DEF IInv, CallInv, CallOK, Waiting
<1>5. CallInv'
  BY <1>1, <1>3, <1>4, OthersKeep DEF IInv
<1> QED BY <1>1, <1>2, <1>5 DEF IInv, JwtOK

\* Time ages the token of the client, those of the requests and the refusals alike,
\* and the waits with them.
LEMMA TickHolds ==
  ASSUME IInv, Tick
  PROVE  IInv'
<1>1. \A age \in Age : /\ Older(age) \in Age /\ age \in Nat /\ Older(age) <= age + 1
                       /\ age <= MaxAge /\ (age < MaxAge => Older(age) = age + 1)
                       /\ (age = MaxAge => Older(age) = MaxAge)
  BY StellarAssumption DEF Older, Age
<1>2. UNCHANGED <<use, tenant, own, pc, attempt, force, outcome, lock, answer>>
  BY DEF Tick, loop
<1>3. ASSUME NEW d \in Calls
      PROVE  /\ waited'[d] \in 0..MaxWait /\ tok'[d] \in Age /\ since'[d] \in Age
             /\ since'[d] = Older(since[d])
             /\ tok'[d] = IF pc[d] = "sent" THEN Older(tok[d]) ELSE tok[d]
             /\ waited'[d] = IF pc[d] \in {"exchange", "sent"} THEN waited[d] + 1 ELSE waited[d]
             /\ waited[d] \in 0..MaxWait /\ tok[d] \in Age /\ since[d] \in Age
  BY <1>1, StellarAssumption DEF Tick, IInv, TypeOK, UnderWay
<1>4. /\ waited' \in [Calls -> 0..MaxWait] /\ tok' \in [Calls -> Age]
      /\ since' \in [Calls -> Age]
  BY <1>3 DEF Tick
<1>5. jwt.got \in Age /\ jwt.issued \in Age
  BY DEF IInv, TypeOK
<1>6. jwt' = [got |-> Older(jwt.got), issued |-> Older(jwt.issued)]
  BY DEF Tick
<1>7. TypeOK'
  BY <1>1, <1>2, <1>4, <1>5, <1>6 DEF IInv, TypeOK
<1>8. JwtOK(jwt)'
  <2>1. SUFFICES ASSUME Older(jwt.got) < MaxAge
                 PROVE  Older(jwt.issued) <= Older(jwt.got) + MaxWait
    BY <1>6 DEF JwtOK
  <2>2. jwt.got < MaxAge /\ Older(jwt.got) = jwt.got + 1
    BY <1>1, <1>5, <2>1, StellarAssumption
  <2>3. jwt.issued <= jwt.got + MaxWait
    BY <2>2 DEF IInv, JwtOK
  <2>4. Older(jwt.issued) <= jwt.issued + 1 /\ jwt.issued \in Nat /\ jwt.got \in Nat
    BY <1>1, <1>5
  <2>5. Older(jwt.issued) \in Nat
    BY <1>1, <1>5
  <2> QED BY <2>2, <2>3, <2>4, <2>5, StellarAssumption
<1>9. ASSUME NEW d \in Calls
      PROVE  CallOK(pc'[d], force'[d], since'[d], waited'[d], tok'[d])
  <2>1. CallOK(pc[d], force[d], since[d], waited[d], tok[d])
    BY DEF IInv, CallInv
  <2>2. /\ since[d] \in Nat /\ tok[d] \in Nat /\ waited[d] \in Nat /\ waited[d] + 1 \in Nat
        /\ since'[d] \in Nat /\ tok'[d] \in Nat /\ waited'[d] \in Nat /\ waited'[d] <= MaxWait
        /\ since[d] <= MaxAge /\ tok[d] <= MaxAge
    BY <1>1, <1>3, StellarAssumption
  <2>3. CASE pc[d] = "exchange"
    <3>1. waited'[d] <= since'[d]
      <4>1. CASE since[d] = MaxAge
        BY <1>1, <1>3, <2>2, <4>1, StellarAssumption
      <4>2. CASE since[d] < MaxAge
        <5>1. since'[d] = since[d] + 1 /\ waited'[d] = waited[d] + 1
          BY <1>1, <1>3, <2>3, <4>2
        <5>2. waited[d] <= since[d]
          BY <2>1, <2>3 DEF CallOK
        <5> QED BY <5>1, <5>2, <2>2
      <4> QED BY <2>2, <4>1, <4>2, StellarAssumption
    <3>2. ~force'[d] => since'[d] = MaxAge
      BY <1>1, <1>2, <1>3, <2>1, <2>3 DEF CallOK
    <3> QED BY <1>2, <2>3, <3>1, <3>2 DEF CallOK, Waiting
  <2>4. CASE pc[d] = "sent"
    <3>1. tok'[d] = Older(tok[d]) /\ waited'[d] = waited[d] + 1 /\ since'[d] = Older(since[d])
      BY <1>3, <2>4
    <3>2. tok[d] <= RefreshAge + MaxWait + waited[d] /\ tok[d] <= since[d]
      BY <2>1, <2>4 DEF CallOK
    <3>3. tok'[d] <= tok[d] + 1
      BY <1>1, <1>3, <3>1
    <3>4. tok'[d] <= RefreshAge + MaxWait + waited'[d]
      BY <2>2, <3>1, <3>2, <3>3, StellarAssumption
    <3>5. tok'[d] <= since'[d]
      <4>1. CASE since[d] = MaxAge
        <5>1. since'[d] = MaxAge /\ tok'[d] <= MaxAge
          BY <1>1, <1>3, <3>1, <4>1
        <5> QED BY <5>1
      <4>2. CASE since[d] < MaxAge
        <5>1. since'[d] = since[d] + 1
          BY <1>1, <1>3, <3>1, <4>2
        <5> QED BY <5>1, <3>2, <3>3, <2>2
      <4> QED BY <2>2, <4>1, <4>2, StellarAssumption
    <3> QED BY <1>2, <2>4, <3>4, <3>5 DEF CallOK, Waiting
  <2>5. CASE pc[d] \notin {"exchange", "sent"}
    <3>1. waited'[d] = waited[d] /\ (since[d] = MaxAge => since'[d] = MaxAge)
      BY <1>1, <1>3, <2>5
    <3> QED BY <1>2, <2>1, <2>5, <3>1 DEF CallOK, Waiting
  <2> QED BY <2>3, <2>4, <2>5
<1>10. CallInv'
  BY <1>9 DEF CallInv
<1> QED BY <1>7, <1>8, <1>10 DEF IInv

LEMMA NextHolds == IInv /\ [Next]_vars => IInv'
<1> SUFFICES ASSUME IInv, [Next]_vars PROVE IInv'
  OBVIOUS
<1>1. CASE UNCHANGED vars
  BY <1>1 DEF vars, loop, IInv, TypeOK, JwtOK, CallInv
<1>2. CASE Answer
  BY <1>2, AnswerHolds
<1>3. CASE Tick
  BY <1>3, TickHolds
<1>4. ASSUME NEW c \in Calls, Begin(c) \/ Step(c) PROVE IInv'
  BY <1>4, BeginHolds, GetTokenHolds, ExchangedHolds, ExchangeFailsHolds, EndsHold, WakeHolds
     DEF Step
<1> QED BY <1>1, <1>2, <1>3, <1>4 DEF Next

\* The invariant holds in every state the client reaches.
LEMMA InvHolds == Spec => []IInv
<1>1. Init => IInv
  BY InitHolds
<1>2. IInv /\ [Next]_vars => IInv'
  BY NextHolds
<1> QED BY <1>1, <1>2, PTL DEF Spec

-----------------------------------------------------------------------------
(***************************************************************************)
(* What the invariant says of the client                                   *)
(***************************************************************************)
\* Every call is in a state the retry loop knows, its attempts stay below
\* QUERY_RETRY_ATTEMPTS, and ages and waits stay in range (app/stellar.py).
THEOREM Types == Spec => []TypeOK
<1>1. IInv => TypeOK
  BY DEF IInv
<1> QED BY <1>1, InvHolds, PTL

\* An open request carries a token no older than the refresh age, one exchange and
\* its own wait, however calls race for the lock and replace the token of the client
\* meanwhile (_get_access_token): nothing is assumed of how the timeouts, or the life
\* the server gives a token, compare with the refresh age.
THEOREM AgeBound == Spec => []TokenAgeIsBounded
<1>1. IInv => TokenAgeIsBounded
  BY DEF IInv, CallInv, CallOK, TokenAgeIsBounded
<1> QED BY <1>1, InvHolds, PTL

\* After a 401 a call sends only a token that was issued after it, through failing
\* exchanges, sleeps and whatever tokens other calls get (search, list_tenants).
THEOREM Replaced == Spec => []RefusedTokensAreReplaced
<1>1. IInv => RefusedTokensAreReplaced
  BY DEF IInv, CallInv, CallOK, RefusedTokensAreReplaced
<1> QED BY <1>1, InvHolds, PTL
=============================================================================
