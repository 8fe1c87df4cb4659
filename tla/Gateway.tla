------------------------------- MODULE Gateway -------------------------------
(***************************************************************************)
(* The HTTP tier between a client that retries and the command service:    *)
(* the rate limiter per client address, the one per subject, the ownership *)
(* registry, authorization, and execution under a command id.              *)
(*                                                                         *)
(* The address limiter is called on the event loop.  The subject limiter   *)
(* is called from worker threads: the one in memory reads its clock before *)
(* it takes its lock, the one in PostgreSQL is a single statement.         *)
(*                                                                         *)
(* Each client reads the version and makes one deposit to one account with *)
(* the calls of examples/python_client.py.  The command service is taken at what Ledger *)
(* promises: one atomic execution per command id.  Time is relative: a     *)
(* tick refills one token, a bucket has an age, a clock reading a lag.     *)
(***************************************************************************)
EXTENDS Integers, Sequences, FiniteSets

CONSTANTS
  Client,           \* client processes
  Subject,          \* token subjects; everyone may try to register the account
  Address,          \* client addresses
  AddressOf,        \* [Client -> Address]
  SubjectOf,        \* [Client -> Subject]
  Named,            \* subjects whose token names the account
  NoOne,            \* the account is not registered
  ClientCapacity,   \* client_rate_limit_per_minute
  SubjectCapacity,  \* rate_limit_per_minute
  PruneIdle,        \* rate_limit_idle_seconds, in ticks
  MaxAttempts,      \* the client's max_attempts
  MaxTimeouts,      \* bound on transport errors
  MaxLag            \* bound on the ticks between a clock reading and its use

ASSUME GatewayAssumption ==
  /\ AddressOf \in [Client -> Address]
  /\ SubjectOf \in [Client -> Subject]
  /\ Named \subseteq Subject /\ NoOne \notin Subject
  /\ Address \cap Subject = {}  \* the keys of two limiters
  /\ ClientCapacity \in Nat \ {0} /\ SubjectCapacity \in Nat \ {0}
  /\ PruneIdle \in Nat \ {0}  \* all that RetentionPolicy demands
  /\ MaxAttempts \in Nat \ {0} /\ MaxTimeouts \in Nat /\ MaxLag \in Nat

VARIABLES
  log,        \* the account's stream: who deposited
  results,    \* command_results: the version committed, or of the conflict
  backend,    \* settings.rate_limit_backend of the subject limiter
  projected,  \* the version the balance read model has reached
  owner,      \* accounts.owner_subject, or NoOne
  local,      \* per address, the bucket of the middleware's limiter
  bucket,     \* per subject, its bucket in memory or in rate_limit_buckets
  doomed,     \* subjects whose row a running DELETE of retention has selected
  ideal,      \* history: a token bucket as it should be, per address and subject
  reqs,       \* requests on their way through the server
  client,     \* per client, where it is
  timeouts

vars == <<log, results, backend, projected, owner, local, bucket, doomed, ideal, reqs, client, timeouts>>

Key == Address \cup Subject

Capacity(key) == IF key \in Address THEN ClientCapacity ELSE SubjectCapacity

NoBucket == [tokens |-> 0, age |-> -1]

Init ==
  /\ log = <<>>
  /\ results = [id \in {} |-> 0]
  /\ backend \in {"memory", "postgres"}
  /\ projected = 0
  /\ owner = NoOne
  /\ local = [a \in Address |-> NoBucket]
  /\ bucket = [s \in Subject |-> NoBucket]
  /\ doomed = {}
  /\ ideal = [k \in Key |-> Capacity(k)]
  /\ reqs = {}
  /\ client = [c \in Client |-> [phase |-> "reading", version |-> 0, call |-> 0,
                                 attempt |-> 1, waits |-> FALSE, sleep |-> 0]]
  /\ timeouts = 0

-----------------------------------------------------------------------------
(* Token buckets *)

AtMost(cap, n) == IF n > cap THEN cap ELSE n

(* try_acquire at a clock reading that is `lag` ticks old: the tokens there   *)
(* are, and the bucket after the call.  `updated` may move backwards, and     *)
(* with it the tokens that were refilled since.                               *)
Tokens(b, cap, lag) ==
  IF b = NoBucket THEN cap ELSE AtMost(cap, b.tokens + b.age - lag)

TryAcquire(b, cap, lag) ==
  LET tokens == Tokens(b, cap, lag)
  IN  [tokens |-> IF tokens >= 1 THEN tokens - 1 ELSE tokens, age |-> lag]

(* The statement of the limiter in PostgreSQL, at the database's clock: a      *)
(* refusal leaves the row alone.                                              *)
AcquireRow(b, cap) == IF Tokens(b, cap, 0) >= 1 THEN TryAcquire(b, cap, 0) ELSE b

Spend(key) == ideal' = [ideal EXCEPT ![key] = @ - 1]

SubjectTokens(s, lag) == Tokens(bucket[s], SubjectCapacity, lag)

(* _rate_limited, in a worker thread: the limiter in memory read its clock     *)
(* `lag` ticks before it took the lock.                                       *)
RateLimited(s, lag) ==
  /\ \/ /\ backend = "memory"
        /\ bucket' = [bucket EXCEPT ![s] = TryAcquire(@, SubjectCapacity, lag)]
     \/ /\ backend = "postgres" /\ lag = 0
        /\ bucket' = [bucket EXCEPT ![s] = AcquireRow(@, SubjectCapacity)]
  /\ IF SubjectTokens(s, lag) >= 1 THEN Spend(s) ELSE UNCHANGED ideal

(* Mutant: an account nobody has registered is open to all.                   *)
MayAccessUnregistered(s) == s \in Named \/ owner \in {s, NoOne}

(* The token names the account, or the registry says the subject owns it.     *)
MayAccess(s) == s \in Named \/ owner = s

-----------------------------------------------------------------------------
(* The client: _post, balance and deposit_with_conflict_retry *)

(* Mutant: every attempt mints a command id of its own.                       *)
CommandIdPerAttempt(c) == <<c, client[c].call, client[c].attempt>>

(* Minted once per _post and reused by its retries.                           *)
CommandId(c) == <<c, client[c].call, 0>>

(* A call that is over keeps its outcome only.                                *)
Raised == [phase |-> "raised", version |-> 0, call |-> 0, attempt |-> 1,
           waits |-> FALSE, sleep |-> 0]

(* Both calls: GET the balance, then POST the deposit.                        *)
Send(c) ==
  LET k == client[c]
  IN  /\ k.phase \in {"reading", "posting"} /\ ~k.waits /\ k.sleep = 0
      /\ client' = [client EXCEPT ![c].waits = TRUE]
      /\ reqs' = reqs \cup {[client |-> c, phase |-> k.phase, call |-> k.call,
                             attempt |-> k.attempt, id |-> CommandId(c),
                             expected |-> k.version, stage |-> "arrived", lag |-> 0]}
      /\ UNCHANGED <<log, results, backend, projected, owner, local, bucket, doomed, ideal, timeouts>>

(* The call is tried again after a pause, or raises after its last attempt.   *)
Retried(k, ticks) ==
  IF k.attempt = MaxAttempts THEN Raised
  ELSE [k EXCEPT !.waits = FALSE, !.attempt = @ + 1, !.sleep = ticks]

(* httpx.TransportError: a lost connection or a timeout.  The request may     *)
(* still be on its way.  Only _post catches it.                               *)
TransportError(c) ==
  /\ client[c].waits
  /\ timeouts < MaxTimeouts
  /\ timeouts' = timeouts + 1
  /\ client' = [client EXCEPT ![c] = IF @.phase = "posting" THEN Retried(@, 0) ELSE Raised]
  /\ UNCHANGED <<log, results, backend, projected, owner, local, bucket, doomed, ideal, reqs>>

(* _current_version: a balance that is not there yet, 404, means version 0.   *)
(* Only a 429 is retried.                                                     *)
UnderstoodRead(k, status, value) ==
  CASE status \in {200, 404} -> [k EXCEPT !.phase = "posting", !.version = value,
                                          !.waits = FALSE, !.attempt = 1]
    [] status = 429 -> Retried(k, value)
    [] OTHER -> Raised

(* _post; a deposit that meets a version conflict is posted again under a new *)
(* id.  The value is a version, or the ticks of a Retry-After.                *)
UnderstoodPost(k, status, value) ==
  CASE status = 201 -> [Raised EXCEPT !.phase = "done", !.version = value]
    [] status = 409 -> [k EXCEPT !.waits = FALSE, !.version = value, !.call = @ + 1,
                                 !.attempt = 1]
    [] status \in {429, 503} -> Retried(k, value)
    [] OTHER -> Raised

(* The answer reaches the client only if it still waits for this attempt.     *)
Answer(r, status, value) ==
  LET k    == client[r.client]
      live == k.waits /\ <<k.phase, k.call, k.attempt>> = <<r.phase, r.call, r.attempt>>
      next == IF k.phase = "reading" THEN UnderstoodRead(k, status, value)
              ELSE UnderstoodPost(k, status, value)
  IN  /\ reqs' = reqs \ {r}
      /\ client' = IF live THEN [client EXCEPT ![r.client] = next] ELSE client

Proceed(r, stage) ==
  reqs' = (reqs \ {r}) \cup {[r EXCEPT !.stage = stage, !.lag = 0]}

-----------------------------------------------------------------------------
(* The server: one request through the middleware and a route *)

(* ClientRateLimitMiddleware, on the event loop and before any token is       *)
(* verified: nothing runs between the clock reading and the bucket.           *)
ClientLimit(r) ==
  LET a      == AddressOf[r.client]
      tokens == Tokens(local[a], ClientCapacity, 0)
  IN  /\ r.stage = "arrived"
      /\ local' = [local EXCEPT ![a] = TryAcquire(@, ClientCapacity, 0)]
      /\ \/ tokens >= 1 /\ Spend(a) /\ Proceed(r, "admitted") /\ UNCHANGED client
         \/ tokens < 1 /\ Answer(r, 429, 1 - tokens) /\ UNCHANGED ideal
      /\ UNCHANGED <<log, results, backend, projected, owner, bucket, doomed, timeouts>>

(* The token is refused: its lifetime is over, or it never was valid.         *)
Unauthenticated(r) ==
  /\ r.stage = "admitted"
  /\ Answer(r, 401, 0)
  /\ UNCHANGED <<log, results, backend, projected, owner, local, bucket, doomed, ideal, timeouts>>

(* The token is verified and the subject has a token in its bucket; then the  *)
(* route's authorize_account, a query of its own before anything else.        *)
Authenticated(r) ==
  \E lag \in 0..r.lag :
    LET s      == SubjectOf[r.client]
        tokens == SubjectTokens(s, lag)
    IN  /\ r.stage = "admitted"
        /\ RateLimited(s, lag)
        /\ \/ tokens >= 1 /\ MayAccess(s) /\ Proceed(r, "authorized") /\ UNCHANGED client
           \/ tokens >= 1 /\ ~MayAccess(s) /\ Answer(r, 403, 0)
           \/ tokens < 1 /\ Answer(r, 429, 1 - tokens)
        /\ UNCHANGED <<log, results, backend, projected, owner, local, doomed, timeouts>>

(* The balance read model, which may lag behind the log.                      *)
GetBalance(r) ==
  /\ r.stage = "authorized" /\ r.phase = "reading"
  /\ Answer(r, IF projected = 0 THEN 404 ELSE 200, projected)
  /\ UNCHANGED <<log, results, backend, projected, owner, local, bucket, doomed, ideal, timeouts>>

Stored(id, result) == [i \in DOMAIN results \cup {id} |-> IF i = id THEN result ELSE results[i]]

(* Mutant: a repetition is answered with the present version.                 *)
ExecuteRestamps(r) ==
  IF r.id \in DOMAIN results
  THEN /\ results' = Stored(r.id, [results[r.id] EXCEPT !.version = Len(log)])
       /\ UNCHANGED log
  ELSE IF r.expected = Len(log)
  THEN /\ log' = Append(log, r.client)
       /\ results' = Stored(r.id, [status |-> 201, version |-> Len(log) + 1])
  ELSE /\ results' = Stored(r.id, [status |-> 409, version |-> Len(log)])
       /\ UNCHANGED log

(* CommandService.execute: the stored result, or a decision at the version.   *)
Execute(r) ==
  IF r.id \in DOMAIN results THEN UNCHANGED <<log, results>>
  ELSE IF r.expected = Len(log)
  THEN /\ log' = Append(log, r.client)
       /\ results' = Stored(r.id, [status |-> 201, version |-> Len(log) + 1])
  ELSE /\ results' = Stored(r.id, [status |-> 409, version |-> Len(log)])
       /\ UNCHANGED log

PostCommand(r) ==
  /\ r.stage = "authorized" /\ r.phase = "posting"
  /\ Execute(r)
  /\ Answer(r, results'[r.id].status, results'[r.id].version)
  /\ UNCHANGED <<backend, projected, owner, local, bucket, doomed, ideal, timeouts>>

(* CommandExecutor.execute gives up, its last attempt committed or not: 503   *)
(* with a Retry-After.                                                        *)
Unavailable(r) ==
  /\ r.stage = "authorized" /\ r.phase = "posting"
  /\ Execute(r) \/ UNCHANGED <<log, results>>
  /\ Answer(r, 503, 1)
  /\ UNCHANGED <<backend, projected, owner, local, bucket, doomed, ideal, timeouts>>

-----------------------------------------------------------------------------
(* Registration: INSERT ... ON CONFLICT DO NOTHING, then a lookup *)

(* Nothing deletes or updates the row: an account that is taken stays so, and *)
(* the lookup after the INSERT sees what the INSERT met.                      *)
Register(s) ==
  \/ owner = NoOne /\ owner' = s
  \/ owner # NoOne /\ UNCHANGED owner

(* The route: no authorization, but the subject's limiter, in a worker thread *)
(* too.  Requests to register come from addresses of their own.               *)
RegisterAccount(s) ==
  \E lag \in 0..MaxLag :
    /\ RateLimited(s, lag)
    /\ \/ SubjectTokens(s, lag) >= 1 /\ Register(s)
       \/ SubjectTokens(s, lag) < 1 /\ UNCHANGED owner
    /\ UNCHANGED <<log, results, backend, projected, local, doomed, reqs, client, timeouts>>

-----------------------------------------------------------------------------
(* Everything else *)

(* The consumer projects the account's next event.                            *)
Project ==
  /\ projected < Len(log)
  /\ projected' = projected + 1
  /\ UNCHANGED <<log, results, backend, owner, local, bucket, doomed, ideal, reqs, client, timeouts>>

(* Mutant: retention selects a bucket however lately it was used.             *)
PruneSelectEarly(s) ==
  /\ backend = "postgres" /\ bucket[s].age >= 0 /\ s \notin doomed
  /\ doomed' = doomed \cup {s}
  /\ UNCHANGED <<log, results, backend, projected, owner, local, bucket, ideal, reqs, client, timeouts>>

(* buckets_batch, the subselect: under its snapshot, the row was not touched  *)
(* for longer than PruneIdle.  One set serves any number of statements: a row *)
(* inserted after a deletion is in no earlier snapshot.                       *)
PruneSelect(s) ==
  /\ backend = "postgres" /\ bucket[s].age > PruneIdle /\ s \notin doomed
  /\ doomed' = doomed \cup {s}
  /\ UNCHANGED <<log, results, backend, projected, owner, local, bucket, ideal, reqs, client, timeouts>>

(* buckets_batch, the DELETE: at the row lock READ COMMITTED compares the key  *)
(* again and nothing else, so a row used since it was selected is deleted too. *)
PruneDelete(s) ==
  /\ s \in doomed
  /\ doomed' = doomed \ {s}
  /\ bucket' = [bucket EXCEPT ![s] = NoBucket]
  /\ UNCHANGED <<log, results, backend, projected, owner, local, ideal, reqs, client, timeouts>>

Older(b, limit) ==
  IF b = NoBucket \/ b.age = limit THEN b ELSE [b EXCEPT !.age = @ + 1]

(* Ages are counted as far as a refill or retention looks back.               *)
AgeLimit ==
  IF backend = "memory" THEN SubjectCapacity + 2 * MaxLag
  ELSE IF PruneIdle >= SubjectCapacity THEN PruneIdle + 1 ELSE SubjectCapacity

Tick ==
  /\ local' = [a \in Address |-> Older(local[a], ClientCapacity)]
  /\ bucket' = [s \in Subject |-> Older(bucket[s], AgeLimit)]
  /\ ideal' = [k \in Key |-> AtMost(Capacity(k), ideal[k] + 1)]
  /\ reqs' = {[r EXCEPT !.lag = IF r.stage = "admitted" /\ backend = "memory"
                                THEN AtMost(MaxLag, @ + 1) ELSE 0] : r \in reqs}
  /\ client' = [c \in Client |-> [client[c] EXCEPT !.sleep = IF @ > 0 THEN @ - 1 ELSE 0]]
  /\ UNCHANGED <<log, results, backend, projected, owner, doomed, timeouts>>

Serve(r) ==
  \/ ClientLimit(r) \/ Unauthenticated(r) \/ Authenticated(r)
  \/ GetBalance(r) \/ PostCommand(r) \/ Unavailable(r)

Next ==
  \/ \E c \in Client : Send(c) \/ TransportError(c)
  \/ \E r \in reqs : Serve(r)
  \/ \E s \in Subject : RegisterAccount(s) \/ PruneSelect(s) \/ PruneDelete(s)
  \/ Project \/ Tick

Spec == Init /\ [][Next]_vars

-----------------------------------------------------------------------------
(* Properties *)

(* One intent, at most one deposit: although requests are lost, time out and  *)
(* are overtaken by their own retries, answers are lost, a 503 hides a        *)
(* commit, and a conflict starts over under a new command id.                 *)
OncePerIntent ==
  \A c \in Client : Cardinality({i \in DOMAIN log : log[i] = c}) <= 1

(* A client that was told it succeeded finds its deposit at the version it    *)
(* was told, also when the answer came from a repetition.                     *)
SuccessIsTrue ==
  \A c \in Client : client[c].phase = "done" =>
    client[c].version \in DOMAIN log /\ log[client[c].version] = c

(* In no stretch of time does a limiter admit more than its capacity and what *)
(* refills in that time, or the excess stated here: what an ideal bucket is   *)
(* overdrawn by.  The address limiter has none.  The subject limiter in       *)
(* memory lets threads use clock readings late and out of order; that costs   *)
(* no more than what refills in one such delay, however many threads are      *)
(* late.  In PostgreSQL retention may delete a row that was used after it was *)
(* selected, and the bucket starts full again: one bucketful, and never a     *)
(* second one on top, if rows are kept idle for two refills at least (the     *)
(* default is thirty).                                                        *)
WithinLimit ==
  /\ \A a \in Address : ideal[a] >= 0
  /\ \A s \in Subject :
       /\ backend = "memory" => ideal[s] >= -MaxLag
       /\ backend = "postgres" /\ PruneIdle >= 2 * SubjectCapacity
            => ideal[s] >= -SubjectCapacity

(* Every deposit is by a subject who is entitled to the account for good: the *)
(* authorization read before the command's transaction is not stale when it   *)
(* commits.                                                                   *)
OnlyEntitled == \A i \in DOMAIN log : SubjectOf[log[i]] \in Named \cup {owner}

=============================================================================
