# Verification of cloudscale-backend

TLA+ specifications of an event-sourced account ledger: commands are decided on
a folded event stream, appended with optimistic concurrency, published through
a transactional outbox and projected into read models by an elected consumer.
The modules were translated from the Python and SQL under `src/`; TLC checks
them on small instances and TLAPS proves the main safety invariants for every
value of the constants. `PROJECT.json` maps each definition to the lines it
models, and lists runs, mutants, findings, hazards and theorems.

## 1. Inventory

| Component | State | Operations | Talks to |
|---|---|---|---|
| Account aggregate (`domain/account.py`, `commands.py`, `events.py`) | none: pure | `decide*`, `apply`, `fold`, `open_hold_from_events` | called by command execution |
| Command execution (`application/command_execution.py`, `command_service.py`) | none of its own | `execute_command_decision`: look up, fold, check version, decide, append, persist | a `CommandStorage` bound to one transaction |
| PostgreSQL unit of work (`adapters/postgres/command_unit_of_work.py`) | `events`, `command_results`, `stream_snapshots` | `execute` with race retries, one method per statement | PostgreSQL, two unique keys |
| SQLite unit of work (`adapters/sqlite_compat`) | the same tables in one file | `execute` under a lock and `BEGIN IMMEDIATE` | SQLite |
| Snapshots (`application/snapshots.py`) | one verified cache row per stream | `snapshot_rejection`, `fold_from_snapshot`, `after_append` | unit of work |
| Event store and outbox relay (`adapters/postgres/event_store.py`) | `events.published`, `outbox` | `append`, `relay_outbox`, `read_all` | writers, consumers |
| Projection store (`adapters/postgres/projection_store.py`) | `processed_events`, `dead_letters`, `consumer_offset`, balances, holds, transfers | `apply`, `dead_letter`, `redrive` | consumer, operators, sweeper |
| Resilient consumer (`processes/resilient_consumer.py`, `resilience/*`) | a breaker, its place in a batch | `run` | projection store, feed |
| Consumer process and lease (`entrypoints/consumer_loop.py`, `consumer_lease.py`) | a session advisory lock | `run_forever`, `try_acquire`, `held` | resilient consumer |
| SQLite projection tier (`cqrs/idempotent_consumer.py`, `dead_letter_store.py`) | the projection tables in one SQLite file | `apply`, `dead_letter`, `redrive`, queries | consumers, operators, drill |
| Legacy command handler (`cqrs/commands.py`, `durable_eventstore.py`) | a memo of folds per process | `handle`, `append` | the SQLite log |
| Circuit breaker of the HTTP server (`resilience/circuit_breaker.py`, `http/context.py`) | state, count, probe flag, opening time | `call` from many threads, inside `call_with_retry` | unit of work |
| Hold sweeper (`scripts/sweep_holds.py`) | none on disk | `sweep`: query the holds table, read a version, execute `ExpireHold` | read model and unit of work |
| Retention (`entrypoints/retention.py`) | none | delete old `command_results`, idle buckets, old letters | the same tables |
| Rate limiters (`http/limits.py`, `postgres/rate_limiter.py`) | token buckets per address, per subject | `try_acquire` | middleware, routes |
| Account registry | an owner row per account | `register`, `owner_of` | routes, authorization |
| HTTP transport (`entrypoints/http`) | none per request | limit, authenticate, authorize, execute, answer | all of the above |
| Example client (`examples/python_client.py`) | a command id per call | `_post` and `balance` with retries | HTTP transport |
| Restore drill (`scripts/restore_drill.py`) | a dump | truncate, rebuild, compare | SQLite tier |
| Other scripts, migrations, evidence | none of the system's | measurements | everything |

Where it is hard:

- **Optimistic concurrency.** `execute` reads under READ COMMITTED: every
  SELECT of one decision may see a different moment. Only the two unique keys
  (`(stream, seq)`, `command_id`) arbitrate. Counterparty streams carry no
  expected version at all.
- **Lock order.** A posting set takes one key per stream; PostgreSQL makes the
  second inserter of a key wait. Sorting the legs is what prevents deadlock.
- **Retries.** A client that lost its answer resubmits; a race retried more
  than `_MAX_RACE_RETRIES` times raises; retention may have deleted the result.
- **Order of publication.** Ids are drawn before commit and rolled back with
  gaps, so an id cursor skips events. The outbox gives positions afterwards.
- **Exactly once.** The consumer may be restarted, lose its lease while it
  drains, meet errors before or after the commit they hide, and compete with
  operators who redrive.
- **Holds.** Placed, captured in part, voided, expired, reverted, in any order,
  near the ends of the integer ranges.
- **Caches of folds.** A snapshot is read by one statement and its tail by
  another; builds, drops and restored logs make stored states strangers.
- **Transactions that do not end.** In the SQLite tier an error at COMMIT leaves
  a transaction open on a connection that is used again.
- **Order of redrives.** A parked event is applied after its successors.
- **Retries through a gateway.** Requests overtake their own retries, a 503 may
  hide a commit, two limiters and an authorization stand in between.
- **Late calls.** A thread records its outcome in a breaker that other threads
  have since opened, probed or closed.

What makes each part correct is stated as properties (section 4); each hazard in
`PROJECT.json` names the properties that would notice it going wrong.

## 2. Modules

```
AccountDomain          events, fold, command validation, decide_*       (pure)
  Ledger               atomic execution: the abstract specification
    LedgerProofs
  CommandUow           the PostgreSQL unit of work, per statement; implements Ledger
    CommandUowProofs
  HoldSweeper          clients, projection, sweepers, retention around Ledger
    HoldSweeperProofs
  ReadModels           the rows an event writes to balances, holds, transfers (pure)
    SqliteProjection   consumers, operators and a drill on one SQLite file; implements Projection
      SqliteProjectionProofs
Projection             what both projection tiers promise: the abstract specification
Outbox                 writers, id sequence, relays
  OutboxProofs
Consumer               election, drain, retry, breaker, parking, redrive; implements Projection
  ConsumerProofs
CircuitBreaker         the HTTP server's threads and their shared breaker (proofs in GatewayProofs)
FoldCaches             snapshots of both units of work, the legacy handler's memo
  FoldCachesProofs
Gateway                client, limiters, registry, authorization, execution
  GatewayProofs        also CircuitBreaker's, the breaker of the same HTTP server
MCLedger MCCommandUow MCOutbox MCConsumer MCHoldSweeper MCSqliteProjection MCGateway
                       instances for TLC
```

**AccountDomain.** A stream is a function from the `seq` column to events, so
gaps and overwritten keys are expressible. `Fold` is a sum (the two sign tables
make events commute); that `apply` raises on no prefix is not assumed but the
invariant `Foldable`. `MAX_SIGNED_BIGINT` is split into `MaxBigint` for amounts
and `MaxVersion` for versions so that both limits are met by small instances.
Each `Decide*` keeps the checks and the order of the function it is named after.
Payload hashing becomes equality of requests, identifiers are model values,
accounts are numbers because the code sorts by them.

**Ledger** is `execute_command_decision` as one step: stored result, version
check, rejection, acceptance. It is what the SQLite tier does under its lock and
what the PostgreSQL tier must look like. A request with a stored result changes
nothing and is a stuttering step. `ConcurrentSpec` is the promise a concurrent
implementation keeps: acceptances are exact decisions on the log they commit
to, at a clock value already shown; a rejection may rest on mixed reads but
appends nothing and is stored once. Accounts and command ids are finitely many,
so that balances and holds have a sum.

**CommandUow** gives each worker a program counter over the statements of
`execute`: look up the result, fold the anchor (and check the version, take
`occurred_at`), read the hold or the legs, fold the other accounts one by one,
read the reversals, insert the legs in key order, insert the result, commit. An
INSERT is disabled while another open transaction holds its key, loses the race
when the key is committed, and otherwise takes it; where `after_append` raises
on the new event, the transaction is rolled back and `execute` raises.
Connections may be lost at any statement; at the commit the answer may be lost
although it took effect.

**Outbox** separates drawing an id from meeting the unique key, lets
transactions write several streams, and records for each row what its
transaction had read (`basis`), which is history used by properties only. A relay locks, selects, reads the head and publishes
in separate steps and may lose its connection at each.

**Consumer** models an event by its position. The transactions of the
projection store are single steps (rival transactions serialize on the claim of
the event in `processed_events`), the process around them is not: lease,
offset, batch, attempts, breaker, parking. A lost answer is a fault after the
transaction took effect.

**Projection** says what a projection tier owes its readers: each event is
pending, then applied or parked, a parked one may be applied once, nothing is
ever taken back (unless a drill truncates everything), and the offset only
grows and never passes a pending event. `Consumer` and `SqliteProjection` map
their tables to it (`KeepsPromise`).

**ReadModels** has one operator per table, `*After(table, row)`, for the
statements that `apply` and `redrive` run; a table is a function from keys to
rows, so INSERT OR IGNORE and an UPDATE that finds nothing are what they are in
SQL. The statements are those of the SQLite store; the PostgreSQL store runs
the same ones.

**SqliteProjection** gives every process a connection. A transaction that ends
is one step, because SQLite admits one writer; one whose COMMIT fails stays open
and its connection goes on inside it (`open`, `view`). Where statements may fail
is a constant: `"begin"`, the lock is not obtained, can always happen;
`"commit"`, SQLITE_BUSY at COMMIT, happens in rollback-journal mode only, which
the code falls back to in silence. The drill truncates the file and the consumer
rebuilds it. `applied` and `ordered` are history. `FeedAssumption` says that the
feed is one the ledger writes: rows their constructors accept, every prefix of
an account's rows folding to a state `BalanceView` takes, a hold placed once and
before it is settled, a set moving an account once. LedgerProofs shows the same
of the log (`Foldable`, `OnePlacement`, `Captured`, `OneMove`), Outbox that
publication keeps causes before effects.

**FoldCaches** looks at one stream. An event is its id and a state the sequence
of events folded into it, tagged with the build that folded them, so a state
that is not exactly the fold it stands for is visible. PostgreSQL workers step
through snapshot read, tail read, full read, appends and commit; the SQLite unit
of work is one step; legacy handlers catch up, decide, number and insert in
separate steps. Operators drop snapshots, and the events may be restored from
an older backup under snapshots that are newer. CommandUow takes `fold_stream`
at its promise; `FoldsExact` is that promise.

**Gateway** follows the requests of clients that read a version and deposit
once through middleware and route to the command service, which is taken at
what Ledger promises. A client stops waiting at a transport error; its request
does not. A tick refills one token; the limiter in memory uses a clock reading
up to `MaxLag` ticks old, in registrations too, the one in PostgreSQL is one
statement. Retention's DELETE is two steps: `PruneSelect` picks an idle row
under the statement's snapshot, `PruneDelete` removes it whatever has been spent
from it since, because at the row lock READ COMMITTED compares the key again and
not `updated_at`. `doomed` holds the rows picked; one set serves any number of
statements, since a row inserted after a deletion is in no earlier snapshot, and
a statement that dies is one that never deletes. `ideal` is history: a token
bucket as it should be.

**HoldSweeper** composes `Ledger` with a projection that lags behind the log,
sweepers whose query, version read and execution are separate steps, and
retention. Retention waits a week; here any stored result may be that old. A
sweeper keeps nothing on disk, so a killed sweeper is one that takes no further
step: only those in `Alive` are owed progress.

**CircuitBreaker** releases the lock while a call is out, as the code does. A
call succeeds if it met the database up at some moment, and fails if it met it
down. `prober` is history: who was admitted as a probe since the circuit
half-opened. The consumer's own breaker, used by one thread, is in `Consumer`.

## 3. Correspondence

State and actions carry the names of the code's tables, attributes and methods;
the `map` of `PROJECT.json` gives the lines. External to the repository, and
modelled from how it is used: PostgreSQL's key waits and advisory locks, lost
connections, clocks, and the availability of the database; SQLite's single
writer and its errors; deployments, crashes and restored backups.

## 4. Runs

| Run | Module / cfg | Shows |
|---|---|---|
| `ledger` | MCLedger / Ledger.cfg | every kind of command in any order: `Foldable`, `HeldIsOpenHolds`, `MoneyConserved`, `RevertedOnce`, `ResultsMatchLog`, `DecisionsApply` |
| `uow_contended` | MCCommandUow / UowContended.cfg | crossing transfers, a capture racing void and expiry, reused ids, a lost connection or answer: `NoLostUpdate`, `WaitsAscend`, `RepliesDurable`, and `ImplementsLedger` (refinement) |
| `uow_reverts` | MCCommandUow / UowReverts.cfg | reversals of one set from different anchors: `ImplementsLedger`, hence one of them wins, and `Answered` (every call returns) |
| `outbox` | MCOutbox / Outbox.cfg | `Gapless`, `CausesFirst`, `OnlyAhead`, and `EverythingPublished` |
| `consumer` | MCConsumer / Consumer.cfg | `ExactlyOnce`, `OffsetCovers`, `EverythingSettled`, and `KeepsPromise` (refinement of Projection) |
| `sweeper` | MCHoldSweeper / Sweeper.cfg | `ClosedOnce`, `NeverRewritten`, and, with retention running, `HoldsExpire` |
| `sweeper_stuck` | MCHoldSweeper / SweeperStuck.cfg | **violation** of `HoldsExpire` without retention: the sweeper meets its own stored rejection for ever |
| `breaker` | CircuitBreaker / Breaker.cfg | `ProbeOwned` and `Recovers` |
| `snapshots` | FoldCaches / FoldCaches.cfg | every decision rests on an exact fold: `FoldsExact`, `TrustedIsExact`, `NeverOrphaned`, `MemoExact`; the cache stays useful: `TailBounded` |
| `sqlite_projection` | MCSqliteProjection / SqliteProjection.cfg | `BalancesExact`, `ReadsServed`, `OrderIndependent`, `DrillPasses`, and `KeepsPromise` (refinement of Projection) |
| `sqlite_lost` | MCSqliteProjection / SqliteLost.cfg | **violation** of `NothingSkipped` when COMMIT may fail |
| `gateway` | MCGateway / Gateway.cfg | `OncePerIntent`, `SuccessIsTrue`, `WithinLimit`, `OnlyEntitled` |

The type invariants of CommandUow, Consumer and CircuitBreaker are proved; those
of the other modules with proofs are a part of their inductive invariant. Every
property of a passing run is paired with a mutant: an operator beside the definition it stands in for,
commented "Mutant", that errs as a plausible bug would and makes TLC find the
property violated.

**Bounds and why they are enough.** *ledger*: four command ids suffice for a
hold or a set, its settlement or reversal, the reversal of that, and a command
that spends the money in between; every request is offered at every version;
`MaxBigint` is 5 and `MaxVersion` 4, so that balances and versions reach their
ends. `DecisionsApply` excludes one case the instance reaches: the version
check leaves room for one event, a partial capture writes two, and at the last
version but one its append raises and the transaction rolls back; `Foldable`
covers it. *uow*: the same case is met (`AppendFails`), since the highest
version of `uow_contended` is 4; three workers give cycles of length three; a submission per
worker, one retry (`uow_reverts`: two) and one loss let each race be lost, be
retried and be given up. *outbox*: three ids allow a transaction over two
streams beside another that commits between. *consumer*: three events, one of
them poison and one in a newer schema, batches of two, and three faults with two
attempts and a threshold of three, so that one budget is spent with the circuit
closed and the next one meets it open. *sweeper*: one expiring hold, a longer one whose
placement moves the version, a void, two sweepers. *breaker*: three threads, so
that a call from before an outage outlasts a probe while a third begins.
*snapshots*: two workers, two builds, a snapshot every second event and five
events, so that a snapshot is read, superseded, rejected by the other build,
dropped and outlived by a restored log. *sqlite_projection*: seven rows in three
commits, of every kind whose order matters: a hold, its partial capture and the
reversal of that; the hold's placement is the poison. Two faults spend one retry
budget, so any other row may be parked too. One operator (see the remarks).
*gateway*: two clients of one subject behind one address, capacities of one
token, so that each of them is refused for the other's request; two attempts,
one transport error beside any number of 503s; rows idle for more than two
refills, the least `WithinLimit` speaks of, are pruned.

Deadlock checking is off where the system may rest: all requests are answered,
the writers' ids are used up, the feed is drained, or the sweep has nothing
left to do. Symmetry is
used only without liveness properties (the refinement `ImplementsLedger` has
only a safety part).

**Fairness.** *CommandUow*: a worker inside `execute` keeps stepping, since
PostgreSQL runs a statement it was sent; nobody is obliged to submit. *Outbox*:
relays keep polling, because every `read_all` relays first and consumers poll
for ever; writers owe nothing. *Consumer*: weak fairness of each process's
drain loop (`run_forever` never returns and its host restarts it) and of the
reset timeout; no fairness for operators, deployments or publication.
*HoldSweeper*: the sweeper that is not killed, the consumer and retention run
on a schedule; clients owe nothing. *CircuitBreaker*: calls end because the
driver has timeouts, time passes, and clients keep coming: an open circuit is
only promoted by a caller, so without traffic it stays open, harmlessly. The
database need never recover; `Recovers` assumes it in its premise. FoldCaches,
SqliteProjection and Gateway state safety only and assume none: the loop of the
SQLite consumer is the one whose progress `Consumer` checks, and a client's
deposit may rightly never succeed.

## 5. Findings

Two places where the code does not do what the repository says of it; each has
a run, and the quotations are in `PROJECT.json`.

1. `sweep_holds.py`: the command id of an expiry depends on the hold only, the
   request also on the version. A sweep that loses a version race stores
   `version_conflict` under that id; each later sweep gets
   `command_id_conflict`. The hold stays reserved until retention deletes the
   result. The comment and the runbook say the next sweep releases it.
2. `IdempotentProjectionStore.apply` rolls back on `IntegrityError` only. When
   COMMIT raises, the claim and the effects stay in an open transaction; the
   retry meets its own claim, rolls everything back and commits the offset
   alone. The event is neither applied nor parked.

Remarks, without a run of their own:

- `relay_outbox` numbers by id, not in commit order. What consumers need
  (`CausesFirst`, `OnlyAhead`, `Gapless`) holds all the same.
- A transient error that outlasts the retry budget before the breaker opens
  parks a sound event. The lease does not stop a drain under way: two processes
  may drain, and `ExactlyOnce` holds in those states too. A redrive does not
  upcast.
- Two operators who redrive one letter of a SQLite file from two processes can
  both apply it: `redrive` reads the letter before it has the write lock and
  ignores how many rows its DELETE removed. With `Operator = {o1, o2}` in
  `SqliteProjection.cfg` TLC refutes `BalancesExact`. The docstring of `redrive`
  (`dead_letter_store.py:126`), `dlq.py:14` and `RUNBOOK.md:153` promise exactly
  once without such a limit; `docs/reviews/2026-09-19-review4-operators.md`, F2,
  reports the same race of the PostgreSQL store, which deletes first since and
  is no longer exposed.
- A placement that is redriven after its settlement leaves the hold open in the
  read model, and a set redriven after its reversal stays unmarked: an UPDATE
  found no row. `OrderIndependent` leaves these two columns out, `DrillPasses`
  asks for feed order. A drill would report them.
- While an event is parked, the row of its account may be one `BalanceView`
  refuses (a negative balance or reservation); reading it raises until the
  redrive. `ReadsServed` shows that no other account is affected.
- The limiter in memory may admit, beyond its limit, what refills during the
  longest delay between a clock reading and the lock; `WithinLimit` shows it is
  no more, however many threads are late.
- `retention.py:8-10` and `RUNBOOK.md:58-59` say that pruning buckets changes no
  behaviour. A bucket that a request spends between the snapshot of the DELETE
  and its row lock is deleted all the same, and its subject starts over with a
  full one. `WithinLimit` bounds what that gives away: one bucketful, and no
  second one before the first is paid back, if `rate_limit_idle_seconds` is at
  least twice the time to refill (3600 s against 60 s by default). The policy
  asks for a positive number only, and with less the excess can add up. Had
  `WithinLimit` asked for no excess in PostgreSQL, TLC would refute it in nine
  states.
- A log restored to an earlier moment keeps a newer snapshot row that every read
  rejects, and the monotonic upsert does not replace it until the stream has
  grown past it: correct, but uncached until then. `drop` helps.
- `app.py` adds the access log first and comments that it is outermost;
  Starlette wraps in reverse order of `add_middleware`, so the address limiter
  answers its 429s outside the access log.

## 6. Proofs

All for arbitrary constants under the `ASSUME`s of the modules (naturals for
bounds, valid requests, distinct model values).

**CommandUowProofs**: `TypeCorrect`, `Dense` (`StreamsDense`),
`DecidesOnTheHead` (`NoLostUpdate`), `NoCircularWait` (`WaitsAscend`),
`AnswersAreDurable` (`RepliesDurable`), from one inductive invariant. None of
these is inductive alone. The strengthening says, per worker, that a fold it
took is the fold of a prefix of the stream (versions only grow), that the legs
inserted so far are the least ones of its plan in key order, that no other
transaction has rows in the same stream, that a stream it has rows in was
folded to its committed head, and that a worker past `persist` is alone in
holding its result key, with nothing stored under it.
A commit extends exactly the streams whose next keys it holds, hence leaves
every other holder's fold current and streams gapless. `WaitsAscend` needs the
legs to be taken in ascending order: the key a worker waits for is above all it
holds, and it waits for what its blocker holds, which is below what the blocker
waits for. That plans exist and their least leg is well defined uses
`FS_Interval` and a minimum lemma from well-foundedness of the naturals.

`Refinement` (`ImplementsLedger`) is the main result: every step of the racing
transactions is a step or a stutter of Ledger's `ConcurrentSpec`. The streams an
accepted plan writes to are folded to their heads when it commits, since it
holds their next keys. It remains to show that the other reads still hold as
well, although nothing locks them. This is the invariant `RInv`, inductive
together with the one above:

- `Decided`: the plan is the decision on the folds and reads the worker has, and
  `after_append` has raised on no leg inserted so far;
- `HoldCurrent`: while the anchor's fold is at the head, the hold read is the
  open hold, because holds are closed by rows of the anchor's stream;
- `LegsCurrent`: the legs read of a set are all its legs, whoever commits. A
  group moves when its command commits, and the id is then taken
  (`GroupsNamed`); only a capture moves a group again, that of its hold, and it
  closes the hold in the one stream that placed it (`HoldsCaptured`);
- `Unreverted`: while the anchor's fold is at the head, nobody has reverted the
  set: a reversal writes to every stream of the set, the anchor's included.

A decision looks only at the states of the accounts it writes to
(`DecideLegsFor`), so folds that agree there give the plan that the atomic
execution would make. What `Atomic!` names is a new operator to the prover, so
each one (`Atomic!Fold`, `Atomic!DecideRevert`, ...) is first shown equal to the
one CommandUow uses. By the refinement what LedgerProofs shows of
`ConcurrentSpec` holds of the PostgreSQL unit of work.

**LedgerProofs**: `StreamsFold` (`Foldable`), `HoldsAddToHeld`
(`HeldIsOpenHolds`), `MoneyIsConserved` (`MoneyConserved`), `SetsRevertOnce`
(`RevertedOnce`), `ResultsAgree` (`ResultsMatchLog`) and `DecisionsHold`
(`DecisionsApply`), each for `Spec` and for `ConcurrentSpec`. Every one of them
is about a sum over a finite set, so the first part gives `SumFunctionOnSet` its
laws (empty set, one more element, disjoint union, equal values), each from a
smallest counterexample instead of an induction scheme. The second part is about
decisions: on streams that fold, whatever `decide_*` accepts has one of six
shapes (cash, a hold placed, released or captured, a set moved, a set reverted)
and `apply` takes it. The third is the invariant `Consistent`, of which no
property is inductive alone:

- rows are those their constructors accept, and name accepted commands only, so
  that a fresh command id occurs nowhere in the log;
- a group moves each account at most once and its movements cancel out
  (`OneMove`, `Cancels`): this is why a reversal planned from one leg per
  account restores every balance and makes no money;
- a hold is placed once, in one stream, and a group that is a hold's moves money
  only after its capture (`OnePlacement`, `Captured`): a capture cannot join a
  group that has moved already, and the amount of an open hold is unambiguous;
- a reversal does the opposite of what it reverts, and all rows that revert a
  set are of one group (`Mirrored`, `OneReversal`);
- held amounts, balances and results agree with the log (`HoldsAddUp`,
  `MoneyAddsUp`, `Matches`).

Each part is preserved by an append of each shape. `ConcurrentSpec` adds only
rejections that append nothing. The proof found the model too weak in one place:
nothing had said that a leg is a debit or a credit, and a `Post` with a leg that
is neither would make money. `Leg.__post_init__` refuses it, and `ValidLeg` now
does.

**ConsumerProofs**: `TypeCorrect`, `AppliedExactlyOnce` (`ExactlyOnce`),
`NothingSkipped` (`OffsetCovers`), and `PromiseKept` (`KeepsPromise`): with the
same invariant every step maps to a step or a stutter of Projection. The strengthening says that an operator's
claim is of a parked letter no other operator claims, that a batch lies within
the feed, and that a consumer inside a pass, wherever it stands, has everything
below its position behind it.

**OutboxProofs**: `PositionsGapless` (`Gapless`), `CausesPublishedFirst`
(`CausesFirst`), `FeedOnlyGrows` (`OnlyAhead`). The strengthening says that a
relay past `idle` holds the lock, so the head it read is the head; that a writer
reads before it draws an id, so a row's `basis` has smaller ids, all committed;
and that a relay's selection is unpublished and closed under `basis`: what a
selected row rests on is published or selected with it, at a smaller id. The
last part is what makes publishing in id order safe although ids commit out of
order.

**GatewayProofs**: `DepositsOnce` (`OncePerIntent`), `SuccessTrue`
(`SuccessIsTrue`), `LimitsHold` (`WithinLimit`), `EntitledOnly`
(`OnlyEntitled`). For the first two, stored results and log agree row by row,
and of two calls a client has posted under different command ids the earlier one
has a stored conflict: an id without an answer is never left behind. For the
limits, a bucket is at most `ideal` plus a slack and an excess (`Covers`). The
slack is `MaxLag` for the limiter in memory, and what a bucket is ahead is no
more than the age of its last clock reading, so that a late reading repays what
an early one refilled. The excess is one bucketful in PostgreSQL, and none for a
row retention has selected: it was idle for two refills, of which the first
repays what an earlier deletion gave away and the second fills `ideal`; from
then on requests spend from both alike, and the deletion gives away one
bucketful at most. Where retention waits for less, `WithinLimit` promises
nothing of PostgreSQL, and nothing is assumed of `PruneIdle` but that it is
positive. Addresses and subjects are assumed distinct keys: they belong to two
limiter objects.
The breaker that the server's threads share is in the same module, under names
of its own (`BreakerSpec`): `BreakerTyped` (`TypeOK`) and `NeverWedged`
(`ProbeOwned`). With `TypeOK` the property is inductive: recording any outcome
leaves the flag down and nobody a probe, because a failure in the half-open
state always trips.

**FoldCachesProofs**: `DecisionsOnExactFolds` (`FoldsExact`), `TrustIsSafe`
(`TrustedIsExact`), `AnchorInLog` (`NeverOrphaned`), `TailStaysShort`
(`TailBounded`), `MemosAreFolds` (`MemoExact`). The strengthening says that a
snapshot is genuine: whenever its anchor is where it says, the log before it is
what was folded, because ids are unique and a restored log is a prefix. Rows
not committed yet are younger than any anchor, only one transaction at a time
has inserted rows, and each worker's base is a prefix of the log as it stands.

**HoldSweeperProofs**: `HoldsEndOnce` (`ClosedOnce`) and `NeverWritesAgain`
(`NeverRewritten`). The strengthening says where each row of a stream comes
from: genesis, a client's request whose expected version the stream has left
behind, or an expiry that ends the hold it names; and that no two rows of a
stream end one hold. A resubmitted command thus meets a version conflict, and an
expiry a hold that is closed. `NeverWritesAgain` has the hypothesis
`OneRequestPerId`: a client gives a new command a new id. Once retention has
dropped a result the code can no longer tell an id used for another command from
a fresh one, and the theorem does not hold without it; the instance TLC checks
satisfies it, and so do the clients under `src/examples`.

The proofs of HoldSweeper and CommandUow are about decisions as well, so where
two arms of a `CASE` of AccountDomain could both be true, a nested `IF` now
fixes the order of the code's checks.

**SqliteProjectionProofs**: `BalancesStayExact` (`BalancesExact`),
`ReadsStayServed` (`ReadsServed`), `OrderNeverMatters` (`OrderIndependent`),
`DrillsPass` (`DrillPasses`), `Promised` (`KeepsPromise`) and `NothingIsSkipped`
(`NothingSkipped`), for every feed and any number of consumers. Their hypothesis
`Setting` names what the run `sqlite_projection` has as well: no COMMIT fails,
there is a consumer, and at most one operator. The first is needed because a
failing COMMIT loses an event (finding 2), so `NothingIsSkipped` says that
nothing else does; the last because two operators can apply a letter twice (the
remark in section 5).

The argument has three parts. First, what the tables are as a function of the
*set* of events applied, in whatever order: balances are sums over it, the
legs are those of its movements, and a set's row has the strongest kind among
its legs (`Projected`). Each of these `*After`s of ReadModels takes the table of
a set to that of the set with one more event; the sums get their laws as in
LedgerProofs. Second, what they are
when events come in feed order (`Built(m)`, by recursion on `m`): then the open
holds, which depend on the order, are those of the log, and tables rebuilt in
that order are equal, marks of reverted sets included; this is what the drill
compares. Third, the invariant `FInv`, none of whose
conclusions is inductive alone: no transaction stays open; a consumer in a pass
has claimed everything before its position; the letter an operator has read is
still there; and the file (as well as the dump a drill keeps) has claims `1..n`
with the offset among them, letters that are claimed, each other event applied
once, tables that are those of the set of events settled, and, while `ordered`
with `m` events in, the tables `Built(m)`. `FInv` was checked with TLC on the
instance first.

Only model-checked: liveness (`Answered`, `EverythingPublished`,
`EverythingSettled`, `HoldsExpire`, `Recovers`), which is out of the prover's
reach. Every other property of a passing run is a theorem.

## 7. Not modelled, and the plan

Not modelled:

- the eviction of buckets at `max_keys` and the retention of dead letters (off
  by default; it gives parked events up on purpose);
- the routes other than deposit, balance and registration: they authorize and
  execute in the same shape, `post_revert` for every account it debits, on legs
  that never change once committed;
- `wait_for_version` of the client, a poll of the balance;
- parsing, serialization and wording of requests, events and results, telemetry,
  settings: stateless;
- the PostgreSQL restore drill, whose steps around pg_dump are those of the
  SQLite drill, and the soak, load, gate and evidence scripts: drivers;
- the unit of work's connection read by `legs_of` beside a transaction of
  another thread: below the grain of the model.

Every component with state of its own has a module, and every safety property
and refinement of a passing run a proof. The plan has nothing left but what the
prover cannot reach, liveness, and the parts listed above.
