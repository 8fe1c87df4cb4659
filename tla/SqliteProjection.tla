--------------------------- MODULE SqliteProjection ---------------------------
(***************************************************************************)
(* The SQLite projection tier: consumer processes (no lease elects one)    *)
(* and operators running dlq.py share one projection file, each over a     *)
(* connection of its own, and a restore drill truncates and rebuilds it.   *)
(*                                                                         *)
(* SQLite has one writer at a time and readers see committed data, so a    *)
(* transaction that ends is one step.  One whose COMMIT fails does not end *)
(* unless the code rolls it back: the connection goes on inside it, sees   *)
(* its own writes, and keeps every other writer out.  Where a statement    *)
(* may fail is the constant FailurePoints: "begin" is the wait for the     *)
(* write lock; "commit" is SQLITE_BUSY at COMMIT, which a rollback journal *)
(* can give and write-ahead logging (asked for, not insisted on) does not. *)
(***************************************************************************)
EXTENDS ReadModels

CONSTANTS
  Log,            \* the rows of the feed; the position of a row is its id
  Commits,        \* the last position of each transaction that wrote the log
  Poison,         \* events the first build's validation refuses
  Consumer,       \* consumer processes
  Operator,       \* operators redriving letters
  FailurePoints,  \* where a transaction may meet an OperationalError
  Batch,          \* events per read_all
  MaxAttempts,    \* RetryPolicy.max_attempts
  MaxFaults,      \* bound on OperationalErrors
  MaxCrashes,     \* bound on crashes
  MaxDrills       \* bound on restore drills

ASSUME SqliteAssumption ==
  /\ Commits \subseteq 1..Len(Log)
  /\ FailurePoints \subseteq {"begin", "commit"}
  /\ Batch \in Nat \ {0}
  /\ MaxAttempts \in Nat \ {0}
  /\ MaxFaults \in Nat /\ MaxCrashes \in Nat /\ MaxDrills \in Nat

(* The feed is one the ledger writes.  A hold is placed once, before it is    *)
(* settled, and the rest of a partial capture is released after it; a set     *)
(* moves an account once and reverts one set or none.                         *)
Settles(e, f) == Log[e].event.group = Log[f].event.group /\ e < f

HoldsInOrder ==
  \A f \in DOMAIN Log :
    /\ Log[f].event.type = "HoldPlaced" =>
         ~\E e \in DOMAIN Log : Settles(e, f) /\ Log[e].event.type \in
                                {"HoldPlaced", "HoldPosted", "HoldReleased"}
    /\ Log[f].event.type = "HoldReleased" /\ Log[f].event.reason = "partial" =>
         \E e \in DOMAIN Log : Settles(e, f) /\ Log[e].event.type = "HoldPosted"

MovesOnce ==
  \A e, f \in DOMAIN Log :
    HasTransferRow(Log[e]) /\ HasTransferRow(Log[f])
      /\ Log[e].event.group = Log[f].event.group =>
        /\ Log[e].account = Log[f].account => e = f
        /\ Log[e].event.reverts = Log[f].event.reverts

(* The first n rows of the feed that are of one account.                      *)
StreamUpto(n, a) == [e \in {f \in 1..n : Log[f].account = a} |-> Log[e].event]

ASSUME FeedAssumption ==
  /\ Log \in Seq(Range(Log))
  /\ \A e \in DOMAIN Log : ValidEvent(Log[e].account, Log[e].event)
  /\ \A n \in 0..Len(Log), a \in Account : ValidView(Fold(StreamUpto(n, a)))
  /\ HoldsInOrder /\ MovesOnce

VARIABLES
  head,      \* the highest position of the feed so far
  db,        \* the committed file
  open,      \* per connection: is it inside a transaction that failed to end?
  view,      \* what such a connection sees
  pc, next, last, attempt,   \* per consumer: where in run() it is
  letter,    \* per operator: the letter whose payload it has read, or 0
  fixed,     \* the build that accepts Poison is deployed
  dump,      \* the file a drill started from
  drills, faults, crashes

Position == 1..Len(Log)
Conn     == Consumer \cup Operator

(* `applied` and `ordered` are history, not columns: how often an event's     *)
(* effects are in, and whether they came in feed order.                       *)
EmptyFile ==
  [claims |-> {}, letters |-> {}, offset |-> 0, tables |-> EmptyTables,
   applied |-> [e \in Position |-> 0], ordered |-> TRUE]

loop  == <<pc, next, last, attempt>>
drill == <<dump, drills>>
vars  == <<head, db, open, view, loop, letter, fixed, drill, faults, crashes>>

Init ==
  /\ head = 0
  /\ db = EmptyFile
  /\ open = [p \in Conn |-> FALSE]
  /\ view = [p \in Conn |-> EmptyFile]
  /\ pc = [c \in Consumer |-> "poll"]
  /\ next = [c \in Consumer |-> 1]
  /\ last = [c \in Consumer |-> 0]
  /\ attempt = [c \in Consumer |-> 1]
  /\ letter = [o \in Operator |-> 0]
  /\ fixed = FALSE
  /\ dump = EmptyFile
  /\ drills = 0 /\ faults = 0 /\ crashes = 0

-----------------------------------------------------------------------------
(* Statements and transactions *)

(* What a connection reads: its own transaction's writes, else what is        *)
(* committed.                                                                 *)
View(p) == IF open[p] THEN view[p] ELSE db

CanWrite(p) == \A q \in Conn \ {p} : ~open[q]

Commit(p, file) ==
  /\ CanWrite(p)
  /\ db' = file
  /\ open' = [open EXCEPT ![p] = FALSE]
  /\ view' = [view EXCEPT ![p] = EmptyFile]

(* COMMIT raises and the transaction stays open.                              *)
CommitFails(p, file) ==
  /\ "commit" \in FailurePoints
  /\ CanWrite(p)
  /\ open' = [open EXCEPT ![p] = TRUE]
  /\ view' = [view EXCEPT ![p] = file]
  /\ UNCHANGED db

(* The first write raises `database is locked`; nothing was written.          *)
BeginFails(p) ==
  /\ "begin" \in FailurePoints
  /\ ~open[p]
  /\ UNCHANGED <<db, open, view>>

Rollback(p) ==
  /\ open' = [open EXCEPT ![p] = FALSE]
  /\ view' = [view EXCEPT ![p] = EmptyFile]
  /\ UNCHANGED db

(* Mutant: the offset is set, not raised: a stale batch takes it back.        *)
SetOffset(file, e) == [file EXCEPT !.offset = e]

AdvanceOffset(file, e) == [file EXCEPT !.offset = IF e > @ THEN e ELSE @]

WithEffects(file, e) ==
  [file EXCEPT !.tables = ApplyRow(@, Log[e]),
               !.applied[e] = @ + 1,
               !.ordered = @ /\ \A f \in e..Len(Log) : file.applied[f] = 0]

(* Mutant: the claim is not taken, the offset alone guards against repeats.   *)
ApplyUnclaimed(p, e) ==
  AdvanceOffset(WithEffects([View(p) EXCEPT !.claims = @ \cup {e}], e), e)

(* The file apply commits.  A claim that is taken raises IntegrityError: the  *)
(* transaction, with whatever else it held, is rolled back, and the offset    *)
(* moves in a new one.                                                        *)
ApplyEvent(p, e) ==
  IF e \in View(p).claims
  THEN AdvanceOffset(db, e)
  ELSE AdvanceOffset(WithEffects([View(p) EXCEPT !.claims = @ \cup {e}], e), e)

(* Mutant: what cannot be applied is skipped.                                 *)
SkipLetter(p, e) == AdvanceOffset(db, e)

DeadLetter(p, e) ==
  IF e \in View(p).claims
  THEN AdvanceOffset(db, e)
  ELSE AdvanceOffset([View(p) EXCEPT !.claims = @ \cup {e}, !.letters = @ \cup {e}], e)

-----------------------------------------------------------------------------
(* One consumer: run and run_consumer, retry around each apply *)

Refused(e) == e \in Poison /\ ~fixed

(* last_id, then read_all from the log file, which only grows.                *)
Poll(c) ==
  LET from == View(c).offset + 1
      to   == IF head < from + Batch - 1 THEN head ELSE from + Batch - 1
  IN  /\ pc[c] = "poll"
      /\ from <= head
      /\ next' = [next EXCEPT ![c] = from]
      /\ last' = [last EXCEPT ![c] = to]
      /\ pc' = [pc EXCEPT ![c] = "apply"]
      /\ attempt' = [attempt EXCEPT ![c] = 1]
      /\ UNCHANGED <<head, db, open, view, letter, fixed, drill, faults, crashes>>

(* Between passes a consumer holds no batch.                                  *)
EndPass(c) ==
  /\ pc' = [pc EXCEPT ![c] = "poll"]
  /\ next' = [next EXCEPT ![c] = 1]
  /\ last' = [last EXCEPT ![c] = 0]
  /\ attempt' = [attempt EXCEPT ![c] = 1]

MoveOn(c) ==
  IF next[c] < last[c]
  THEN /\ next' = [next EXCEPT ![c] = @ + 1]
       /\ attempt' = [attempt EXCEPT ![c] = 1]
       /\ pc' = [pc EXCEPT ![c] = "apply"]
       /\ UNCHANGED last
  ELSE EndPass(c)

ApplyOk(c) ==
  /\ pc[c] = "apply"
  /\ ~Refused(next[c])
  /\ Commit(c, ApplyEvent(c, next[c]))
  /\ MoveOn(c)
  /\ UNCHANGED <<head, letter, fixed, drill, faults, crashes>>

(* An OperationalError: nothing in `apply` rolls it back.  It is retried, or  *)
(* past the budget the event is parked.                                       *)
ApplyFails(c) ==
  /\ pc[c] = "apply"
  /\ ~Refused(next[c])
  /\ faults < MaxFaults
  /\ faults' = faults + 1
  /\ BeginFails(c) \/ CommitFails(c, ApplyEvent(c, next[c]))
  /\ IF attempt[c] < MaxAttempts
     THEN attempt' = [attempt EXCEPT ![c] = @ + 1] /\ UNCHANGED pc
     ELSE pc' = [pc EXCEPT ![c] = "park"] /\ UNCHANGED attempt
  /\ UNCHANGED <<head, next, last, letter, fixed, drill, crashes>>

(* The breaker that counted those errors is open: the pass ends.              *)
Halt(c) ==
  /\ pc[c] = "apply"
  /\ faults > 0
  /\ EndPass(c)
  /\ UNCHANGED <<head, db, open, view, letter, fixed, drill, faults, crashes>>

(* Validation raises before a transaction begins.                             *)
Refuse(c) ==
  /\ pc[c] = "apply"
  /\ Refused(next[c])
  /\ pc' = [pc EXCEPT ![c] = "park"]
  /\ UNCHANGED <<head, db, open, view, next, last, attempt, letter, fixed, drill, faults, crashes>>

Park(c) ==
  /\ pc[c] = "park"
  /\ Commit(c, DeadLetter(c, next[c]))
  /\ MoveOn(c)
  /\ UNCHANGED <<head, letter, fixed, drill, faults, crashes>>

(* The process ends, on SIGKILL or on an error that parking raises, and is    *)
(* started again: closing the connection rolls it back.                       *)
Crash(c) ==
  /\ crashes < MaxCrashes
  /\ pc[c] # "poll" \/ open[c]
  /\ crashes' = crashes + 1
  /\ Rollback(c)
  /\ EndPass(c)
  /\ UNCHANGED <<head, letter, fixed, drill, faults>>

-----------------------------------------------------------------------------
(* dlq.py redrive *)

(* SELECT payload: no transaction is open yet.                                *)
ReadLetter(o, e) ==
  /\ letter[o] = 0
  /\ e \in View(o).letters
  /\ letter' = [letter EXCEPT ![o] = e]
  /\ UNCHANGED <<head, db, open, view, loop, fixed, drill, faults, crashes>>

(* Effects and DELETE in one transaction; how many letters it deleted is not  *)
(* looked at.                                                                 *)
RedriveOk(o) ==
  LET e == letter[o]
  IN  /\ e # 0
      /\ ~Refused(e)
      /\ Commit(o, [WithEffects(db, e) EXCEPT !.letters = @ \ {e}])
      /\ letter' = [letter EXCEPT ![o] = 0]
      /\ UNCHANGED <<head, loop, fixed, drill, faults, crashes>>

(* The event is refused again, or an OperationalError: both roll back, and    *)
(* the letter, its attempts counted or not, stays.                            *)
RedriveFails(o) ==
  /\ letter[o] # 0
  /\ Rollback(o)
  /\ letter' = [letter EXCEPT ![o] = 0]
  /\ UNCHANGED <<head, loop, fixed, drill, faults, crashes>>

-----------------------------------------------------------------------------
(* The surroundings *)

(* A command's transaction appends its rows; a restored copy takes none.      *)
Publish ==
  /\ drills = 0
  /\ \E n \in Commits :
       /\ n > head
       /\ \A m \in Commits : m > head => m >= n
       /\ head' = n
  /\ UNCHANGED <<db, open, view, loop, letter, fixed, drill, faults, crashes>>

Deploy ==
  /\ ~fixed
  /\ Poison # {}
  /\ fixed' = TRUE
  /\ pc' = [c \in Consumer |-> "poll"]
  /\ next' = [c \in Consumer |-> 1]
  /\ last' = [c \in Consumer |-> 0]
  /\ attempt' = [c \in Consumer |-> 1]
  /\ open' = [p \in Conn |-> FALSE]
  /\ view' = [p \in Conn |-> EmptyFile]
  /\ letter' = [o \in Operator |-> 0]
  /\ UNCHANGED <<head, db, drill, faults, crashes>>

(* The drill dumps a drained file, restores the copy, deletes every table the *)
(* consumer rebuilds, and opens the stores anew.                              *)
TruncateDerived ==
  /\ drills < MaxDrills
  /\ \A c \in Consumer : pc[c] = "poll" /\ View(c).offset = head
  /\ \A p \in Conn : ~open[p]
  /\ \A o \in Operator : letter[o] = 0
  /\ drills' = drills + 1
  /\ dump' = db
  /\ db' = EmptyFile
  /\ UNCHANGED <<head, open, view, loop, letter, fixed, faults, crashes>>

(* The fold of each account's stream over some positions of the log.          *)
FoldAll(events) ==
  [a \in {Log[e].account : e \in events} |->
     Fold([e \in {f \in events : Log[f].account = a} |-> Log[e].event])]

(* The drill's criteria: read models as they were dumped and as rebuilt.      *)
Compare(before, after) ==
  /\ after.tables.balances = FoldAll(1..head)
  /\ after.tables = before.tables
  /\ OpenHoldIds(after.tables) = OpenHoldsInLog(SubSeq(Log, 1, head))
  /\ after.claims = 1..head
  /\ after.letters \subseteq before.letters

(* QueryService.get_balance answers unless BalanceView refuses the row: sums   *)
(* of events of which some are missing need not be a balance.                 *)
GetBalanceServed(account) == ValidView(BalanceView(db.tables, account))

Run(c) == Poll(c) \/ ApplyOk(c) \/ ApplyFails(c) \/ Halt(c) \/ Refuse(c) \/ Park(c)

Next ==
  \/ Publish \/ Deploy \/ TruncateDerived
  \/ \E c \in Consumer : Run(c) \/ Crash(c)
  \/ \E o \in Operator : RedriveOk(o) \/ RedriveFails(o) \/ \E e \in Position : ReadLetter(o, e)

Spec == Init /\ [][Next]_vars

-----------------------------------------------------------------------------
(* Properties *)

Settled(file) == {e \in file.claims : e \notin file.letters}

(* cqrs/idempotent_consumer.py on apply: a crash, and an error, never leaves  *)
(* the offset ahead of the applied state: every event at or below the offset  *)
(* is in the read models or parked.  Were the apply transaction not all or    *)
(* nothing, an event would be skipped for ever.                               *)
NothingSkipped == 1..db.offset \subseteq db.claims

(* balances holds, per account, the fold of exactly the events that are       *)
(* claimed and not parked, each counted once, under redelivery by two         *)
(* consumers, stale batches, crashes, retries and redrives.                   *)
BalancesExact == db.tables.balances = FoldAll(Settled(db))

(* The balance of an account can be read at every moment, half-drained        *)
(* batches, crashes and rebuilds included, unless one of the account's own    *)
(* events is parked: a letter of one account never breaks the reads of        *)
(* another, and its redrive repairs those of its own.                         *)
ReadsServed ==
  \A a \in Account : (\A e \in db.letters : Log[e].account # a) => GetBalanceServed(a)

(* transfers_read_model on KIND_RANK: once all of the feed is in, balances,   *)
(* legs, kinds and reverts are the same whatever order redrives gave it.      *)
OrderIndependent ==
  (Settled(db) = Position) =>
    LET ref == ProjectFeed(Log)
    IN  /\ db.tables.balances = ref.balances
        /\ db.tables.legs = ref.legs
        /\ DOMAIN db.tables.transfers = DOMAIN ref.transfers
        /\ \A id \in DOMAIN ref.transfers :
             /\ ShownKind(db.tables, id) = ShownKind(ref, id)
             /\ db.tables.transfers[id].reverts = ref.transfers[id].reverts

(* A restore drill passes: what the consumer rebuilds from the log equals     *)
(* what the crashes, retries and redeliveries of the past had built, if no    *)
(* letter is left in either and the events of both came in feed order (a      *)
(* redrive may break that order, and then a hold can stay open and a reversal *)
(* go unmarked in the dump).                                                  *)
DrillPasses ==
  (drills > 0 /\ db.offset = head /\ \A f \in {dump, db} : f.letters = {} /\ f.ordered)
    => Compare(dump, db)

(* The SQLite tier keeps the promise both tiers make: an event is applied     *)
(* once or parked once and the offset never overtakes it.                     *)
Status(file, e) ==
  CASE file.applied[e] = 0 /\ e \notin file.claims -> "pending"
    [] file.applied[e] = 0 /\ e \in file.letters -> "parked"
    [] file.applied[e] = 1 /\ e \in Settled(file) -> "applied"
    [] OTHER -> "broken"

Promise == INSTANCE Projection WITH
  Feed <- Position, status <- [e \in Position |-> Status(db, e)], offset <- db.offset

KeepsPromise == Promise!Spec
=============================================================================
