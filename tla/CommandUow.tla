------------------------------ MODULE CommandUow ------------------------------
(***************************************************************************)
(* The PostgreSQL command unit of work, one action per SQL statement.      *)
(*                                                                         *)
(* Each HTTP worker runs execute(): a READ COMMITTED transaction whose     *)
(* every SELECT sees what is committed when that SELECT runs.  Two unique  *)
(* keys arbitrate: UNIQUE (stream, seq) on events and the primary key of   *)
(* command_results.  An INSERT waits while another open transaction holds  *)
(* its key (the action is disabled), raises UniqueViolation when the key   *)
(* is committed, and otherwise takes the key until commit or rollback.     *)
(* A lost race rolls back and decides again on fresh reads, at most        *)
(* MaxRaceRetries times.                                                   *)
(*                                                                         *)
(* The connection may be lost at any statement, and at the commit the      *)
(* answer may be lost although the commit took effect; callers then        *)
(* resubmit the same request.                                              *)
(***************************************************************************)
EXTENDS AccountDomain

CONSTANTS
  Requests, Genesis, MaxNow,  \* as in Ledger
  Worker,                     \* concurrent callers of execute()
  MaxRaceRetries,             \* _MAX_RACE_RETRIES
  MaxSubmits,                 \* bound on calls of execute()
  MaxLosses                   \* bound on lost connections

ASSUME UowAssumption ==
  /\ \A r \in Requests : r.id \in CommandId /\ r.cmd # NoId /\ ValidCommand(r.cmd)
  /\ MaxNow \in Nat
  /\ MaxRaceRetries \in Nat
  /\ MaxSubmits \in Nat
  /\ MaxLosses \in Nat

VARIABLES
  log, results, now,  \* the committed database and the clock
  pc,        \* per worker, the next statement of its transaction
  req,       \* the request it executes
  attempt,   \* attempts made, the current one included
  at,        \* occurred_at of this attempt
  folds,     \* per account, the state it folded; the unknown state until then
  hold,      \* the open hold it read
  orig,      \* the movement legs of the posting set it read
  others,    \* the accounts still to fold
  plan,      \* its decision
  taken,     \* the legs <<account, index>> it has inserted
  replies,   \* every answer a caller received: [id, cmd, result]
  submits,   \* calls of execute() so far
  losses     \* connections lost so far

db     == <<log, results, now>>
reads  == <<at, folds, hold, orig, others>>
bounds == <<submits, losses>>
vars   == <<db, pc, req, attempt, reads, plan, taken, replies, bounds>>

Atomic == INSTANCE Ledger

Stages == {"idle", "begin", "fold", "hold", "legs", "others", "reverted",
           "append", "persist", "commit"}

NoRequest == [id |-> NoId, cmd |-> NoId]
UnknownAccounts == [a \in Account |-> Fold(EmptyStream)]

Init ==
  /\ Atomic!Init
  /\ pc = [w \in Worker |-> "idle"]
  /\ req = [w \in Worker |-> NoRequest]
  /\ attempt = [w \in Worker |-> 0]
  /\ at = [w \in Worker |-> 0]
  /\ folds = [w \in Worker |-> UnknownAccounts]
  /\ hold = [w \in Worker |-> NoHold]
  /\ orig = [w \in Worker |-> {}]
  /\ others = [w \in Worker |-> {}]
  /\ plan = [w \in Worker |-> Rejected("none")]
  /\ taken = [w \in Worker |-> {}]
  /\ replies = {}
  /\ submits = 0
  /\ losses = 0

-----------------------------------------------------------------------------
(* Steps shared by several statements *)

GoTo(w, stage) == pc' = [pc EXCEPT ![w] = stage]

(* A new transaction starts with a fresh _BoundStorage.                       *)
Forget(w) ==
  /\ at' = [at EXCEPT ![w] = 0]
  /\ folds' = [folds EXCEPT ![w] = UnknownAccounts]
  /\ hold' = [hold EXCEPT ![w] = NoHold]
  /\ orig' = [orig EXCEPT ![w] = {}]
  /\ others' = [others EXCEPT ![w] = {}]
  /\ plan' = [plan EXCEPT ![w] = Rejected("none")]
  /\ taken' = [taken EXCEPT ![w] = {}]

(* execute() returns or raises: the worker is free again.                     *)
Leave(w) ==
  /\ GoTo(w, "idle")
  /\ req' = [req EXCEPT ![w] = NoRequest]
  /\ attempt' = [attempt EXCEPT ![w] = 0]
  /\ Forget(w)

Answer(r, result) ==
  replies' = replies \cup {[id |-> r.id, cmd |-> r.cmd, result |-> result]}

Adopt(w, d) ==
  /\ plan' = [plan EXCEPT ![w] = d]
  /\ GoTo(w, IF d.outcome = "accepted" THEN "append" ELSE "persist")

(* _fold_others: the accounts of the legs other than the anchor.              *)
OtherAccounts(r) ==
  LET legs == LegsOf(r.cmd)
  IN  {legs[i].account : i \in DOMAIN legs} \ {r.cmd.account}

(* It folds them in the order of the command's legs; the log holds the legs   *)
(* of a set by ascending account.                                             *)
FoldsBefore(r, a, b) ==
  LET legs == LegsOf(r.cmd)
  IN  IF r.cmd.kind \in {"Transfer", "Post"}
      THEN \E i, j \in DOMAIN legs : i < j /\ legs[i].account = a /\ legs[j].account = b
      ELSE a < b

GroupAccounts(g) ==
  {a \in Account : \E i \in DOMAIN log[a] : log[a][i].group = g}

-----------------------------------------------------------------------------
(* The statements *)

Submit(w, r) ==
  /\ pc[w] = "idle"
  /\ submits < MaxSubmits
  /\ submits' = submits + 1
  /\ req' = [req EXCEPT ![w] = r]
  /\ attempt' = [attempt EXCEPT ![w] = 1]
  /\ GoTo(w, "begin")
  /\ UNCHANGED <<db, reads, plan, taken, replies, losses>>

(* stored_result finds nothing.                                               *)
FindNoResult(w) ==
  /\ pc[w] = "begin"
  /\ results[req[w].id] = Atomic!NoResult
  /\ GoTo(w, "fold")
  /\ UNCHANGED <<db, req, attempt, reads, plan, taken, replies, bounds>>

(* stored_result finds the outcome of the same request: answer with it.       *)
Replay(w) ==
  /\ pc[w] = "begin"
  /\ results[req[w].id].cmd = req[w].cmd
  /\ Answer(req[w], results[req[w].id])
  /\ Leave(w)
  /\ UNCHANGED <<db, bounds>>

(* It finds another request under this id: nothing is persisted.              *)
IdConflict(w) ==
  LET r == req[w]
      v == Fold(log[r.cmd.account]).version
  IN  /\ pc[w] = "begin"
      /\ results[r.id] # Atomic!NoResult
      /\ results[r.id].cmd # r.cmd
      /\ Answer(r, Atomic!Result(r, "command_id_conflict", v, 0))
      /\ Leave(w)
      /\ UNCHANGED <<db, bounds>>

(* Mutant: the expected version is not compared.                              *)
FoldAnchorAnyVersion(w) ==
  LET r == req[w]
      c == r.cmd
      f == [folds[w] EXCEPT ![c.account] = Fold(log[c.account])]
  IN  /\ pc[w] = "fold"
      /\ folds' = [folds EXCEPT ![w] = f]
      /\ at' = [at EXCEPT ![w] = now]
      /\ others' = [others EXCEPT ![w] = IF c.kind \in {"Transfer", "Post"}
                                         THEN OtherAccounts(r) ELSE {}]
      /\ CASE c.kind \in {"Deposit", "Withdraw", "Hold"} ->
                Adopt(w, DecideLegs(f, NoHold, {}, FALSE, r, now))
           [] c.kind \in {"Transfer", "Post"} -> GoTo(w, "others") /\ UNCHANGED plan
           [] c.kind = "Revert" -> GoTo(w, "legs") /\ UNCHANGED plan
           [] OTHER -> GoTo(w, "hold") /\ UNCHANGED plan
      /\ UNCHANGED <<db, req, attempt, hold, orig, taken, replies, bounds>>

(* fold_stream of the anchor, the expected-version check and occurred_at;     *)
(* a command that needs no further read is decided at once.                   *)
FoldAnchor(w) ==
  LET r == req[w]
      c == r.cmd
      s == Fold(log[c.account])
      f == [folds[w] EXCEPT ![c.account] = s]
  IN  /\ pc[w] = "fold"
      /\ folds' = [folds EXCEPT ![w] = f]
      /\ at' = [at EXCEPT ![w] = now]
      /\ others' = [others EXCEPT ![w] = IF c.kind \in {"Transfer", "Post"}
                                         THEN OtherAccounts(r) ELSE {}]
      /\ CASE s.version # c.expected -> Adopt(w, Rejected("version_conflict"))
           [] s.version = c.expected /\ c.kind \in {"Deposit", "Withdraw", "Hold"} ->
                Adopt(w, DecideLegs(f, NoHold, {}, FALSE, r, now))
           [] s.version = c.expected /\ c.kind \in {"Transfer", "Post"} ->
                GoTo(w, "others") /\ UNCHANGED plan
           [] s.version = c.expected /\ c.kind = "Revert" ->
                GoTo(w, "legs") /\ UNCHANGED plan
           [] OTHER -> GoTo(w, "hold") /\ UNCHANGED plan
      /\ UNCHANGED <<db, req, attempt, hold, orig, taken, replies, bounds>>

(* open_hold: only a settlement of an open hold reads on (its target).        *)
ReadOpenHold(w) ==
  LET r == req[w]
      h == OpenHold(log[r.cmd.account], r.cmd.hold)
  IN  /\ pc[w] = "hold"
      /\ hold' = [hold EXCEPT ![w] = h]
      /\ IF r.cmd.kind = "PostHold" /\ h # NoHold
         THEN /\ others' = [others EXCEPT ![w] = {h.counterparty} \ {r.cmd.account}]
              /\ GoTo(w, "others")
              /\ UNCHANGED plan
         ELSE /\ Adopt(w, DecideLegs(folds[w], h, {}, FALSE, r, at[w]))
              /\ UNCHANGED others
      /\ UNCHANGED <<db, req, attempt, at, folds, orig, taken, replies, bounds>>

(* legs_of: a reversal then folds every stream the set touched.               *)
ReadLegs(w) ==
  LET c == req[w].cmd
      accounts == GroupAccounts(c.transfer) \ {c.account}
  IN  /\ pc[w] = "legs"
      /\ orig' = [orig EXCEPT ![w] = MovementLegs(log, c.transfer)]
      /\ others' = [others EXCEPT ![w] = accounts]
      /\ GoTo(w, IF accounts = {} THEN "reverted" ELSE "others")
      /\ UNCHANGED <<db, req, attempt, at, folds, hold, plan, taken, replies, bounds>>

FoldOther(w, a) ==
  LET r == req[w]
      f == [folds[w] EXCEPT ![a] = Fold(log[a])]
  IN  /\ pc[w] = "others"
      /\ \A b \in others[w] \ {a} : FoldsBefore(r, a, b)
      /\ folds' = [folds EXCEPT ![w] = f]
      /\ others' = [others EXCEPT ![w] = @ \ {a}]
      /\ CASE others[w] # {a} -> UNCHANGED <<pc, plan>>
           [] others[w] = {a} /\ r.cmd.kind = "Revert" ->
                GoTo(w, "reverted") /\ UNCHANGED plan
           [] OTHER -> Adopt(w, DecideLegs(f, hold[w], {}, FALSE, r, at[w]))
      /\ UNCHANGED <<db, req, attempt, at, hold, orig, taken, replies, bounds>>

(* reverted_by, the last read of a reversal.                                  *)
ReadRevertedBy(w) ==
  LET r == req[w]
      reverted == RevertersOf(log, r.cmd.transfer) # {}
  IN  /\ pc[w] = "reverted"
      /\ Adopt(w, DecideLegs(folds[w], NoHold, orig[w], reverted, r, at[w]))
      /\ UNCHANGED <<db, req, attempt, reads, taken, replies, bounds>>

-----------------------------------------------------------------------------
(* Writing *)

PlannedLegs(w) ==
  UNION {{<<a, i>> : i \in DOMAIN plan[w].legs[a]} : a \in DOMAIN plan[w].legs}

ToInsert(w) == PlannedLegs(w) \ taken[w]

Precedes(l, m) == l[1] < m[1] \/ (l[1] = m[1] /\ l[2] < m[2])

(* Mutant: the anchor's legs go first, whatever its account id.               *)
IsNextLegAnchorFirst(w, leg) ==
  LET anchor == {m \in ToInsert(w) : m[1] = req[w].cmd.account}
  IN  leg \in ToInsert(w) /\ \A m \in ToInsert(w) \ {leg} :
        IF anchor = {} THEN Precedes(leg, m)
        ELSE leg \in anchor /\ (m \in anchor => Precedes(leg, m))

(* The legs are inserted sorted by account id, in decision order per stream.  *)
IsNextLeg(w, leg) ==
  leg \in ToInsert(w) /\ \A m \in ToInsert(w) \ {leg} : Precedes(leg, m)

KeyOf(w, leg) == <<leg[1], folds[w][leg[1]].version + leg[2]>>

HasKey(w, key) == \E leg \in taken[w] : KeyOf(w, leg) = key

HeldByOther(w, key) == \E x \in Worker \ {w} : HasKey(x, key)

(* Mutant: no unique key on (stream, seq).                                    *)
CommittedNever(key) == FALSE

Committed(key) == key[2] \in DOMAIN log[key[1]]

(* append_event of the next leg: its key is free, and after_append applies    *)
(* the event to the folded state.                                             *)
AppendEvent(w, leg) ==
  /\ pc[w] = "append"
  /\ IsNextLeg(w, leg)
  /\ ~Committed(KeyOf(w, leg))
  /\ ~HeldByOther(w, KeyOf(w, leg))
  /\ ~AppendRaises(folds[w][leg[1]], SubSeq(plan[w].legs[leg[1]], 1, leg[2]))
  /\ taken' = [taken EXCEPT ![w] = @ \cup {leg}]
  /\ GoTo(w, IF ToInsert(w) = {leg} THEN "persist" ELSE "append")
  /\ UNCHANGED <<db, req, attempt, reads, plan, replies, bounds>>

(* after_append raises where the fold would: the transaction is rolled back   *)
(* and execute() raises, without an answer.                                   *)
AppendFails(w) ==
  /\ pc[w] = "append"
  /\ \E leg \in ToInsert(w) :
       /\ IsNextLeg(w, leg)
       /\ ~Committed(KeyOf(w, leg))
       /\ ~HeldByOther(w, KeyOf(w, leg))
       /\ AppendRaises(folds[w][leg[1]], SubSeq(plan[w].legs[leg[1]], 1, leg[2]))
  /\ Leave(w)
  /\ UNCHANGED <<db, replies, bounds>>

HasResultKey(w, id) == pc[w] = "commit" /\ req[w].id = id

(* Mutant: no primary key on command_results.                                 *)
PersistResultAnyway(w) ==
  /\ pc[w] = "persist"
  /\ GoTo(w, "commit")
  /\ UNCHANGED <<db, req, attempt, reads, plan, taken, replies, bounds>>

PersistResult(w) ==
  /\ pc[w] = "persist"
  /\ results[req[w].id] = Atomic!NoResult
  /\ ~\E x \in Worker \ {w} : HasResultKey(x, req[w].id)
  /\ GoTo(w, "commit")
  /\ UNCHANGED <<db, req, attempt, reads, plan, taken, replies, bounds>>

ResultOf(w) ==
  LET c == req[w].cmd
  IN  IF plan[w].outcome = "accepted"
      THEN Atomic!Result(req[w], "accepted", c.expected,
                         c.expected + Len(plan[w].legs[c.account]))
      ELSE Atomic!Result(req[w], plan[w].outcome, folds[w][c.account].version, 0)

CommitWrites(w) ==
  /\ pc[w] = "commit"
  /\ log' = [a \in Account |->
               IF a \in DOMAIN plan[w].legs
               THEN Atomic!InsertRows(log[a], folds[w][a].version, plan[w].legs[a])
               ELSE log[a]]
  /\ results' = [results EXCEPT ![req[w].id] = ResultOf(w)]
  /\ UNCHANGED now

Commit(w) ==
  /\ CommitWrites(w)
  /\ Answer(req[w], ResultOf(w))
  /\ Leave(w)
  /\ UNCHANGED bounds

(* Mutant: a violation on command_results is not caught.                      *)
LosesRaceOnAppend(w) ==
  pc[w] = "append" /\ \E leg \in ToInsert(w) :
    IsNextLeg(w, leg) /\ Committed(KeyOf(w, leg))

(* UniqueViolation: roll back, then decide again or, out of retries, raise.   *)
LosesRace(w) ==
  \/ pc[w] = "append" /\ \E leg \in ToInsert(w) :
       IsNextLeg(w, leg) /\ Committed(KeyOf(w, leg))
  \/ pc[w] = "persist" /\ results[req[w].id] # Atomic!NoResult

RetryRace(w) ==
  /\ LosesRace(w)
  /\ attempt[w] <= MaxRaceRetries
  /\ attempt' = [attempt EXCEPT ![w] = @ + 1]
  /\ GoTo(w, "begin")
  /\ Forget(w)
  /\ UNCHANGED <<db, req, replies, bounds>>

GiveUpRace(w) ==
  /\ LosesRace(w)
  /\ attempt[w] > MaxRaceRetries
  /\ Leave(w)
  /\ UNCHANGED <<db, replies, bounds>>

(* The connection is lost before the commit: rolled back, no answer.          *)
LoseConnection(w) ==
  /\ pc[w] # "idle"
  /\ losses < MaxLosses
  /\ losses' = losses + 1
  /\ Leave(w)
  /\ UNCHANGED <<db, replies, submits>>

(* The commit takes effect but its answer is lost.                            *)
LoseAnswer(w) ==
  /\ losses < MaxLosses
  /\ losses' = losses + 1
  /\ CommitWrites(w)
  /\ Leave(w)
  /\ UNCHANGED <<replies, submits>>

Tick ==
  /\ now < MaxNow
  /\ now' = now + 1
  /\ UNCHANGED <<log, results, pc, req, attempt, reads, plan, taken, replies, bounds>>

Work(w) ==
  \/ FindNoResult(w) \/ Replay(w) \/ IdConflict(w)
  \/ FoldAnchor(w) \/ ReadOpenHold(w) \/ ReadLegs(w) \/ ReadRevertedBy(w)
  \/ \E a \in others[w] : FoldOther(w, a)
  \/ \E leg \in ToInsert(w) : AppendEvent(w, leg)
  \/ AppendFails(w)
  \/ PersistResult(w) \/ Commit(w) \/ RetryRace(w) \/ GiveUpRace(w)

Next ==
  \/ Tick
  \/ \E w \in Worker :
       \/ \E r \in Requests : Submit(w, r)
       \/ Work(w)
       \/ LoseConnection(w)
       \/ LoseAnswer(w)

Spec == Init /\ [][Next]_vars

(* PostgreSQL runs the statement a connection has sent: every worker inside   *)
(* execute() keeps taking steps.  Nobody is obliged to submit.                *)
FairSpec == Spec /\ \A w \in Worker : WF_vars(Work(w))
-----------------------------------------------------------------------------
(* Properties *)

(* Workers, their requests, reads, plans and inserted legs are of the right   *)
(* kind; a worker holds keys only while it is writing.                        *)
TypeOK ==
  /\ pc \in [Worker -> Stages]
  /\ req \in [Worker -> Requests \cup {NoRequest}]
  /\ attempt \in [Worker -> 0..(MaxRaceRetries + 1)]
  /\ at \in [Worker -> 0..MaxNow]
  /\ \A w \in Worker :
       /\ pc[w] = "idle" <=> req[w] = NoRequest
       /\ DOMAIN folds[w] = Account
       /\ \A a \in Account : folds[w][a].version \in Nat
       /\ taken[w] \subseteq PlannedLegs(w)
       /\ taken[w] # {} => pc[w] \in {"append", "persist", "commit"}
  /\ submits \in 0..MaxSubmits
  /\ losses \in 0..MaxLosses

(* The rows of every stream are numbered 1..n without a gap, although rows    *)
(* are numbered from folds that may be out of date when they are inserted.    *)
StreamsDense ==
  \A a \in Account : DOMAIN log[a] = 1..Cardinality(DOMAIN log[a])

(* A transaction that got a row into a stream has folded that stream to its   *)
(* present head: no other command slipped in between its read and its write,  *)
(* so what it decided still holds when it commits.                            *)
NoLostUpdate ==
  \A w \in Worker : \A leg \in taken[w] :
    leg[1] \in Account /\ folds[w][leg[1]] = Fold(log[leg[1]])

(* w waits for x: x holds the key of the row w is inserting.                  *)
WaitsFor(w, x) ==
  /\ w # x
  /\ \/ /\ pc[w] = "append"
        /\ \E leg \in ToInsert(w) : IsNextLeg(w, leg) /\ HasKey(x, KeyOf(w, leg))
     \/ pc[w] = "persist" /\ HasResultKey(x, req[w].id)

(* Waiting only ever climbs: a transaction waits for a stream key above every *)
(* key its blocker's blocker ... waits for in turn, and for a result key only *)
(* behind a transaction that waits for nothing.  So no cycle of waiting       *)
(* commands exists, of any length: the sort in _number_legs prevents it.      *)
WaitsAscend ==
  \A w, x \in Worker : WaitsFor(w, x) =>
    /\ pc[w] = "persist" => pc[x] = "commit"
    /\ pc[x] = "append" =>
         \A l \in ToInsert(w), m \in ToInsert(x) :
           IsNextLeg(w, l) /\ IsNextLeg(x, m) => Precedes(KeyOf(w, l), KeyOf(x, m))

(* Whatever a caller was told under a command id is what is stored under it:  *)
(* duplicates, concurrent or after a lost answer, are all answered alike.     *)
RepliesDurable ==
  \A p \in replies :
    p.result.outcome # "command_id_conflict" => results[p.id] = p.result

(* Every commit is an atomic execution of the command on the log it commits   *)
(* to, or a rejection that appends nothing.                                   *)
ImplementsLedger == Atomic!ConcurrentSpec

(* Every call of execute() returns or raises.                                 *)
Answered == \A w \in Worker : pc[w] # "idle" ~> pc[w] = "idle"
=============================================================================
