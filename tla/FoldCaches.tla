------------------------------ MODULE FoldCaches ------------------------------
(***************************************************************************)
(* Cached folds of one event stream.  Both units of work keep a verified   *)
(* snapshot beside the log; the legacy command handler keeps a memo in its *)
(* process.  A decision must rest on the fold of the log itself.           *)
(*                                                                         *)
(* An event is its event_id.  A state is the sequence of events folded     *)
(* into it, each with the build that folded it: two builds whose           *)
(* AccountState differs never agree on a state, and its version is its     *)
(* length.  The PostgreSQL tier runs a statement at a time under READ      *)
(* COMMITTED; a SQLite unit of work holds the write lock from its first    *)
(* statement to its commit and is one step.                                *)
(***************************************************************************)
EXTENDS Integers, Sequences

CONSTANTS
  Worker,         \* PostgreSQL transactions under way at once
  Handler,        \* processes with a legacy CommandHandler on the SQLite file
  Build,          \* CURRENT_STATE_VERSION of the builds that are running
  SnapshotEvery,  \* snapshot_every; 0 writes no snapshots
  MaxRaceRetries, \* _MAX_RACE_RETRIES
  MaxIds,         \* bound on events ever written
  MaxDrops,       \* bound on operators' drops
  MaxRestores     \* bound on restores of the events without the snapshots

ASSUME FoldCachesAssumption ==
  /\ SnapshotEvery \in Nat
  /\ MaxRaceRetries \in Nat
  /\ MaxIds \in Nat
  /\ MaxDrops \in Nat
  /\ MaxRestores \in Nat

VARIABLES
  tier,      \* which database: "postgres" or "sqlite"
  log,       \* the stream's committed events in seq order
  snap,      \* its row of stream_snapshots, or NoSnap
  fresh,     \* event ids given out so far
  tx,        \* per worker, its unit of work
  memo,      \* per handler, _folds: last_seq is the state's length
  handling,  \* per handler: where in handle() it is
  wanted,    \* per handler, the seq its append has computed
  drops, restores

vars == <<tier, log, snap, fresh, tx, memo, handling, wanted, drops, restores>>

NoSnap == [seq |-> 0, state |-> <<>>, version |-> 0, anchor |-> 0]

(* A worker between calls; `rows` and `due` are what its transaction has      *)
(* inserted and is not yet committed.                                         *)
Idle == [pc |-> "idle", build |-> 0, seen |-> NoSnap, state |-> <<>>, base |-> 0,
         rows |-> <<>>, due |-> NoSnap, tries |-> 0]

Init ==
  /\ tier \in {"postgres", "sqlite"}
  /\ log = <<>>
  /\ snap = NoSnap
  /\ fresh = 0
  /\ tx = [w \in Worker |-> Idle]
  /\ memo = [h \in Handler |-> <<>>]
  /\ handling = [h \in Handler |-> "idle"]
  /\ wanted = [h \in Handler |-> 0]
  /\ drops = 0
  /\ restores = 0

-----------------------------------------------------------------------------
(* application/snapshots.py *)

FoldBy(b, events) == [i \in DOMAIN events |-> <<events[i], b>>]

From(events, seq) == SubSeq(events, seq, Len(events))

(* Mutant: the anchor's seq is compared, its event_id is not.                 *)
RejectionBySeq(b, s, rows) ==
  s.version # b \/ Len(s.state) # s.seq \/ rows = <<>>

(* rows are the events from the anchor on, the anchor first.                  *)
SnapshotRejection(b, s, rows) ==
  s.version # b \/ Len(s.state) # s.seq \/ rows = <<>> \/ Head(rows) # s.anchor

FoldFromSnapshot(b, s, tail) == s.state \o FoldBy(b, tail)

(* Mutant: a snapshot is due one event late.                                  *)
DueLate(seq, base) == SnapshotEvery > 0 /\ seq - base > SnapshotEvery

Due(seq, base) == SnapshotEvery > 0 /\ seq - base >= SnapshotEvery

(* The tracker applies the event it is told of to the state it remembers, and *)
(* hands out a snapshot of that.                                              *)
AfterAppend(t, id) ==
  LET seq   == Len(t.state) + 1
      state == Append(t.state, <<id, t.build>>)
  IN  [t EXCEPT !.state = state,
                !.base = IF Due(seq, @) THEN seq ELSE @,
                !.due = IF Due(seq, t.base)
                        THEN [seq |-> seq, state |-> state, version |-> t.build, anchor |-> id]
                        ELSE @]

(* ON CONFLICT (stream) DO UPDATE ... WHERE stored.seq < new.seq              *)
Upsert(old, new) == IF old.seq < new.seq THEN new ELSE old

-----------------------------------------------------------------------------
(* PostgreSQL: one statement a step *)

(* Execution begins, in a process of some build, by reading the snapshot.  A  *)
(* read-only fold_stream takes the same steps and appends nothing.            *)
ReadSnapshot(w, b) ==
  /\ tier = "postgres"
  /\ tx[w].pc = "idle"
  /\ tx' = [tx EXCEPT ![w] = [Idle EXCEPT !.pc = IF snap = NoSnap THEN "all" ELSE "tail",
                                          !.build = b, !.seen = snap]]
  /\ UNCHANGED <<tier, log, snap, fresh, memo, handling, wanted, drops, restores>>

(* Mutant: the anchor is folded again.                                        *)
ReadTailFromAnchor(w) ==
  LET t    == tx[w]
      rows == From(log, t.seen.seq)
  IN  /\ t.pc = "tail"
      /\ tx' = [tx EXCEPT ![w] =
                 IF SnapshotRejection(t.build, t.seen, rows)
                 THEN [t EXCEPT !.pc = "all"]
                 ELSE [t EXCEPT !.pc = "append", !.base = t.seen.seq,
                                !.state = FoldFromSnapshot(t.build, t.seen, rows)]]
      /\ UNCHANGED <<tier, log, snap, fresh, memo, handling, wanted, drops, restores>>

(* The rows from the anchor on decide whether the snapshot is trusted.        *)
ReadTail(w) ==
  LET t    == tx[w]
      rows == From(log, t.seen.seq)
  IN  /\ t.pc = "tail"
      /\ tx' = [tx EXCEPT ![w] =
                 IF SnapshotRejection(t.build, t.seen, rows)
                 THEN [t EXCEPT !.pc = "all"]
                 ELSE [t EXCEPT !.pc = "append", !.base = t.seen.seq,
                                !.state = FoldFromSnapshot(t.build, t.seen, Tail(rows))]]
      /\ UNCHANGED <<tier, log, snap, fresh, memo, handling, wanted, drops, restores>>

ReadAll(w) ==
  /\ tx[w].pc = "all"
  /\ tx' = [tx EXCEPT ![w] = [@ EXCEPT !.pc = "append", !.base = 0,
                                       !.state = FoldBy(tx[w].build, log)]]
  /\ UNCHANGED <<tier, log, snap, fresh, memo, handling, wanted, drops, restores>>

(* Another open transaction has inserted this key: PostgreSQL waits.          *)
KeyTaken(w, seq) ==
  \E v \in Worker \ {w} :
    LET t == tx[v] IN t.rows # <<>> /\ Len(t.state) - Len(t.rows) < seq /\ seq <= Len(t.state)

(* append_event: the row, then the snapshot if one is due.                    *)
AppendEvent(w) ==
  LET t   == tx[w]
      seq == Len(t.state) + 1
  IN  /\ t.pc = "append"
      /\ Len(t.rows) < 2
      /\ seq > Len(log)
      /\ ~KeyTaken(w, seq)
      /\ fresh < MaxIds
      /\ fresh' = fresh + 1
      /\ tx' = [tx EXCEPT ![w] = [AfterAppend(t, fresh + 1) EXCEPT
                                    !.rows = Append(@, fresh + 1)]]
      /\ UNCHANGED <<tier, log, snap, memo, handling, wanted, drops, restores>>

(* Rows and snapshot commit together, if there are any.                       *)
Commit(w) ==
  LET t == tx[w]
  IN  /\ t.pc = "append"
      /\ log' = log \o t.rows
      /\ snap' = Upsert(snap, t.due)
      /\ tx' = [tx EXCEPT ![w] = Idle]
      /\ UNCHANGED <<tier, fresh, memo, handling, wanted, drops, restores>>

(* Mutant: what the transaction wrote besides the row that failed stays.      *)
LosesRaceKeepsSnapshot(w) ==
  LET t == tx[w]
  IN  /\ t.pc = "append"
      /\ snap' = Upsert(snap, t.due)
      /\ tx' = [tx EXCEPT ![w] = Idle]
      /\ UNCHANGED <<tier, log, fresh, memo, handling, wanted, drops, restores>>

(* UniqueViolation, on this stream's key or on one the command takes after    *)
(* it: rolled back, and decided again with a fresh tracker.  Past the retries *)
(* it is raised; a lost connection ends the call at once.                     *)
LosesRace(w) ==
  LET t == tx[w]
  IN  /\ t.pc = "append"
      /\ tx' = [tx EXCEPT ![w] =
                 IF t.tries < MaxRaceRetries
                 THEN [Idle EXCEPT !.pc = IF snap = NoSnap THEN "all" ELSE "tail",
                                   !.build = t.build, !.seen = snap, !.tries = t.tries + 1]
                 ELSE Idle]
      /\ UNCHANGED <<tier, log, snap, fresh, memo, handling, wanted, drops, restores>>

-----------------------------------------------------------------------------
(* SQLite: a unit of work under the write lock *)

SqliteFoldStream(b) ==
  LET rows == From(log, snap.seq)
  IN  IF snap = NoSnap \/ SnapshotRejection(b, snap, rows)
      THEN [Idle EXCEPT !.build = b, !.state = FoldBy(b, log)]
      ELSE [Idle EXCEPT !.build = b, !.base = snap.seq,
                        !.state = FoldFromSnapshot(b, snap, Tail(rows))]

(* append_event, for one row or for two: the rows and the snapshot left due.  *)
SqliteAppend(t, n) ==
  LET one == AfterAppend(t, fresh + 1)
      two == AfterAppend(one, fresh + 2)
  IN  /\ log' = IF n = 1 THEN Append(log, fresh + 1) ELSE log \o <<fresh + 1, fresh + 2>>
      /\ snap' = Upsert(snap, IF n = 1 THEN one.due ELSE two.due)

(* BEGIN IMMEDIATE, fold, append, COMMIT.  The seq of a row follows from the   *)
(* fold: a wrong one would meet the key and roll back.                        *)
SqliteExecute(b, n) ==
  LET t == SqliteFoldStream(b)
  IN  /\ tier = "sqlite"
      /\ fresh + n <= MaxIds
      /\ Len(t.state) = Len(log)
      /\ SqliteAppend(t, n)
      /\ fresh' = fresh + n
      /\ UNCHANGED <<tier, tx, memo, handling, wanted, drops, restores>>

-----------------------------------------------------------------------------
(* The legacy CommandHandler and SqliteEventStore.append *)

(* Withdraw: _current_state folds what it has not seen, then the funds are    *)
(* enough or not.                                                             *)
CatchUp(h) ==
  /\ tier = "sqlite"
  /\ handling[h] = "idle"
  /\ memo' = [memo EXCEPT ![h] = @ \o FoldBy(0, From(log, Len(@) + 1))]
  /\ handling' \in {handling, [handling EXCEPT ![h] = "decided"]}
  /\ UNCHANGED <<tier, log, snap, fresh, tx, wanted, drops, restores>>

(* Deposit: nothing is read.                                                  *)
Deposit(h) ==
  /\ tier = "sqlite"
  /\ handling[h] = "idle"
  /\ handling' = [handling EXCEPT ![h] = "decided"]
  /\ UNCHANGED <<tier, log, snap, fresh, tx, memo, wanted, drops, restores>>

(* SELECT MAX(seq): no transaction is open yet.                               *)
SelectMaxSeq(h) ==
  /\ handling[h] = "decided"
  /\ handling' = [handling EXCEPT ![h] = "numbered"]
  /\ wanted' = [wanted EXCEPT ![h] = Len(log) + 1]
  /\ UNCHANGED <<tier, log, snap, fresh, tx, memo, drops, restores>>

(* Mutant: the event is folded into the memo whatever was appended before.    *)
RecordAppendBlind(state, id, seq) == Append(state, <<id, 0>>)

(* A gap leaves the memo behind.                                              *)
RecordAppend(state, id, seq) ==
  IF seq = Len(state) + 1 THEN Append(state, <<id, 0>>) ELSE state

(* INSERT; another process may have taken the seq: ConcurrencyError.          *)
LegacyAppend(h) ==
  /\ handling[h] = "numbered"
  /\ handling' = [handling EXCEPT ![h] = "idle"]
  /\ wanted' = [wanted EXCEPT ![h] = 0]
  /\ \/ /\ wanted[h] > Len(log)
        /\ fresh < MaxIds
        /\ fresh' = fresh + 1
        /\ log' = Append(log, fresh + 1)
        /\ memo' = [memo EXCEPT ![h] = RecordAppend(@, fresh + 1, wanted[h])]
     \/ /\ wanted[h] <= Len(log)
        /\ UNCHANGED <<fresh, log, memo>>
  /\ UNCHANGED <<tier, snap, tx, drops, restores>>

-----------------------------------------------------------------------------
(* Operators *)

(* scripts/snapshots.py drop; on PostgreSQL the DELETE waits for a            *)
(* transaction that has updated the row.                                      *)
Drop ==
  /\ drops < MaxDrops
  /\ snap # NoSnap
  /\ \A w \in Worker : tx[w].due = NoSnap
  /\ drops' = drops + 1
  /\ snap' = NoSnap
  /\ UNCHANGED <<tier, log, fresh, tx, memo, handling, wanted, restores>>

(* The events are restored from an older backup under snapshots that are not, *)
(* with every process stopped.                                                *)
Restore(n) ==
  /\ restores < MaxRestores
  /\ n < Len(log)
  /\ \A w \in Worker : tx[w] = Idle
  /\ restores' = restores + 1
  /\ log' = SubSeq(log, 1, n)
  /\ memo' = [h \in Handler |-> <<>>]
  /\ handling' = [h \in Handler |-> "idle"]
  /\ wanted' = [h \in Handler |-> 0]
  /\ UNCHANGED <<tier, snap, fresh, tx, drops>>

Next ==
  \/ \E w \in Worker : ReadTail(w) \/ ReadAll(w) \/ AppendEvent(w) \/ Commit(w) \/ LosesRace(w)
  \/ \E w \in Worker, b \in Build : ReadSnapshot(w, b)
  \/ \E b \in Build, n \in {1, 2} : SqliteExecute(b, n)
  \/ \E h \in Handler : CatchUp(h) \/ Deposit(h) \/ SelectMaxSeq(h) \/ LegacyAppend(h)
  \/ Drop
  \/ \E n \in 0..(MaxIds - 1) : Restore(n)

Spec == Init /\ [][Next]_vars

-----------------------------------------------------------------------------
(* Properties *)

(* A decision, and what is appended after it, rests on the exact fold by its  *)
(* own build of the log as it was at one moment, snapshot or not: under races *)
(* between the snapshot read and the tail read, mixed builds in a rolling     *)
(* deployment, drops, and logs restored under the snapshots.                  *)
FoldsExact ==
  \A w \in Worker : LET t == tx[w] IN t.pc = "append" =>
    /\ Len(t.state) - Len(t.rows) <= Len(log)
    /\ t.state = FoldBy(t.build, SubSeq(log, 1, Len(t.state) - Len(t.rows)) \o t.rows)

(* Whatever row stream_snapshots holds, a build that would trust it gets the  *)
(* fold of the log it stands for.                                             *)
TrustedIsExact ==
  \A b \in Build :
    (snap # NoSnap /\ ~SnapshotRejection(b, snap, From(log, snap.seq))) =>
      snap.state = FoldBy(b, SubSeq(log, 1, snap.seq))

(* The rejection reasons accuse the log only when it was tampered with: until *)
(* a restore, the snapshot's anchor is in the log, so a snapshot never stands *)
(* for rows that were rolled back.                                            *)
NeverOrphaned ==
  (restores = 0 /\ snap # NoSnap) => snap.seq <= Len(log) /\ log[snap.seq] = snap.anchor

(* The cache keeps its purpose: as long as no operator interferes, fewer than *)
(* SnapshotEvery events follow the snapshot (or begin an uncached stream),    *)
(* also when builds reject each other's snapshots or a stale one was used.    *)
TailBounded ==
  (SnapshotEvery > 0 /\ tier = "postgres" /\ drops = 0 /\ restores = 0)
    => Len(log) - snap.seq < SnapshotEvery

(* cqrs/commands.py: the memo is the same fold a full replay produces, of a   *)
(* prefix of the log, although other processes append in between.             *)
MemoExact ==
  \A h \in Handler :
    Len(memo[h]) <= Len(log) /\ memo[h] = FoldBy(0, SubSeq(log, 1, Len(memo[h])))
=============================================================================
