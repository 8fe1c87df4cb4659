-------------------------------- MODULE Ledger --------------------------------
(***************************************************************************)
(* Command execution as one atomic transaction per command: what the unit  *)
(* of work promises.  It is also, as it stands, the SQLite tier, whose     *)
(* `execute` holds the process lock and a BEGIN IMMEDIATE transaction from *)
(* the first read to the commit.                                           *)
(*                                                                         *)
(* A request that finds a stored result changes nothing (it is replayed or *)
(* answered with command_id_conflict), so it is a stuttering step here.    *)
(***************************************************************************)
EXTENDS AccountDomain

CONSTANTS
  Requests,   \* the commands clients may submit: [id, cmd]
  Genesis,    \* per account, a balance deposited before the behaviour starts
  MaxNow      \* bound on the clock

VARIABLES
  log,        \* per account, the committed stream
  results,    \* command_results: per command id, the persisted result
  now         \* the decision clock

ASSUME LedgerAssumption ==
  /\ IsFiniteSet(Account) /\ IsFiniteSet(CommandId)
  /\ \A r \in Requests : r.id \in CommandId /\ r.cmd # NoId /\ ValidCommand(r.cmd)
  /\ Genesis \in [Account -> 0..MaxBigint]
  /\ MaxNow \in Nat

vars == <<log, results, now>>

Rejections == {"version_conflict", "insufficient_funds", "domain_rejected"}

(* A result carries its request (the hash of the canonical payload), the     *)
(* anchor's version at decision time and, if accepted, its committed version.*)
Result(r, outcome, current, committed) ==
  [cmd |-> r.cmd, outcome |-> outcome, current |-> current, committed |-> committed]

NoResult == [cmd |-> NoId, outcome |-> "none", current |-> 0, committed |-> 0]

Init ==
  /\ log = [a \in Account |->
              IF Genesis[a] = 0 THEN EmptyStream
              ELSE <<Event("Deposited", Genesis[a], NoId)>>]
  /\ results = [id \in CommandId |-> NoResult]
  /\ now = 0

-----------------------------------------------------------------------------
States == [a \in Account |-> Fold(log[a])]

(* The decision of request r with every read taken from the current log.     *)
Decision(r, t) ==
  LET c    == r.cmd
      hold == IF c.kind \in {"PostHold", "VoidHold", "ExpireHold"}
              THEN OpenHold(log[c.account], c.hold) ELSE NoHold
      legs == IF c.kind = "Revert" THEN MovementLegs(log, c.transfer) ELSE {}
      reverted == c.kind = "Revert" /\ RevertersOf(log, c.transfer) # {}
  IN  DecideLegs(States, hold, legs, reverted, r, t)

(* Mutant: optimistic concurrency is not checked.                             *)
VersionMatchesAny(r) == Version(log[r.cmd.account]) >= r.cmd.expected

VersionMatches(r) == Version(log[r.cmd.account]) = r.cmd.expected

(* Mutant: numbering starts one too high.                                     *)
InsertRowsGap(stream, n, events) ==
  [i \in DOMAIN stream \cup (n + 2)..(n + 1 + Len(events)) |->
     IF i \in DOMAIN stream THEN stream[i] ELSE events[i - n - 1]]

(* Mutant: numbering starts at the head, a key already taken.                 *)
InsertRowsAtHead(stream, n, events) ==
  [i \in DOMAIN stream \cup n..(n - 1 + Len(events)) |->
     IF i \in DOMAIN stream THEN stream[i] ELSE events[i - n + 1]]

(* _number_legs and append_event: the events take the keys after version n.   *)
InsertRows(stream, n, events) ==
  [i \in DOMAIN stream \cup (n + 1)..(n + Len(events)) |->
     IF i \in DOMAIN stream THEN stream[i] ELSE events[i - n]]

Persist(r, result) == results' = [results EXCEPT ![r.id] = result]

VersionConflict(r) ==
  /\ results[r.id] = NoResult
  /\ ~VersionMatches(r)
  /\ Persist(r, Result(r, "version_conflict", Version(log[r.cmd.account]), 0))
  /\ UNCHANGED <<log, now>>

Reject(r) ==
  /\ results[r.id] = NoResult
  /\ VersionMatches(r)
  /\ \E d \in {Decision(r, now)} :
       /\ d.outcome # "accepted"
       /\ Persist(r, Result(r, d.outcome, r.cmd.expected, 0))
  /\ UNCHANGED <<log, now>>

(* The decision d of r is carried out: its legs and its result become visible *)
(* together.  An append on which `apply` raises would roll everything back.   *)
AppendAll(r, d) ==
  LET c == r.cmd
  IN  /\ \A a \in DOMAIN d.legs : ~AppendRaises(States[a], d.legs[a])
      /\ log' = [a \in Account |->
                   IF a \in DOMAIN d.legs THEN InsertRows(log[a], Version(log[a]), d.legs[a])
                   ELSE log[a]]
      /\ Persist(r, Result(r, "accepted", c.expected, c.expected + Len(d.legs[c.account])))
      /\ UNCHANGED now

(* The decision accepts at time t.                                            *)
Accept(r, t) ==
  /\ results[r.id] = NoResult
  /\ VersionMatches(r)
  /\ \E d \in {Decision(r, t)} : d.outcome = "accepted" /\ AppendAll(r, d)

Tick ==
  /\ now < MaxNow
  /\ now' = now + 1
  /\ UNCHANGED <<log, results>>

Execute(r) == VersionConflict(r) \/ Reject(r) \/ Accept(r, now)

Next == Tick \/ \E r \in Requests : Execute(r)

Spec == Init /\ [][Next]_vars

-----------------------------------------------------------------------------
(* What a concurrent unit of work must still look like.  Acceptance is exact: *)
(* the decision is the one the committed log yields at the commit, for a      *)
(* clock value already shown.  A rejection may rest on reads taken at         *)
(* different moments; it appends nothing and is persisted once.               *)
RejectOnSomeReads(r) ==
  /\ results[r.id] = NoResult
  /\ \E outcome \in Rejections, v \in 0..Version(log[r.cmd.account]) :
       Persist(r, Result(r, outcome, v, 0))
  /\ UNCHANGED <<log, now>>

ConcurrentNext ==
  \/ Tick
  \/ \E r \in Requests :
       RejectOnSomeReads(r) \/ \E t \in 0..now : Accept(r, t)

ConcurrentSpec == Init /\ [][ConcurrentNext]_vars
-----------------------------------------------------------------------------
(* Properties of the committed log and the persisted results *)

Rows == UNION {{[account |-> a, seq |-> i, event |-> log[a][i]] : i \in DOMAIN log[a]} :
               a \in Account}

SumOf(rows) == SumFunction([x \in rows |-> BalanceDelta(x.event)])

(* Every stream can be folded: its sequence numbers are 1..n and `apply`      *)
(* raises on no prefix, so no account overdraws, holds more than it has or    *)
(* leaves the BIGINT range.  A stream that broke this could never be read     *)
(* again: fold_stream would raise on every later command.                     *)
Foldable ==
  \A a \in Account :
    LET n == Cardinality(DOMAIN log[a])
    IN  /\ DOMAIN log[a] = 1..n
        /\ ~AppendRaises(Fold(EmptyStream), [i \in 1..n |-> log[a][i]])

(* The `held` an account folds to is what its open holds add up to: posting,  *)
(* partial capture, voiding and expiry each free a hold once and in full.     *)
HeldIsOpenHolds ==
  \A a \in Account :
    Fold(log[a]).held =
      SumFunction([h \in CommandId |-> OpenHold(log[a], h).amount])

(* Transfers, posting sets, hold settlements and reversals only move money:   *)
(* the balances add up to what was deposited less what was withdrawn.         *)
MoneyConserved ==
  SumFunction([a \in Account |-> Fold(log[a]).balance])
    = SumOf({x \in Rows : x.event.type \in {"Deposited", "Withdrawn"}})

(* A posting set is reverted at most once, and its reversal returns every     *)
(* account to where it was before the set.                                    *)
RevertedOnce ==
  \A g \in CommandId :
    /\ Cardinality(RevertersOf(log, g)) <= 1
    /\ \A g2 \in RevertersOf(log, g), a \in Account :
         SumOf({x \in Rows : /\ x.account = a
                             /\ x.event.group \in {g, g2}
                             /\ x.event.type \in MovementTypes}) = 0

(* A command wrote events if and only if its stored result says accepted, and *)
(* the result names the last version it wrote on its own account.             *)
ResultsMatchLog ==
  \A id \in CommandId :
    LET written == {x \in Rows : x.event.cmd = id}
        own     == {x \in written : x.account = results[id].cmd.account}
    IN  IF results[id].outcome # "accepted" THEN written = {}
        ELSE own # {} /\ results[id].committed = Max({x.seq : x \in own})

(* No decision accepts events that their constructors or `apply` would then   *)
(* refuse: the checks in decide_* are at least as strict as the fold's, as    *)
(* long as the stream has version numbers left.  (They test for one; a        *)
(* partial capture needs two, and at the last version but one its append      *)
(* raises and rolls back.)                                                    *)
DecisionsApply ==
  \A r \in Requests :
    results[r.id] = NoResult /\ VersionMatches(r) =>
      LET legs == Decision(r, now).legs
      IN  \A a \in DOMAIN legs :
            /\ \A i \in DOMAIN legs[a] : ValidEvent(a, legs[a][i])
            /\ States[a].version + Len(legs[a]) <= MaxVersion =>
                 ~AppendRaises(States[a], legs[a])

=============================================================================
