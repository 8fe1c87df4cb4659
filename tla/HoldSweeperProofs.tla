--------------------------- MODULE HoldSweeperProofs ---------------------------
(***************************************************************************)
(* Proofs about the expiry of holds, for any number of accounts, clients'  *)
(* requests, holds and sweepers, with retention deleting results at will.  *)
(***************************************************************************)
EXTENDS HoldSweeper, FiniteSetTheorems, TLAPS

-----------------------------------------------------------------------------
(* What an accepted command appends *)

(* The first row a command under `id` appends to stream s.  A row that ends a *)
(* hold finds it open in s; an expiry is such a row.                          *)
GoodRow(e, s, id, c) ==
  /\ e.cmd = id
  /\ L!ClosesHold(e) => L!OpenHold(s, e.group) # L!NoHold
  /\ c.kind = "ExpireHold" => e.group = c.hold /\ L!ClosesHold(e)

(* The second one, only of a partial capture, ends nothing.                   *)
GoodRest(e, f, id, c) ==
  f.cmd = id /\ ~L!ClosesHold(f) /\ e.type # f.type /\ c.kind # "ExpireHold"

GoodRows(rows, s, id, c) ==
  \/ \E e : rows = <<e>> /\ GoodRow(e, s, id, c)
  \/ \E e, f : rows = <<e, f>> /\ GoodRow(e, s, id, c) /\ GoodRest(e, f, id, c)

(* A decision plans such rows, the anchor's account among them.               *)
GoodPlan(d, streams, id, c) ==
  d.outcome = "accepted" =>
    /\ c.account \in DOMAIN d.legs
    /\ \A a \in DOMAIN d.legs : GoodRows(d.legs[a], streams[a], id, c)

LEMMA RejectedPlan ==
  ASSUME NEW o, o # "accepted", NEW streams, NEW id, NEW c
  PROVE  GoodPlan(L!Rejected(o), streams, id, c)
  BY DEF GoodPlan, L!Rejected

LEMMA AcceptedPlan ==
  ASSUME NEW legs, NEW streams, NEW id, NEW c, c.account \in DOMAIN legs,
         \A a \in DOMAIN legs : GoodRows(legs[a], streams[a], id, c)
  PROVE  GoodPlan(L!Accepted(legs), streams, id, c)
  BY DEF GoodPlan, L!Accepted

LEMMA Errors ==
  ASSUME NEW s, NEW n
  PROVE  L!DebitError(s, n) # "accepted" /\ L!CreditError(s, n) # "accepted"
  BY DEF L!DebitError, L!CreditError

(* A row that concerns no hold is a good one.                                 *)
LEMMA PlainRow ==
  ASSUME NEW e, NEW s, NEW id, NEW c, e.cmd = id, c.kind # "ExpireHold",
         e.type \notin {"HoldPosted", "HoldReleased"}
  PROVE  GoodRows(<<e>>, s, id, c)
  BY DEF GoodRows, GoodRow, L!ClosesHold

LEMMA DecidePlan ==
  ASSUME NEW s, NEW c, NEW id, NEW streams, c.kind # "ExpireHold"
  PROVE  GoodPlan(L!Decide(s, c, id), streams, id, c)
  <1> DEFINE error == IF c.kind = "Deposit" THEN L!CreditError(s, c.amount) ELSE L!DebitError(s, c.amount)
             e == L!Event(IF c.kind = "Deposit" THEN "Deposited" ELSE "Withdrawn", c.amount, id)
             legs == [a \in {c.account} |-> <<e>>]
  <1>1. error # "accepted"
    BY Errors
  <1>2. e.cmd = id /\ e.type \notin {"HoldPosted", "HoldReleased"}
    BY DEF L!Event
  <1>3. L!Decide(s, c, id) = IF error # "none" THEN L!Rejected(error) ELSE L!Accepted(legs)
    BY Zenon DEF L!Decide
  <1> HIDE DEF e, error
  <1>4. GoodPlan(L!Accepted(legs), streams, id, c)
    <2>1. DOMAIN legs = {c.account} /\ \A a \in DOMAIN legs : legs[a] = <<e>>
      OBVIOUS
    <2> HIDE DEF legs
    <2>2. \A a \in DOMAIN legs : GoodRows(legs[a], streams[a], id, c)
      BY <2>1, <1>2, PlainRow
    <2> QED  BY <2>1, <2>2, AcceptedPlan
  <1> QED  BY <1>1, <1>3, <1>4, RejectedPlan

LEMMA DecidePostingsPlan ==
  ASSUME NEW s, NEW c, NEW id, NEW streams, ValidCommand(c), c.kind \in {"Transfer", "Post"}
  PROVE  GoodPlan(L!DecidePostings(s, c, id), streams, id, c)
  <1> DEFINE legs == L!LegsOf(c)
             accounts == {legs[i].account : i \in DOMAIN legs}
             At(a) == CHOOSE i \in DOMAIN legs : legs[i].account = a
             Error(i) == IF legs[i].direction = "debit"
                         THEN L!DebitError(s[legs[i].account], legs[i].amount)
                         ELSE L!CreditError(s[legs[i].account], legs[i].amount)
             bad == {i \in DOMAIN legs : Error(i) # "none"}
             EventOf(i) ==
               L!GroupedEvent(IF legs[i].direction = "debit"
                            THEN "TransferDebited" ELSE "TransferCredited",
                            legs[i].amount, id, id, L!CounterpartyFor(c, legs, i))
             planned == [a \in accounts |-> <<EventOf(At(a))>>]
  <1>1. c.account \in accounts
    <2>1. CASE c.kind = "Transfer"
      <3>1. legs = <<L!Leg(c.account, c.amount, "debit"), L!Leg(c.target, c.amount, "credit")>>
        BY <2>1 DEF L!LegsOf
      <3>2. 1 \in DOMAIN legs /\ legs[1].account = c.account
        BY <3>1 DEF L!Leg
      <3> QED  BY <3>2
    <2>2. CASE c.kind = "Post"
      <3>1. \E i \in DOMAIN c.postings : c.postings[i].account = c.account
        BY <2>2 DEF ValidCommand, ValidPostings, ValidFollowUp
      <3>2. legs = c.postings
        BY <2>2 DEF L!LegsOf
      <3> QED  BY <3>1, <3>2
    <2> QED  BY <2>1, <2>2
  <1>2. \A i : EventOf(i).cmd = id /\ EventOf(i).type \notin {"HoldPosted", "HoldReleased"}
    BY DEF L!GroupedEvent, L!Event
  <1>3. \A i : Error(i) # "accepted"
    BY Errors
  <1>4. L!DecidePostings(s, c, id) = IF bad # {} THEN L!Rejected(Error(L!Min(bad))) ELSE L!Accepted(planned)
    BY Zenon DEF L!DecidePostings
  <1> HIDE DEF accounts, At, EventOf, Error, bad
  <1>5. GoodPlan(L!Accepted(planned), streams, id, c)
    <2>1. DOMAIN planned = accounts /\ \A a \in accounts : planned[a] = <<EventOf(At(a))>>
      OBVIOUS
    <2> HIDE DEF planned
    <2>2. \A a \in DOMAIN planned : GoodRows(planned[a], streams[a], id, c)
      BY <2>1, <1>2, PlainRow
    <2> QED  BY <1>1, <2>1, <2>2, AcceptedPlan
  <1> QED  BY <1>3, <1>4, <1>5, RejectedPlan

LEMMA DecideHoldPlan ==
  ASSUME NEW s, NEW c, NEW id, NEW t, NEW streams, c.kind = "Hold"
  PROVE  GoodPlan(L!DecideHold(s, c, id, t), streams, id, c)
  <1> DEFINE error == L!DebitError(s, c.amount)
             e == [L!GroupedEvent("HoldPlaced", c.amount, id, id, c.target) EXCEPT !.expires = t + c.ttl]
             planned == [a \in {c.account} |-> <<e>>]
  <1>1. e.cmd = id /\ e.type \notin {"HoldPosted", "HoldReleased"}
    BY DEF L!GroupedEvent, L!Event
  <1>2. L!DecideHold(s, c, id, t) = IF error # "none" THEN L!Rejected(error) ELSE L!Accepted(planned)
    BY Zenon DEF L!DecideHold
  <1>3. error # "accepted"
    BY Errors
  <1> HIDE DEF e, error
  <1>4. GoodPlan(L!Accepted(planned), streams, id, c)
    <2>1. DOMAIN planned = {c.account} /\ \A a \in DOMAIN planned : planned[a] = <<e>>
      OBVIOUS
    <2> HIDE DEF planned
    <2>2. \A a \in DOMAIN planned : GoodRows(planned[a], streams[a], id, c)
      BY <2>1, <1>1, PlainRow
    <2> QED  BY <2>1, <2>2, AcceptedPlan
  <1> QED  BY <1>2, <1>3, <1>4, RejectedPlan

LEMMA DecideReleasePlan ==
  ASSUME NEW s, NEW c, NEW id, NEW t, NEW streams, c.kind \in {"VoidHold", "ExpireHold"},
         NEW h, h = L!OpenHold(streams[c.account], c.hold)
  PROVE  GoodPlan(L!DecideReleaseHold(s, h, c, id, t), streams, id, c)
  <1> DEFINE reason == IF c.kind = "VoidHold" THEN "voided" ELSE "expired"
             e == [L!GroupedEvent("HoldReleased", h.amount, id, c.hold, L!NoAccount)
                     EXCEPT !.reason = reason]
             planned == [a \in {c.account} |-> <<e>>]
  <1>1. e.cmd = id /\ e.group = c.hold /\ e.type = "HoldReleased" /\ e.reason # "partial"
    BY DEF L!GroupedEvent, L!Event
  <1>2. \/ L!DecideReleaseHold(s, h, c, id, t) = L!Rejected("domain_rejected")
        \/ h # L!NoHold /\ L!DecideReleaseHold(s, h, c, id, t) = L!Accepted(planned)
    BY Zenon DEF L!DecideReleaseHold
  <1> HIDE DEF e
  <1>3. ASSUME h # L!NoHold PROVE GoodPlan(L!Accepted(planned), streams, id, c)
    <2>1. DOMAIN planned = {c.account} /\ \A a \in DOMAIN planned : planned[a] = <<e>>
      OBVIOUS
    <2> HIDE DEF planned
    <2>2. GoodRow(e, streams[c.account], id, c)
      BY <1>1, <1>3 DEF GoodRow, L!ClosesHold
    <2>3. \A a \in DOMAIN planned : GoodRows(planned[a], streams[a], id, c)
      BY <2>1, <2>2 DEF GoodRows
    <2> QED  BY <2>1, <2>3, AcceptedPlan
  <1> HIDE DEF planned
  <1> QED  BY <1>2, <1>3, RejectedPlan

LEMMA DecidePostHoldPlan ==
  ASSUME NEW s, NEW c, NEW id, NEW t, NEW streams, c.kind = "PostHold",
         NEW h, h = L!OpenHold(streams[c.account], c.hold)
  PROVE  GoodPlan(L!DecidePostHold(s, h, c, id, t), streams, id, c)
  <1> DEFINE amount == IF c.amount = 0 THEN h.amount ELSE c.amount
             posted == L!GroupedEvent("HoldPosted", amount, id, c.hold, h.counterparty)
             rest == [L!GroupedEvent("HoldReleased", h.amount - amount, id, c.hold, L!NoAccount)
                        EXCEPT !.reason = "partial"]
             credit == L!GroupedEvent("TransferCredited", amount, id, c.hold, c.account)
             planned == [a \in {c.account, h.counterparty} |->
                           IF a # c.account THEN <<credit>>
                           ELSE IF amount < h.amount THEN <<posted, rest>>
                           ELSE <<posted>>]
  <1>1. /\ posted.cmd = id /\ posted.type = "HoldPosted" /\ posted.group = c.hold
        /\ rest.cmd = id /\ rest.type = "HoldReleased" /\ rest.reason = "partial"
        /\ credit.cmd = id /\ credit.type = "TransferCredited"
    BY DEF L!GroupedEvent, L!Event
  <1>2. \/ L!DecidePostHold(s, h, c, id, t) = L!Rejected("domain_rejected")
        \/ h # L!NoHold /\ L!DecidePostHold(s, h, c, id, t) = L!Accepted(planned)
    BY Zenon DEF L!DecidePostHold
  <1> HIDE DEF posted, rest, credit, amount
  <1>3. ASSUME h # L!NoHold PROVE GoodPlan(L!Accepted(planned), streams, id, c)
    <2>1. DOMAIN planned = {c.account, h.counterparty}
      OBVIOUS
    <2>2. planned[c.account] = <<posted, rest>> \/ planned[c.account] = <<posted>>
      OBVIOUS
    <2>3. \A a \in DOMAIN planned : a # c.account => planned[a] = <<credit>>
      OBVIOUS
    <2> HIDE DEF planned
    <2>4. GoodRow(posted, streams[c.account], id, c) /\ GoodRest(posted, rest, id, c)
      BY <1>1, <1>3 DEF GoodRow, GoodRest, L!ClosesHold
    <2>5. \A rows \in {<<posted, rest>>, <<posted>>} : GoodRows(rows, streams[c.account], id, c)
      BY <2>4 DEF GoodRows
    <2>6. \A a : GoodRows(<<credit>>, streams[a], id, c)
      BY <1>1, PlainRow
    <2>7. \A a \in DOMAIN planned : GoodRows(planned[a], streams[a], id, c)
      BY <2>2, <2>3, <2>5, <2>6
    <2> QED  BY <2>1, <2>7, AcceptedPlan
  <1> HIDE DEF planned
  <1> QED  BY <1>2, <1>3, RejectedPlan

LEMMA DecideRevertPlan ==
  ASSUME NEW s, NEW legs, NEW c, NEW id, NEW rv, NEW streams, c.kind = "Revert"
  PROVE  GoodPlan(L!DecideRevert(s, legs, c, id, rv), streams, id, c)
  <1> DEFINE accounts == {l.account : l \in legs}
             Original(a) == (CHOOSE l \in legs : l.account = a).event
             Received(a) == L!BalanceSign(Original(a).type) > 0
             Error(a) == IF Received(a) THEN L!DebitError(s[a], Original(a).amount)
                                        ELSE L!CreditError(s[a], Original(a).amount)
             bad == {a \in accounts : Error(a) # "none"}
             Mirror(a) ==
               [L!GroupedEvent(IF Received(a) THEN "ReversalDebited" ELSE "ReversalCredited",
                             Original(a).amount, id, id, Original(a).counterparty)
                  EXCEPT !.reverts = c.transfer]
             planned == [a \in accounts |-> <<Mirror(a)>>]
  <1>1. \A a : Mirror(a).cmd = id /\ Mirror(a).type \notin {"HoldPosted", "HoldReleased"}
    <2> HIDE DEF Received, Original
    <2> QED  BY DEF L!GroupedEvent, L!Event
  <1>2. \A a : Error(a) # "accepted"
    BY Errors
  <1>3. \/ L!DecideRevert(s, legs, c, id, rv) = L!Rejected("domain_rejected")
        \/ L!DecideRevert(s, legs, c, id, rv) = L!Rejected(Error(L!Min(bad)))
        \/ c.account \in accounts /\ L!DecideRevert(s, legs, c, id, rv) = L!Accepted(planned)
    BY Zenon DEF L!DecideRevert
  <1> HIDE DEF accounts, Mirror, Error, bad
  <1>4. ASSUME c.account \in accounts PROVE GoodPlan(L!Accepted(planned), streams, id, c)
    <2>1. DOMAIN planned = accounts /\ \A a \in accounts : planned[a] = <<Mirror(a)>>
      OBVIOUS
    <2> HIDE DEF planned
    <2>2. \A a \in DOMAIN planned : GoodRows(planned[a], streams[a], id, c)
      BY <2>1, <1>1, PlainRow
    <2> QED  BY <1>4, <2>1, <2>2, AcceptedPlan
  <1> HIDE DEF planned
  <1> QED  BY <1>2, <1>3, <1>4, RejectedPlan

(* Every decision plans good rows.                                            *)
LEMMA DecisionPlan ==
  ASSUME NEW r, NEW t, r.cmd.kind \in {"Transfer", "Post"} => ValidCommand(r.cmd)
  PROVE  GoodPlan(L!Decision(r, t), log, r.id, r.cmd)
  <1> DEFINE c == r.cmd
             s == L!States
             hold == IF c.kind \in {"PostHold", "VoidHold", "ExpireHold"}
                     THEN L!OpenHold(log[c.account], c.hold) ELSE L!NoHold
             legs == IF c.kind = "Revert" THEN L!MovementLegs(log, c.transfer) ELSE {}
             rv == c.kind = "Revert" /\ L!RevertersOf(log, c.transfer) # {}
             d == L!DecideLegs(s, hold, legs, rv, r, t)
  <1>1. L!Decision(r, t) = d
    BY DEF L!Decision
  <1>2. /\ c.kind \in {"PostHold", "VoidHold", "ExpireHold"} => hold = L!OpenHold(log[c.account], c.hold)
        /\ c.kind \in {"Transfer", "Post"} => ValidCommand(c)
    OBVIOUS
  <1> HIDE DEF c, s, hold, legs, rv
  <1>3. CASE c.kind \in {"Transfer", "Post"}
    <2>1. d = L!DecidePostings(s, c, r.id)
      BY <1>3 DEF L!DecideLegs, c
    <2> QED  BY <1>1, <1>2, <1>3, <2>1, DecidePostingsPlan DEF c
  <1>4. CASE c.kind = "Hold"
    <2>1. d = L!DecideHold(s[c.account], c, r.id, t)
      BY <1>4 DEF L!DecideLegs, c
    <2> QED  BY <1>1, <1>4, <2>1, DecideHoldPlan DEF c
  <1>5. CASE c.kind = "PostHold"
    <2>1. d = L!DecidePostHold(s, hold, c, r.id, t)
      BY <1>5 DEF L!DecideLegs, c
    <2> QED  BY <1>1, <1>2, <1>5, <2>1, DecidePostHoldPlan DEF c
  <1>6. CASE c.kind \in {"VoidHold", "ExpireHold"}
    <2>1. d = L!DecideReleaseHold(s[c.account], hold, c, r.id, t)
      BY <1>6 DEF L!DecideLegs, c
    <2> QED  BY <1>1, <1>2, <1>6, <2>1, DecideReleasePlan DEF c
  <1>7. CASE c.kind = "Revert"
    <2>1. d = L!DecideRevert(s, legs, c, r.id, rv)
      BY <1>7 DEF L!DecideLegs, c
    <2> QED  BY <1>1, <1>7, <2>1, DecideRevertPlan DEF c
  <1>8. CASE c.kind \notin {"Transfer", "Post", "Hold", "PostHold", "VoidHold", "ExpireHold", "Revert"}
    <2>1. d = L!Decide(s[c.account], c, r.id)
      BY <1>8 DEF L!DecideLegs, c
    <2> QED  BY <1>1, <1>8, <2>1, DecidePlan DEF c
  <1> QED  BY <1>3, <1>4, <1>5, <1>6, <1>7, <1>8

-----------------------------------------------------------------------------
(* Streams *)

Dense(s) == \E n \in Nat : DOMAIN s = 1..n

LEMMA DenseVersion ==
  ASSUME NEW s, NEW n \in Nat, DOMAIN s = 1..n
  PROVE  L!Version(s) = n
  <1>1. Cardinality(1..n) = n
    BY FS_Interval, SMT
  <1>2. L!Cardinality(1..n) = Cardinality(1..n)
    BY DEF L!Cardinality, Cardinality
  <1> QED  BY <1>1, <1>2 DEF L!Version

(* Stream u is stream s and the rows of one execution after it.               *)
Extends(s, u, id, c) ==
  \E n \in Nat :
    /\ DOMAIN s = 1..n /\ \A i \in 1..n : u[i] = s[i]
    /\ GoodRow(u[n + 1], s, id, c)
    /\ \/ DOMAIN u = 1..(n + 1)
       \/ DOMAIN u = 1..(n + 2) /\ GoodRest(u[n + 1], u[n + 2], id, c)

LEMMA InsertedRows ==
  ASSUME NEW s, Dense(s), NEW rows, NEW id, NEW c, GoodRows(rows, s, id, c)
  PROVE  Extends(s, L!InsertRows(s, L!Version(s), rows), id, c)
  <1> DEFINE u == L!InsertRows(s, L!Version(s), rows)
  <1>1. PICK n \in Nat : DOMAIN s = 1..n
    BY DEF Dense
  <1>2. u = [i \in 1..n \cup (n + 1)..(n + Len(rows)) |-> IF i \in 1..n THEN s[i] ELSE rows[i - n]]
    BY <1>1, DenseVersion DEF L!InsertRows
  <1> HIDE DEF u
  <1>3. CASE \E e : rows = <<e>> /\ GoodRow(e, s, id, c)
    <2>1. PICK e : rows = <<e>> /\ GoodRow(e, s, id, c)
      BY <1>3
    <2>2. Len(rows) = 1 /\ rows[1] = e
      BY <2>1
    <2>3. 1..n \cup (n + 1)..(n + 1) = 1..(n + 1)
      OBVIOUS
    <2>4. DOMAIN u = 1..(n + 1) /\ \A i \in 1..n : u[i] = s[i]
      BY <1>2, <2>2, <2>3
    <2>5. u[n + 1] = e
      <3>1. n + 1 \in 1..(n + 1) /\ n + 1 \notin 1..n /\ (n + 1) - n = 1
        OBVIOUS
      <3> QED  BY <1>2, <2>2, <2>3, <3>1
    <2> QED  BY <1>1, <2>1, <2>4, <2>5 DEF Extends, u
  <1>4. CASE \E e, f : rows = <<e, f>> /\ GoodRow(e, s, id, c) /\ GoodRest(e, f, id, c)
    <2>1. PICK e, f : rows = <<e, f>> /\ GoodRow(e, s, id, c) /\ GoodRest(e, f, id, c)
      BY <1>4
    <2>2. Len(rows) = 2 /\ rows[1] = e /\ rows[2] = f
      BY <2>1
    <2>3. 1..n \cup (n + 1)..(n + 2) = 1..(n + 2)
      OBVIOUS
    <2>4. DOMAIN u = 1..(n + 2) /\ \A i \in 1..n : u[i] = s[i]
      BY <1>2, <2>2, <2>3
    <2>5. u[n + 1] = e
      <3>1. n + 1 \in 1..(n + 2) /\ n + 1 \notin 1..n /\ (n + 1) - n = 1
        OBVIOUS
      <3> QED  BY <1>2, <2>2, <2>3, <3>1
    <2>6. u[n + 2] = f
      <3>1. n + 2 \in 1..(n + 2) /\ n + 2 \notin 1..n /\ (n + 2) - n = 2
        OBVIOUS
      <3> QED  BY <1>2, <2>2, <2>3, <3>1
    <2> QED  BY <1>1, <2>1, <2>4, <2>5, <2>6 DEF Extends, u
  <1> QED  BY <1>3, <1>4 DEF GoodRows

(* A stream that is extended is dense, is longer, and keeps its rows.         *)
LEMMA Extended ==
  ASSUME NEW s, NEW u, NEW id, NEW c, Extends(s, u, id, c)
  PROVE  /\ Dense(u) /\ L!Version(s) \in Nat /\ L!Version(u) \in Nat /\ L!Version(s) < L!Version(u)
         /\ \A i \in DOMAIN s : i \in DOMAIN u /\ u[i] = s[i]
  <1>1. PICK n \in Nat :
          /\ DOMAIN s = 1..n /\ \A i \in 1..n : u[i] = s[i]
          /\ DOMAIN u = 1..(n + 1) \/ DOMAIN u = 1..(n + 2)
    BY DEF Extends
  <1>2. L!Version(s) = n
    BY <1>1, DenseVersion
  <1>3. PICK m \in {n + 1, n + 2} : DOMAIN u = 1..m
    BY <1>1
  <1>4. m \in Nat /\ n < m
    OBVIOUS
  <1>5. L!Version(u) = m
    BY <1>3, <1>4, DenseVersion
  <1>6. \A i \in 1..n : i \in 1..m
    BY <1>4
  <1> QED  BY <1>1, <1>2, <1>3, <1>4, <1>5, <1>6 DEF Dense

(* A hold that is open has not been ended by any row.                         *)
LEMMA OpenNotClosed ==
  ASSUME NEW s, NEW h, L!OpenHold(s, h) # L!NoHold, NEW i \in DOMAIN s, s[i].group = h
  PROVE  ~L!ClosesHold(s[i])
  <1> SUFFICES ASSUME L!ClosesHold(s[i]) PROVE FALSE
    OBVIOUS
  <1>1. i \in L!HoldEvents(s, h)
    BY DEF L!HoldEvents, L!ClosesHold
  <1>2. L!OpenHold(s, h) = L!NoHold
    BY <1>1, Zenon DEF L!OpenHold
  <1> QED  BY <1>2

-----------------------------------------------------------------------------
(* The inductive invariant *)

Streams == DOMAIN log = Account /\ \A a \in Account : Dense(log[a])

(* Who wrote a row: the history before the behaviour, a client whose expected *)
(* version the stream has left behind, or a sweeper, ending the hold.         *)
Authored(e, streams) ==
  \/ e.cmd = NoId
  \/ \E r \in Requests : e.cmd = r.id /\ r.cmd.expected < L!Version(streams[r.cmd.account])
  \/ \E h \in DOMAIN ExpiryId : e.cmd = ExpiryId[h] /\ e.group = h /\ L!ClosesHold(e)

AllAuthored == \A a \in Account : \A i \in DOMAIN log[a] : Authored(log[a][i], log)

(* No two rows of a stream end one hold.                                      *)
Ends(s) ==
  \A i, j \in DOMAIN s :
    L!ClosesHold(s[i]) /\ L!ClosesHold(s[j]) /\ s[i].group = s[j].group => i = j

AllEnd == \A a \in Account : Ends(log[a])

(* What sweepers hold in memory names accounts and holds.                     *)
Pairs == Account \X DOMAIN ExpiryId

Sweepers ==
  /\ DOMAIN pc = Sweeper /\ DOMAIN chosen = Sweeper
  /\ todo \in [Sweeper -> SUBSET Pairs]
  /\ \A s \in Sweeper : pc[s] = "execute" => chosen[s] \in Pairs

IInv == Streams /\ AllAuthored /\ AllEnd /\ Sweepers

-----------------------------------------------------------------------------
(* Steps *)

(* A command that clients or sweepers may execute.                            *)
Command(r) ==
  \/ r \in Requests
  \/ \E h \in DOMAIN ExpiryId :
       r.id = ExpiryId[h] /\ r.cmd.kind = "ExpireHold" /\ r.cmd.hold = h /\ r.cmd.account \in Account

LEMMA CommandOK ==
  ASSUME NEW r, Command(r)
  PROVE  /\ r.cmd.account \in Account /\ r.id \in CommandId
         /\ r.cmd.kind \in {"Transfer", "Post"} => ValidCommand(r.cmd)
  <1>1. CASE r \in Requests
    <2>1. r.id \in CommandId /\ ValidCommand(r.cmd)
      BY <1>1, SweeperAssumption
    <2> QED  BY <2>1 DEF ValidCommand
  <1>2. CASE \E h \in DOMAIN ExpiryId :
               /\ r.id = ExpiryId[h] /\ r.cmd.kind = "ExpireHold" /\ r.cmd.hold = h
               /\ r.cmd.account \in Account
    BY <1>2, SweeperAssumption
  <1> QED  BY <1>1, <1>2 DEF Command

(* How an acceptance changes the streams.                                     *)
Grows(r) ==
  /\ DOMAIN log' = Account
  /\ \A a \in Account : log'[a] = log[a] \/ Extends(log[a], log'[a], r.id, r.cmd)
  /\ Extends(log[r.cmd.account], log'[r.cmd.account], r.id, r.cmd)
  /\ L!Version(log[r.cmd.account]) = r.cmd.expected

LEMMA AcceptGrows ==
  ASSUME Streams, NEW r, Command(r), NEW t, L!Accept(r, t)
  PROVE  Grows(r)
  <1> DEFINE c == r.cmd
  <1>1. PICK d \in {L!Decision(r, t)} : d.outcome = "accepted" /\ L!AppendAll(r, d)
    BY DEF L!Accept
  <1>2. GoodPlan(d, log, r.id, c)
    BY <1>1, CommandOK, DecisionPlan
  <1>3. c.account \in DOMAIN d.legs /\ \A a \in DOMAIN d.legs : GoodRows(d.legs[a], log[a], r.id, c)
    BY <1>1, <1>2 DEF GoodPlan
  <1>4. log' = [a \in Account |-> IF a \in DOMAIN d.legs
                                  THEN L!InsertRows(log[a], L!Version(log[a]), d.legs[a])
                                  ELSE log[a]]
    BY <1>1 DEF L!AppendAll
  <1>5. DOMAIN log' = Account
    BY <1>4
  <1>6. \A a \in Account : a \in DOMAIN d.legs => Extends(log[a], log'[a], r.id, c)
    <2> SUFFICES ASSUME NEW a \in Account, a \in DOMAIN d.legs PROVE Extends(log[a], log'[a], r.id, c)
      OBVIOUS
    <2>1. log'[a] = L!InsertRows(log[a], L!Version(log[a]), d.legs[a])
      BY <1>4
    <2>2. Dense(log[a]) /\ GoodRows(d.legs[a], log[a], r.id, c)
      BY <1>3 DEF Streams
    <2> QED  BY <2>1, <2>2, InsertedRows
  <1>7. \A a \in Account : a \notin DOMAIN d.legs => log'[a] = log[a]
    BY <1>4
  <1>8. L!Version(log[c.account]) = c.expected
    BY DEF L!Accept, L!VersionMatches
  <1>9. c.account \in Account
    BY CommandOK
  <1> QED  BY <1>3, <1>5, <1>6, <1>7, <1>8, <1>9 DEF Grows

(* The rows of an extended stream: old ones, or of the execution.             *)
LEMMA NewRow ==
  ASSUME NEW s, NEW u, NEW id, NEW c, Extends(s, u, id, c), NEW i \in DOMAIN u, i \notin DOMAIN s
  PROVE  u[i].cmd = id /\ (GoodRow(u[i], s, id, c) \/ (~L!ClosesHold(u[i]) /\ c.kind # "ExpireHold"))
  <1>1. PICK n \in Nat :
          /\ DOMAIN s = 1..n /\ GoodRow(u[n + 1], s, id, c)
          /\ \/ DOMAIN u = 1..(n + 1)
             \/ DOMAIN u = 1..(n + 2) /\ GoodRest(u[n + 1], u[n + 2], id, c)
    BY DEF Extends
  <1>2. CASE i = n + 1
    BY <1>1, <1>2 DEF GoodRow
  <1>3. CASE i # n + 1
    <2>1. i = n + 2 /\ GoodRest(u[n + 1], u[n + 2], id, c)
      BY <1>1, <1>3
    <2> QED  BY <2>1 DEF GoodRest
  <1> QED  BY <1>2, <1>3

LEMMA EndsGrows ==
  ASSUME NEW s, NEW u, NEW id, NEW c, Extends(s, u, id, c), Ends(s)
  PROVE  Ends(u)
  <1>1. PICK n \in Nat :
          /\ DOMAIN s = 1..n /\ \A i \in 1..n : u[i] = s[i]
          /\ GoodRow(u[n + 1], s, id, c)
          /\ \/ DOMAIN u = 1..(n + 1)
             \/ DOMAIN u = 1..(n + 2) /\ GoodRest(u[n + 1], u[n + 2], id, c)
    BY DEF Extends
  <1>2. \A i \in DOMAIN u : L!ClosesHold(u[i]) => i \in 1..n \/ i = n + 1
    <2>1. \A i \in DOMAIN u : i \in 1..n \/ i = n + 1
                              \/ (i = n + 2 /\ GoodRest(u[n + 1], u[n + 2], id, c))
      BY <1>1
    <2> QED  BY <2>1 DEF GoodRest
  <1>3. ASSUME NEW i \in 1..n, L!ClosesHold(u[i]), L!ClosesHold(u[n + 1]), u[i].group = u[n + 1].group
        PROVE  FALSE
    <2>1. i \in DOMAIN s /\ s[i] = u[i]
      BY <1>1
    <2>2. L!OpenHold(s, s[i].group) # L!NoHold
      BY <1>1, <1>3, <2>1 DEF GoodRow
    <2> QED  BY <1>3, <2>1, <2>2, OpenNotClosed
  <1>4. ASSUME NEW i \in 1..n, NEW j \in 1..n, L!ClosesHold(u[i]), L!ClosesHold(u[j]),
               u[i].group = u[j].group
        PROVE  i = j
    BY <1>1, <1>4 DEF Ends
  <1>5. ASSUME NEW i \in DOMAIN u, NEW j \in DOMAIN u, L!ClosesHold(u[i]), L!ClosesHold(u[j]),
               u[i].group = u[j].group
        PROVE  i = j
    <2>1. (i \in 1..n \/ i = n + 1) /\ (j \in 1..n \/ j = n + 1)
      BY <1>2, <1>5
    <2> QED  BY <1>3, <1>4, <1>5, <2>1
  <1> QED  BY <1>5 DEF Ends

(* Versions only grow, so what was behind stays behind.                       *)
LEMMA StaysAuthored ==
  ASSUME NEW e, Authored(e, log), DOMAIN log' = Account,
         \A a \in Account : /\ L!Version(log[a]) \in Nat /\ L!Version(log'[a]) \in Nat
                            /\ L!Version(log[a]) <= L!Version(log'[a])
  PROVE  Authored(e, log')
  <1>1. CASE \E r \in Requests : e.cmd = r.id /\ r.cmd.expected < L!Version(log[r.cmd.account])
    <2>1. PICK r \in Requests : e.cmd = r.id /\ r.cmd.expected < L!Version(log[r.cmd.account])
      BY <1>1
    <2>2. r.cmd.account \in Account /\ r.cmd.expected \in Nat
      BY SweeperAssumption, DomainAssumption DEF ValidCommand
    <2>3. r.cmd.expected < L!Version(log'[r.cmd.account])
      BY <2>1, <2>2
    <2> QED  BY <2>1, <2>3 DEF Authored
  <1> QED  BY <1>1 DEF Authored

(* An acceptance keeps the streams in order.                                  *)
LEMMA GrowsOK ==
  ASSUME Streams, AllAuthored, AllEnd, NEW r, Command(r), Grows(r)
  PROVE  Streams' /\ AllAuthored' /\ AllEnd'
  <1>1. /\ DOMAIN log' = Account
        /\ \A a \in Account : log'[a] = log[a] \/ Extends(log[a], log'[a], r.id, r.cmd)
        /\ Extends(log[r.cmd.account], log'[r.cmd.account], r.id, r.cmd)
        /\ L!Version(log[r.cmd.account]) = r.cmd.expected
    BY DEF Grows
  <1>2. \A a \in Account :
          /\ Dense(log'[a]) /\ L!Version(log[a]) \in Nat /\ L!Version(log'[a]) \in Nat
          /\ L!Version(log[a]) <= L!Version(log'[a])
    <2> SUFFICES ASSUME NEW a \in Account
                 PROVE  /\ Dense(log'[a]) /\ L!Version(log[a]) \in Nat /\ L!Version(log'[a]) \in Nat
                        /\ L!Version(log[a]) <= L!Version(log'[a])
      OBVIOUS
    <2>1. CASE log'[a] = log[a]
      <3>1. Dense(log[a])
        BY DEF Streams
      <3>2. PICK n \in Nat : DOMAIN log[a] = 1..n
        BY <3>1 DEF Dense
      <3>3. L!Version(log[a]) = n
        BY <3>2, DenseVersion
      <3> QED  BY <2>1, <3>1, <3>3
    <2>2. CASE Extends(log[a], log'[a], r.id, r.cmd)
      <3>1. /\ Dense(log'[a]) /\ L!Version(log[a]) \in Nat /\ L!Version(log'[a]) \in Nat
            /\ L!Version(log[a]) < L!Version(log'[a])
        BY <2>2, Extended
      <3> QED  BY <3>1
    <2> QED  BY <1>1, <2>1, <2>2
  <1>3. Streams'
    BY <1>1, <1>2 DEF Streams
  <1>4. AllEnd'
    <2>1. \A a \in Account : Ends(log'[a])
      BY <1>1, EndsGrows DEF AllEnd
    <2> QED  BY <2>1 DEF AllEnd, Ends
  <1>5. AllAuthored'
    <2> SUFFICES ASSUME NEW a \in Account, NEW i \in DOMAIN log'[a] PROVE Authored(log'[a][i], log')
      BY DEF AllAuthored
    <2> DEFINE e == log'[a][i]
    <2>1. CASE i \in DOMAIN log[a] /\ e = log[a][i]
      <3>1. Authored(e, log)
        BY <2>1 DEF AllAuthored
      <3>2. Authored(e, log')
        <4> HIDE DEF e
        <4> QED  BY <3>1, <1>1, <1>2, StaysAuthored
      <3> QED  BY <3>2
    <2>2. CASE Extends(log[a], log'[a], r.id, r.cmd) /\ i \notin DOMAIN log[a]
      <3>1. /\ e.cmd = r.id
            /\ \/ GoodRow(e, log[a], r.id, r.cmd)
               \/ ~L!ClosesHold(e) /\ r.cmd.kind # "ExpireHold"
        BY <2>2, NewRow
      <3>2. CASE r \in Requests
        <4>1. L!Version(log[r.cmd.account]) < L!Version(log'[r.cmd.account])
          BY <1>1, Extended
        <4> QED  BY <3>1, <3>2, <4>1, <1>1 DEF Authored
      <3>3. CASE \E h \in DOMAIN ExpiryId :
                   r.id = ExpiryId[h] /\ r.cmd.kind = "ExpireHold" /\ r.cmd.hold = h
        <4>1. Authored(e, log')
          <5> HIDE DEF e
          <5> QED  BY <3>1, <3>3 DEF GoodRow, Authored
        <4> QED  BY <4>1
      <3> QED  BY <3>2, <3>3 DEF Command
    <2>3. Extends(log[a], log'[a], r.id, r.cmd) => \A j \in DOMAIN log[a] : log'[a][j] = log[a][j]
      BY Extended
    <2> QED  BY <1>1, <2>1, <2>2, <2>3
  <1> QED  BY <1>3, <1>4, <1>5

(* A step that appends nothing.                                               *)
LEMMA LogKept ==
  ASSUME IInv, UNCHANGED log, Sweepers'
  PROVE  IInv'
  <1>1. Streams' /\ AllAuthored' /\ AllEnd'
    BY DEF IInv, Streams, AllAuthored, AllEnd
  <1> QED  BY <1>1 DEF IInv

(* Executing a command appends nothing, or as an acceptance does.             *)
LEMMA ExecuteOK ==
  ASSUME IInv, NEW r, Command(r), L!Execute(r)
  PROVE  (log' = log \/ Grows(r)) /\ Streams' /\ AllAuthored' /\ AllEnd'
  <1>1. CASE log' = log
    BY <1>1 DEF IInv, Streams, AllAuthored, AllEnd
  <1>2. CASE L!Accept(r, now)
    BY <1>2, AcceptGrows, GrowsOK DEF IInv
  <1>3. log' = log \/ L!Accept(r, now)
    BY DEF L!Execute, L!VersionConflict, L!Reject
  <1>4. L!Accept(r, now) => Grows(r)
    BY AcceptGrows DEF IInv
  <1> QED  BY <1>1, <1>2, <1>3, <1>4

LEMMA ClientOK ==
  ASSUME IInv, NEW r \in Requests, ClientExecutes(r)
  PROVE  IInv' /\ (log' = log \/ Grows(r))
  <1>1. Command(r)
    BY DEF Command
  <1>2. Sweepers'
    BY DEF IInv, Sweepers, ClientExecutes, sweeps
  <1> QED  BY <1>1, <1>2, ExecuteOK DEF IInv, ClientExecutes

LEMMA QueryOK ==
  ASSUME IInv, NEW s \in Sweeper, Query(s)
  PROVE  IInv'
  <1>1. /\ pc' = [pc EXCEPT ![s] = "sweeping"] /\ todo' = [todo EXCEPT ![s] = DueHolds]
        /\ UNCHANGED <<ledger, projected, chosen, expects>>
    BY DEF Query
  <1>2. DueHolds \subseteq Pairs
    BY DEF DueHolds, Pairs
  <1>3. Sweepers'
    BY <1>1, <1>2 DEF IInv, Sweepers
  <1> QED  BY <1>1, <1>3, LogKept DEF ledger

LEMMA ReadVersionOK ==
  ASSUME IInv, NEW s \in Sweeper, NEW x \in todo[s], ReadVersion(s, x)
  PROVE  IInv'
  <1>1. /\ pc' = [pc EXCEPT ![s] = "execute"] /\ todo' = [todo EXCEPT ![s] = @ \ {x}]
        /\ chosen' = [chosen EXCEPT ![s] = x] /\ UNCHANGED <<ledger, projected>>
    BY DEF ReadVersion
  <1>2. x \in Pairs
    BY DEF IInv, Sweepers
  <1>3. Sweepers'
    BY <1>1, <1>2 DEF IInv, Sweepers
  <1> QED  BY <1>1, <1>3, LogKept DEF ledger

(* The sweeper's command is one that expires a hold of its query.             *)
LEMMA ExpireCommand ==
  ASSUME IInv, NEW s \in Sweeper, pc[s] = "execute"
  PROVE  Command(ExpireRequest(s))
  <1>1. chosen[s] \in Account \X DOMAIN ExpiryId
    BY DEF IInv, Sweepers, Pairs
  <1>2. chosen[s][1] \in Account /\ chosen[s][2] \in DOMAIN ExpiryId
    BY <1>1
  <1> QED  BY <1>2 DEF Command, ExpireRequest

LEMMA ExpireOK ==
  ASSUME IInv, NEW s \in Sweeper, Expire(s)
  PROVE  IInv' /\ (log' = log \/ Grows(ExpireRequest(s)))
  <1> DEFINE r == ExpireRequest(s)
  <1>1. (UNCHANGED ledger) \/ L!Execute(r)
    BY DEF Expire
  <1>2. Command(r)
    BY ExpireCommand DEF Expire
  <1>3. Sweepers'
    <2>1. /\ pc' = [pc EXCEPT ![s] = IF todo[s] = {} THEN "idle" ELSE "sweeping"]
          /\ chosen' = [chosen EXCEPT ![s] = Nothing] /\ todo' = todo
      BY DEF Expire
    <2> QED  BY <2>1 DEF IInv, Sweepers
  <1> HIDE DEF r
  <1>4. CASE UNCHANGED ledger
    BY <1>3, <1>4, LogKept DEF ledger
  <1>5. CASE L!Execute(r)
    BY <1>2, <1>3, <1>5, ExecuteOK DEF IInv, r
  <1> QED  BY <1>4, <1>5 DEF Expire, r

LEMMA OthersOK ==
  ASSUME IInv, \/ Tick \/ UNCHANGED vars
               \/ \E a \in Account : Project(a)
               \/ \E id \in CommandId : Prune(id)
  PROVE  IInv' /\ log' = log
  <1>1. UNCHANGED <<log, pc, todo, chosen>>
    BY DEF Tick, L!Tick, vars, Project, Prune, ledger, sweeps
  <1>2. Sweepers'
    BY <1>1 DEF IInv, Sweepers
  <1> QED  BY <1>1, <1>2, LogKept

(* Every step keeps the invariant, and writes, if at all, as one execution.   *)
LEMMA NextOK ==
  ASSUME IInv, [Next]_vars
  PROVE  IInv' /\ (log' = log \/ \E r : Command(r) /\ Grows(r))
  <1>1. ASSUME NEW r \in Requests, ClientExecutes(r)
        PROVE  IInv' /\ (log' = log \/ \E q : Command(q) /\ Grows(q))
    <2>1. Command(r)
      BY DEF Command
    <2> QED  BY <1>1, <2>1, ClientOK
  <1>2. ASSUME NEW s \in Sweeper, Expire(s)
        PROVE  IInv' /\ (log' = log \/ \E q : Command(q) /\ Grows(q))
    <2>1. Command(ExpireRequest(s))
      BY <1>2, ExpireCommand DEF Expire
    <2> QED  BY <1>2, <2>1, ExpireOK
  <1>3. ASSUME NEW s \in Sweeper, Query(s) PROVE IInv' /\ log' = log
    BY <1>3, QueryOK DEF Query, ledger
  <1>4. ASSUME NEW s \in Sweeper, NEW x \in todo[s], ReadVersion(s, x) PROVE IInv' /\ log' = log
    BY <1>4, ReadVersionOK DEF ReadVersion, ledger
  <1> QED  BY <1>1, <1>2, <1>3, <1>4, OthersOK DEF Next, Sweep

LEMMA InitOK == Init => IInv
  <1> SUFFICES ASSUME Init PROVE IInv
    OBVIOUS
  <1>1. log = [a \in Account |-> IF Genesis[a] = 0 THEN L!EmptyStream
                                 ELSE <<L!Event("Deposited", Genesis[a], NoId)>>]
    BY DEF Init, L!Init
  <1>2. /\ DOMAIN log = Account
        /\ \A a \in Account : log[a] = L!EmptyStream \/ log[a] = <<L!Event("Deposited", Genesis[a], NoId)>>
    BY <1>1
  <1>3. L!EmptyStream = [i \in {} |-> NoId] /\ DOMAIN L!EmptyStream = {} /\ 1..0 = {}
    BY DEF L!EmptyStream
  <1>4. \A e : DOMAIN <<e>> = 1..1 /\ <<e>>[1] = e /\ 1..1 = {1}
    OBVIOUS
  <1>5. Streams
    <2>1. Dense(L!EmptyStream)
      BY <1>3 DEF Dense
    <2>2. \A e : Dense(<<e>>)
      BY <1>4 DEF Dense
    <2> QED  BY <1>2, <2>1, <2>2 DEF Streams
  <1>6. \A a \in Account : \A i \in DOMAIN log[a] : i = 1 /\ log[a][i].cmd = NoId
    <2>1. \A n : L!Event("Deposited", n, NoId).cmd = NoId
      BY DEF L!Event
    <2> QED  BY <1>2, <1>3, <1>4, <2>1
  <1>7. AllAuthored /\ AllEnd
    BY <1>6 DEF AllAuthored, Authored, AllEnd, Ends
  <1>8. Sweepers
    BY DEF Init, Sweepers
  <1> QED  BY <1>5, <1>7, <1>8 DEF IInv

-----------------------------------------------------------------------------
(* The theorems *)

(* The inductive invariant holds under any interleaving of clients, sweepers, *)
(* consumers and retention.                                                   *)
THEOREM Invariance == Spec => []IInv
  <1>1. IInv /\ [Next]_vars => IInv'
    BY NextOK
  <1> QED  BY InitOK, <1>1, PTL DEF Spec

(* A hold ends once, for any number of sweepers working from tables and       *)
(* versions however old, with settlements, voids and retention in between.    *)
THEOREM HoldsEndOnce == Spec => []ClosedOnce
  <1>1. ASSUME IInv, NEW a \in Account, NEW h \in DOMAIN ExpiryId
        PROVE  Cardinality(Closings(a, h)) <= 1
    <2> DEFINE S == Closings(a, h)
    <2>1. \A i \in S : i \in DOMAIN log[a] /\ log[a][i].group = h /\ L!ClosesHold(log[a][i])
      BY DEF Closings, L!ClosesHold
    <2>2. \A i, j \in S : i = j
      BY <1>1, <2>1 DEF IInv, AllEnd, Ends
    <2> HIDE DEF S
    <2>3. S = {} \/ \E i : S = {i}
      <3> SUFFICES ASSUME NEW i \in S PROVE S = {i}
        OBVIOUS
      <3> QED  BY <2>2
    <2>4. Cardinality(S) = 0 \/ Cardinality(S) = 1
      BY <2>3, FS_EmptySet, FS_Singleton
    <2> QED  BY <2>4 DEF S
  <1>2. IInv => ClosedOnce
    BY <1>1 DEF ClosedOnce
  <1> QED  BY <1>2, Invariance, PTL

(* A client gives a new command a new id.                                     *)
OneRequestPerId == \A r, q \in Requests : r.id = q.id => r = q

(* The rows one command id wrote to a stream come from one execution.         *)
Once(s) ==
  \A i, j \in DOMAIN s :
    i < j /\ s[i].cmd # NoId /\ s[i].cmd = s[j].cmd => j = i + 1 /\ s[i].type # s[j].type

(* A command that has written is not accepted again: a client's by its        *)
(* expected version, a sweeper's because the hold it names is closed.         *)
LEMMA NotAgain ==
  ASSUME OneRequestPerId, IInv, NEW r, Command(r), Grows(r), NEW a \in Account,
         Extends(log[a], log'[a], r.id, r.cmd), NEW i \in DOMAIN log[a]
  PROVE  log[a][i].cmd # r.id
  <1> SUFFICES ASSUME log[a][i].cmd = r.id PROVE FALSE
    OBVIOUS
  <1> DEFINE e == log[a][i]
  <1>1. Authored(e, log)
    BY DEF IInv, AllAuthored
  <1>2. e.cmd # NoId
    BY CommandOK, DomainAssumption
  <1>3. CASE r \in Requests
    <2>1. \A h \in DOMAIN ExpiryId : e.cmd # ExpiryId[h]
      BY <1>3, SweeperAssumption
    <2>2. PICK q \in Requests : e.cmd = q.id /\ q.cmd.expected < L!Version(log[q.cmd.account])
      BY <1>1, <1>2, <2>1 DEF Authored
    <2>3. q = r
      BY <1>3, <2>2 DEF OneRequestPerId
    <2>4. r.cmd.expected \in Nat
      BY <1>3, SweeperAssumption, DomainAssumption DEF ValidCommand
    <2>5. L!Version(log[r.cmd.account]) = r.cmd.expected
      BY DEF Grows
    <2> QED  BY <2>2, <2>3, <2>4, <2>5
  <1>4. CASE \E h \in DOMAIN ExpiryId :
               r.id = ExpiryId[h] /\ r.cmd.kind = "ExpireHold" /\ r.cmd.hold = h
    <2>1. PICK h \in DOMAIN ExpiryId :
            r.id = ExpiryId[h] /\ r.cmd.kind = "ExpireHold" /\ r.cmd.hold = h
      BY <1>4
    <2>2. \A q \in Requests : e.cmd # q.id
      BY <2>1, SweeperAssumption
    <2>3. e.group = h /\ L!ClosesHold(e)
      <3>1. PICK k \in DOMAIN ExpiryId : e.cmd = ExpiryId[k] /\ e.group = k /\ L!ClosesHold(e)
        BY <1>1, <1>2, <2>2 DEF Authored
      <3>2. k = h
        BY <2>1, <3>1, SweeperAssumption
      <3> QED  BY <3>1, <3>2
    <2>4. PICK n \in Nat : GoodRow(log'[a][n + 1], log[a], r.id, r.cmd)
      BY DEF Extends
    <2>5. L!OpenHold(log[a], h) # L!NoHold
      BY <2>1, <2>4 DEF GoodRow
    <2> QED  BY <2>3, <2>5, OpenNotClosed
  <1> QED  BY <1>3, <1>4 DEF Command

LEMMA OnceGrows ==
  ASSUME NEW s, NEW u, NEW id, NEW c, Extends(s, u, id, c), Once(s),
         \A i \in DOMAIN s : s[i].cmd # id
  PROVE  Once(u)
  <1>1. PICK n \in Nat :
          /\ DOMAIN s = 1..n /\ \A i \in 1..n : u[i] = s[i]
          /\ GoodRow(u[n + 1], s, id, c)
          /\ \/ DOMAIN u = 1..(n + 1)
             \/ DOMAIN u = 1..(n + 2) /\ GoodRest(u[n + 1], u[n + 2], id, c)
    BY DEF Extends
  <1>2. ASSUME NEW i \in DOMAIN u, NEW j \in DOMAIN u, i < j, u[i].cmd # NoId, u[i].cmd = u[j].cmd
        PROVE  j = i + 1 /\ u[i].type # u[j].type
    <2>1. CASE j \in 1..n
      <3>1. i \in 1..n
        BY <1>1, <1>2, <2>1
      <3> QED  BY <1>1, <1>2, <2>1, <3>1 DEF Once
    <2>2. CASE j \notin 1..n
      <3>1. u[j].cmd = id
        BY <1>1, <2>2, NewRow
      <3>2. i \notin 1..n
        BY <1>1, <1>2, <3>1
      <3>3. i = n + 1 /\ j = n + 2 /\ GoodRest(u[n + 1], u[n + 2], id, c)
        BY <1>1, <1>2, <2>2, <3>2
      <3> QED  BY <3>3 DEF GoodRest
    <2> QED  BY <2>1, <2>2
  <1> QED  BY <1>2 DEF Once

(* Retention does not undo idempotency: if clients give new commands new ids, *)
(* a command submitted again after its result was deleted never writes again. *)
THEOREM NeverWritesAgain == OneRequestPerId => (Spec => []NeverRewritten)
  <1> SUFFICES ASSUME OneRequestPerId PROVE Spec => []NeverRewritten
    OBVIOUS
  <1> DEFINE Inv == IInv /\ \A a \in Account : Once(log[a])
  <1>1. Init => Inv
    <2> SUFFICES ASSUME Init PROVE Inv
      OBVIOUS
    <2>1. IInv
      BY InitOK
    <2>2. \A a \in Account : \A i, j \in DOMAIN log[a] : i = j
      <3>1. log = [a \in Account |-> IF Genesis[a] = 0 THEN L!EmptyStream
                                     ELSE <<L!Event("Deposited", Genesis[a], NoId)>>]
        BY DEF Init, L!Init
      <3>2. \A a \in Account : DOMAIN log[a] = {} \/ DOMAIN log[a] = 1..1
        BY <3>1 DEF L!EmptyStream
      <3>3. 1..1 = {1}
        OBVIOUS
      <3> QED  BY <3>2, <3>3
    <2>3. \A a \in Account : \A i \in DOMAIN log[a] : i \in Nat
      BY <2>1 DEF IInv, Streams, Dense
    <2>4. \A a \in Account : Once(log[a])
      BY <2>2, <2>3 DEF Once
    <2> QED  BY <2>1, <2>4
  <1>2. Inv /\ [Next]_vars => Inv'
    <2> SUFFICES ASSUME Inv, [Next]_vars PROVE Inv'
      OBVIOUS
    <2>1. IInv' /\ (log' = log \/ \E r : Command(r) /\ Grows(r))
      BY NextOK
    <2>2. CASE log' = log
      BY <2>1, <2>2
    <2>3. CASE \E r : Command(r) /\ Grows(r)
      <3>1. PICK r : Command(r) /\ Grows(r)
        BY <2>3
      <3>2. ASSUME NEW a \in Account PROVE Once(log'[a])
        <4>1. CASE log'[a] = log[a]
          BY <4>1
        <4>2. CASE Extends(log[a], log'[a], r.id, r.cmd)
          <5>1. \A i \in DOMAIN log[a] : log[a][i].cmd # r.id
            BY <3>1, <4>2, NotAgain
          <5> QED  BY <4>2, <5>1, OnceGrows
        <4> QED  BY <3>1, <4>1, <4>2 DEF Grows
      <3> QED  BY <2>1, <3>2
    <2> QED  BY <2>1, <2>2, <2>3
  <1>3. Inv => NeverRewritten
    BY DEF NeverRewritten, Once
  <1> QED  BY <1>1, <1>2, <1>3, PTL DEF Spec
=============================================================================
