--------------------------- MODULE CommandUowProofs ---------------------------
(***************************************************************************)
(* Proofs about the PostgreSQL unit of work, for any number of workers,    *)
(* accounts, requests and retries.                                         *)
(***************************************************************************)
EXTENDS CommandUow, FiniteSetTheorems, WellFoundedInduction, TLAPS

-----------------------------------------------------------------------------
(* Facts about the operators *)

(* The version a fold reports is the length of a gapless stream.             *)
LEMMA FoldVersion ==
  ASSUME NEW s, NEW n \in Nat, DOMAIN s = 1..n
  PROVE  Fold(s).version = n
  <1>1. Fold(s).version = Cardinality(1..n)
    BY DEF Fold, Version
  <1>2. Cardinality(1..n) = n
    BY FS_Interval, SMT
  <1> QED  BY <1>1, <1>2

(* Every nonempty set of naturals has a least element, every nonempty set    *)
(* below a bound a greatest one: the operators Min and Max are well defined. *)
LEMMA MinExists ==
  ASSUME NEW T, T \subseteq Nat, T # {}
  PROVE  \E x \in T : \A y \in T : x =< y
  <1> DEFINE R == OpToRel(<, Nat)
  <1>1. IsWellFoundedOn(R, Nat)
    BY NatLessThanWellFounded
  <1>2. \A x, y \in Nat : <<x, y>> \in R <=> x < y
    BY DEF OpToRel
  <1> HIDE DEF R
  <1>3. PICK x \in T : \A y \in T : <<y, x>> \notin R
    BY <1>1, WFMin
  <1>4. x \in Nat /\ \A y \in T : y \in Nat
    OBVIOUS
  <1>5. \A y \in T : ~(y < x)
    BY <1>2, <1>3, <1>4
  <1>6. \A y \in T : x =< y
    BY <1>4, <1>5
  <1> QED  BY <1>6

(* The greatest element is an element, so Max of a finite set is in it.      *)
LEMMA MaxIn ==
  ASSUME NEW n \in Nat, NEW T, T \subseteq 1..n, T # {}
  PROVE  Max(T) \in T
  <1> DEFINE U == {k \in 0..n : n - k \in T}
  <1>1. U \subseteq Nat /\ U # {}
    <2>1. PICK x \in T : TRUE
      OBVIOUS
    <2>2. n - x \in 0..n /\ n - (n - x) = x
      BY <2>1
    <2>3. n - x \in U
      BY <2>1, <2>2
    <2>4. U \subseteq Nat
      OBVIOUS
    <2> HIDE DEF U
    <2> QED  BY <2>3, <2>4
  <1>2. PICK u \in U : \A y \in U : u =< y
    BY <1>1, MinExists
  <1>3. \A y \in T : n - y \in U
    OBVIOUS
  <1>4. n - u \in T /\ \A y \in T : n - u >= y
    BY <1>2, <1>3
  <1> QED  BY <1>4 DEF Max

Sequential(s) == \E n \in Nat : DOMAIN s = 1..n /\ Len(s) = n

(* Planned legs name known accounts, come in sequences, and place holds only *)
(* in favour of known accounts.                                              *)
GoodLegs(legs) ==
  /\ DOMAIN legs \subseteq Account
  /\ \A a \in DOMAIN legs :
       /\ Sequential(legs[a])
       /\ \A i \in DOMAIN legs[a] :
            legs[a][i].type = "HoldPlaced" => legs[a][i].counterparty \in Account

(* A singleton of events is a sequence numbered from 1.                      *)
LEMMA OneEvent ==
  ASSUME NEW e
  PROVE  Sequential(<<e>>) /\ DOMAIN <<e>> = 1..1 /\ <<e>>[1] = e
  <1>1. DOMAIN <<e>> = 1..1 /\ Len(<<e>>) = 1 /\ <<e>>[1] = e
    OBVIOUS
  <1> QED  BY <1>1 DEF Sequential

(* So is a pair, which a partial capture appends.                            *)
LEMMA TwoEvents ==
  ASSUME NEW e, NEW f
  PROVE  /\ Sequential(<<e, f>>) /\ DOMAIN <<e, f>> = 1..2
         /\ <<e, f>>[1] = e /\ <<e, f>>[2] = f
  <1>1. DOMAIN <<e, f>> = 1..2 /\ Len(<<e, f>>) = 2 /\ <<e, f>>[1] = e /\ <<e, f>>[2] = f
    OBVIOUS
  <1> QED  BY <1>1 DEF Sequential

GoodPlan(d) == GoodLegs(d.legs) /\ (d.outcome # "accepted" => DOMAIN d.legs = {})

(* A rejection plans no row.                                                 *)
LEMMA RejectedPlan == \A o : GoodPlan(Rejected(o))
  BY DEF Rejected, NoLegs, GoodLegs, GoodPlan

(* An acceptance is a good plan when its legs are good.                      *)
LEMMA AcceptedPlan == \A legs : GoodLegs(legs) => GoodPlan(Accepted(legs))
  BY DEF Accepted, GoodPlan

(* Deposits and withdrawals plan one row, on the anchor.                     *)
LEMMA DecideGood ==
  ASSUME NEW s, NEW c, NEW id, c.account \in Account
  PROVE  GoodPlan(Decide(s, c, id))
  <1> DEFINE type == IF c.kind = "Deposit" THEN "Deposited" ELSE "Withdrawn"
             e == Event(type, c.amount, id)
             legs == [a \in {c.account} |-> <<e>>]
  <1>1. e.type # "HoldPlaced"
    BY DEF Event
  <1>2. GoodLegs(legs)
    BY <1>1, OneEvent DEF GoodLegs
  <1> QED
    BY <1>2, RejectedPlan, AcceptedPlan, Zenon DEF Decide

(* Transfers and posting sets plan one row per account they name.            *)
LEMMA DecidePostingsGood ==
  ASSUME NEW s, NEW c, NEW id, ValidCommand(c), c.kind \in {"Transfer", "Post"}
  PROVE  GoodPlan(DecidePostings(s, c, id))
  <1> DEFINE legs == LegsOf(c)
             accounts == {legs[i].account : i \in DOMAIN legs}
             At(a) == CHOOSE i \in DOMAIN legs : legs[i].account = a
             EventOf(i) ==
               GroupedEvent(IF legs[i].direction = "debit"
                            THEN "TransferDebited" ELSE "TransferCredited",
                            legs[i].amount, id, id, CounterpartyFor(c, legs, i))
             planned == [a \in accounts |-> <<EventOf(At(a))>>]
  <1>1. accounts \subseteq Account
    <2>1. CASE c.kind = "Transfer"
      <3>1. c.account \in Account /\ c.target \in Account
        BY <2>1 DEF ValidCommand, ValidFollowUp
      <3>2. legs = <<Leg(c.account, c.amount, "debit"), Leg(c.target, c.amount, "credit")>>
        BY <2>1 DEF LegsOf
      <3>3. \A i \in DOMAIN legs : legs[i].account \in {c.account, c.target}
        BY <3>2 DEF Leg
      <3> QED  BY <3>1, <3>3
    <2>2. CASE c.kind = "Post"
      <3>1. \A i \in DOMAIN c.postings : c.postings[i].account \in Account
        BY <2>2 DEF ValidCommand, ValidPostings, ValidLeg, ValidFollowUp
      <3>2. legs = c.postings
        BY <2>2 DEF LegsOf
      <3> QED  BY <3>1, <3>2
    <2> QED  BY <2>1, <2>2
  <1>2. \A i : EventOf(i).type # "HoldPlaced"
    BY DEF GroupedEvent, Event
  <1>3. GoodLegs(planned)
    <2> HIDE DEF accounts, At, EventOf
    <2>1. DOMAIN planned = accounts /\ \A a \in accounts : planned[a] = <<EventOf(At(a))>>
      OBVIOUS
    <2> HIDE DEF planned
    <2> QED  BY <1>1, <1>2, <2>1, OneEvent DEF GoodLegs
  <1>4. \/ \E o : DecidePostings(s, c, id) = Rejected(o)
        \/ DecidePostings(s, c, id) = Accepted(planned)
    BY Zenon DEF DecidePostings
  <1> HIDE DEF planned
  <1> QED
    BY <1>3, <1>4, RejectedPlan, AcceptedPlan

(* Placing a hold plans one row, on the anchor.                              *)
LEMMA DecideHoldGood ==
  ASSUME NEW s, NEW c, NEW id, NEW t, c.account \in Account, c.target \in Account
  PROVE  GoodPlan(DecideHold(s, c, id, t))
  <1> DEFINE e == [GroupedEvent("HoldPlaced", c.amount, id, id, c.target)
                     EXCEPT !.expires = t + c.ttl]
             planned == [a \in {c.account} |-> <<e>>]
  <1>1. e.counterparty \in Account
    BY DEF GroupedEvent, Event
  <1>2. GoodLegs(planned)
    <2> HIDE DEF e
    <2> QED  BY <1>1, OneEvent DEF GoodLegs
  <1>3. \/ \E o : DecideHold(s, c, id, t) = Rejected(o)
        \/ DecideHold(s, c, id, t) = Accepted(planned)
    BY Zenon DEF DecideHold
  <1> HIDE DEF planned
  <1> QED
    BY <1>2, <1>3, RejectedPlan, AcceptedPlan

(* Voiding or expiring a hold plans one row, on the anchor.                  *)
LEMMA DecideReleaseGood ==
  ASSUME NEW s, NEW h, NEW c, NEW id, NEW t, c.account \in Account
  PROVE  GoodPlan(DecideReleaseHold(s, h, c, id, t))
  <1> DEFINE reason == IF c.kind = "VoidHold" THEN "voided" ELSE "expired"
             e == [GroupedEvent("HoldReleased", h.amount, id, c.hold, NoAccount)
                     EXCEPT !.reason = reason]
             planned == [a \in {c.account} |-> <<e>>]
  <1>1. e.type # "HoldPlaced"
    BY DEF GroupedEvent, Event
  <1>2. GoodLegs(planned)
    <2> HIDE DEF e
    <2> QED  BY <1>1, OneEvent DEF GoodLegs
  <1>3. \/ \E o : DecideReleaseHold(s, h, c, id, t) = Rejected(o)
        \/ DecideReleaseHold(s, h, c, id, t) = Accepted(planned)
    BY Zenon DEF DecideReleaseHold
  <1> HIDE DEF planned
  <1> QED
    BY <1>2, <1>3, RejectedPlan, AcceptedPlan

(* Settling a hold plans rows on the anchor and on the target.               *)
LEMMA DecidePostHoldGood ==
  ASSUME NEW s, NEW h, NEW c, NEW id, NEW t, c.account \in Account,
         h # NoHold => h.counterparty \in Account
  PROVE  GoodPlan(DecidePostHold(s, h, c, id, t))
  <1> DEFINE amount == IF c.amount = 0 THEN h.amount ELSE c.amount
             posted == GroupedEvent("HoldPosted", amount, id, c.hold, h.counterparty)
             rest == [GroupedEvent("HoldReleased", h.amount - amount, id, c.hold, NoAccount)
                        EXCEPT !.reason = "partial"]
             credit == GroupedEvent("TransferCredited", amount, id, c.hold, c.account)
             planned == [a \in {c.account, h.counterparty} |->
                           IF a # c.account THEN <<credit>>
                           ELSE IF amount < h.amount THEN <<posted, rest>>
                           ELSE <<posted>>]
  <1>1. posted.type # "HoldPlaced" /\ rest.type # "HoldPlaced" /\ credit.type # "HoldPlaced"
    BY DEF GroupedEvent, Event
  <1>2. ASSUME h # NoHold PROVE GoodLegs(planned)
    <2>1. DOMAIN planned = {c.account, h.counterparty}
      OBVIOUS
    <2>2. \A a \in DOMAIN planned : planned[a] \in {<<credit>>, <<posted, rest>>, <<posted>>}
      <3> HIDE DEF credit, posted, rest, amount
      <3> QED  OBVIOUS
    <2> HIDE DEF planned, credit, posted, rest
    <2>3. \A l \in {<<credit>>, <<posted, rest>>, <<posted>>} :
            Sequential(l) /\ \A i \in DOMAIN l : l[i].type # "HoldPlaced"
      BY <1>1, OneEvent, TwoEvents
    <2> QED  BY <1>2, <2>1, <2>2, <2>3 DEF GoodLegs
  <1>3. \/ DecidePostHold(s, h, c, id, t) = Rejected("domain_rejected")
        \/ h # NoHold /\ DecidePostHold(s, h, c, id, t) = Accepted(planned)
    BY Zenon DEF DecidePostHold
  <1> HIDE DEF planned
  <1> QED
    BY <1>2, <1>3, RejectedPlan, AcceptedPlan

(* A reversal plans one row per account of the set it reverts.               *)
LEMMA DecideRevertGood ==
  ASSUME NEW s, NEW legs, NEW c, NEW id, NEW rv,
         \A l \in legs : l.account \in Account
  PROVE  GoodPlan(DecideRevert(s, legs, c, id, rv))
  <1> DEFINE accounts == {l.account : l \in legs}
             Original(a) == (CHOOSE l \in legs : l.account = a).event
             Received(a) == BalanceSign(Original(a).type) > 0
             Mirror(a) ==
               [GroupedEvent(IF Received(a) THEN "ReversalDebited" ELSE "ReversalCredited",
                             Original(a).amount, id, id, Original(a).counterparty)
                  EXCEPT !.reverts = c.transfer]
             planned == [a \in accounts |-> <<Mirror(a)>>]
  <1>1. \A a : Mirror(a).type # "HoldPlaced"
    <2> HIDE DEF Received, Original
    <2> QED  BY DEF GroupedEvent, Event
  <1>2. accounts \subseteq Account
    OBVIOUS
  <1>3. GoodLegs(planned)
    <2> HIDE DEF accounts, Mirror
    <2>1. DOMAIN planned = accounts /\ \A a \in accounts : planned[a] = <<Mirror(a)>>
      OBVIOUS
    <2> HIDE DEF planned
    <2> QED  BY <1>1, <1>2, <2>1, OneEvent DEF GoodLegs
  <1>4. \/ \E o : DecideRevert(s, legs, c, id, rv) = Rejected(o)
        \/ DecideRevert(s, legs, c, id, rv) = Accepted(planned)
    BY Zenon DEF DecideRevert
  <1> HIDE DEF planned
  <1> QED
    BY <1>3, <1>4, RejectedPlan, AcceptedPlan

(* Every decision plans well-formed rows on real accounts.                   *)
LEMMA DecideLegsGood ==
  ASSUME NEW r \in Requests, NEW s, NEW h, NEW legs, NEW rv, NEW t,
         h # NoHold => h.counterparty \in Account,
         \A l \in legs : l.account \in Account
  PROVE  GoodPlan(DecideLegs(s, h, legs, rv, r, t))
  <1> DEFINE c == r.cmd
  <1>1. ValidCommand(c) /\ c.account \in Account
    BY UowAssumption DEF ValidCommand
  <1>2. c.kind = "Hold" => c.target \in Account
    BY <1>1 DEF ValidCommand, ValidFollowUp
  <1>3. \/ c.kind \in {"Transfer", "Post"} /\ DecideLegs(s, h, legs, rv, r, t) = DecidePostings(s, c, r.id)
        \/ c.kind = "Hold" /\ DecideLegs(s, h, legs, rv, r, t) = DecideHold(s[c.account], c, r.id, t)
        \/ DecideLegs(s, h, legs, rv, r, t) = DecidePostHold(s, h, c, r.id, t)
        \/ DecideLegs(s, h, legs, rv, r, t) = DecideReleaseHold(s[c.account], h, c, r.id, t)
        \/ DecideLegs(s, h, legs, rv, r, t) = DecideRevert(s, legs, c, r.id, rv)
        \/ DecideLegs(s, h, legs, rv, r, t) = Decide(s[c.account], c, r.id)
    BY DEF DecideLegs
  <1> HIDE DEF c
  <1> QED
    BY <1>1, <1>2, <1>3, DecidePostingsGood, DecideHoldGood, DecidePostHoldGood,
       DecideReleaseGood, DecideRevertGood, DecideGood

-----------------------------------------------------------------------------
(* The inductive invariant *)

Prefix(s, n) == [i \in 1..n |-> s[i]]

(* Streams are gapless functions, and every hold in them names its payee.    *)
LogOK ==
  /\ DOMAIN log = Account
  /\ \A a \in Account :
       /\ \E n \in Nat : DOMAIN log[a] = 1..n /\ log[a] = Prefix(log[a], n)
       /\ \A i \in DOMAIN log[a] :
            log[a][i].type = "HoldPlaced" => log[a][i].counterparty \in Account

Shape ==
  /\ pc \in [Worker -> Stages]
  /\ req \in [Worker -> Requests \cup {NoRequest}]
  /\ \A w \in Worker : pc[w] = "idle" <=> req[w] = NoRequest
  /\ DOMAIN folds = Worker /\ DOMAIN hold = Worker /\ DOMAIN orig = Worker
  /\ DOMAIN plan = Worker /\ DOMAIN taken = Worker

Counters ==
  /\ attempt \in [Worker -> 0..(MaxRaceRetries + 1)]
  /\ at \in [Worker -> 0..MaxNow]
  /\ now \in 0..MaxNow
  /\ submits \in 0..MaxSubmits
  /\ losses \in 0..MaxLosses

(* What a worker has folded is a prefix of the stream: versions only grow.   *)
FoldsOK(w) ==
  /\ DOMAIN folds[w] = Account
  /\ \A a \in Account :
       /\ folds[w][a].version \in Nat
       /\ 1..folds[w][a].version \subseteq DOMAIN log[a]
       /\ folds[w][a] = Fold(Prefix(log[a], folds[w][a].version))

ReadsOK(w) ==
  /\ hold[w] # NoHold => hold[w].counterparty \in Account
  /\ \A l \in orig[w] : l.account \in Account

PlanOK(w) ==
  /\ GoodPlan(plan[w])
  /\ taken[w] \subseteq PlannedLegs(w)
  /\ pc[w] \notin {"append", "persist", "commit"} => taken[w] = {}
  /\ pc[w] \in {"persist", "commit"} => ToInsert(w) = {}

(* Rows taken are above the head of a stream folded to its head, the first   *)
(* of each stream among them, and all below the rows still to insert.        *)
TakenOK(w) ==
  /\ \A l \in taken[w] :
       /\ folds[w][l[1]].version + 1 \notin DOMAIN log[l[1]]
       /\ <<l[1], 1>> \in taken[w]
  /\ \A l \in taken[w], m \in ToInsert(w) : Precedes(l, m)

WorkerOK(w) == FoldsOK(w) /\ ReadsOK(w) /\ PlanOK(w) /\ TakenOK(w)

(* One transaction at a time has rows in a stream.                           *)
Exclusive ==
  \A w, x \in Worker : \A l \in taken[w], m \in taken[x] : l[1] = m[1] => w = x

(* A committer's command id is free and its own; replies match the table.    *)
ResultsOK ==
  /\ DOMAIN results = CommandId
  /\ \A w \in Worker : pc[w] = "commit" => results[req[w].id] = Atomic!NoResult
  /\ \A w, x \in Worker :
       pc[w] = "commit" /\ pc[x] = "commit" /\ req[w].id = req[x].id => w = x
  /\ \A p \in replies : p.result.outcome # "command_id_conflict" =>
       p.id \in CommandId /\ results[p.id] = p.result /\ p.result # Atomic!NoResult

IInv ==
  /\ LogOK /\ Shape /\ Counters /\ Exclusive /\ ResultsOK
  /\ \A w \in Worker : WorkerOK(w)

-----------------------------------------------------------------------------
(* Facts about the invariant *)

(* The empty stream folds to version 0.                                      *)
LEMMA EmptyFold ==
  ASSUME NEW s
  PROVE  /\ Fold(EmptyStream).version = 0
         /\ Fold(EmptyStream) = Fold(Prefix(s, 0))
  <1>1. DOMAIN EmptyStream = 1..0
    BY DEF EmptyStream
  <1>2. EmptyStream = Prefix(s, 0)
    BY DEF EmptyStream, Prefix
  <1> QED  BY <1>1, <1>2, FoldVersion

(* A fold taken now has the length and the rows of the whole stream.         *)
LEMMA FoldNow ==
  ASSUME LogOK, NEW a \in Account
  PROVE  /\ Fold(log[a]).version \in Nat
         /\ 1..Fold(log[a]).version = DOMAIN log[a]
         /\ Fold(log[a]) = Fold(Prefix(log[a], Fold(log[a]).version))
  <1>1. PICK n \in Nat : DOMAIN log[a] = 1..n /\ log[a] = Prefix(log[a], n)
    BY DEF LogOK
  <1>2. Fold(log[a]).version = n
    BY <1>1, FoldVersion
  <1> QED  BY <1>1, <1>2

(* A worker whose fold stops where the stream stops has folded all of it.    *)
LEMMA FoldAtHead ==
  ASSUME LogOK, NEW w, FoldsOK(w), NEW a \in Account,
         folds[w][a].version + 1 \notin DOMAIN log[a]
  PROVE  /\ folds[w][a] = Fold(log[a])
         /\ DOMAIN log[a] = 1..folds[w][a].version
  <1>1. PICK n \in Nat : DOMAIN log[a] = 1..n /\ log[a] = Prefix(log[a], n)
    BY DEF LogOK
  <1>2. folds[w][a].version \in Nat /\ 1..folds[w][a].version \subseteq 1..n
    BY <1>1 DEF FoldsOK
  <1>3. folds[w][a].version = n
    <2> DEFINE v == folds[w][a].version
    <2>1. v + 1 \notin 1..n
      BY <1>1
    <2> HIDE DEF v
    <2>2. v \in Nat /\ 1..v \subseteq 1..n
      BY <1>2 DEF v
    <2>3. v <= n
      <3>1. v = 0 \/ v \in 1..v
        BY <2>2
      <3> QED  BY <2>2, <3>1
    <2>4. v >= n
      BY <2>1, <2>2
    <2>5. v = n
      BY <2>2, <2>3, <2>4
    <2> QED  BY <2>5 DEF v
  <1> QED  BY <1>1, <1>3 DEF FoldsOK

(* A planned leg names an account and an index from 1.                       *)
LEMMA PlannedLeg ==
  ASSUME NEW w, GoodPlan(plan[w]), NEW l \in PlannedLegs(w)
  PROVE  /\ l[1] \in DOMAIN plan[w].legs
         /\ l[1] \in Account
         /\ l[2] \in DOMAIN plan[w].legs[l[1]]
         /\ l[2] \in Nat /\ l[2] >= 1
         /\ l = <<l[1], l[2]>>
         /\ \E n \in Nat : DOMAIN plan[w].legs[l[1]] = 1..n /\ Len(plan[w].legs[l[1]]) = n
         /\ <<l[1], 1>> \in PlannedLegs(w)
  <1> DEFINE legs == plan[w].legs
  <1>1. PICK a \in DOMAIN legs : \E i \in DOMAIN legs[a] : l = <<a, i>>
    BY DEF PlannedLegs
  <1>2. PICK i \in DOMAIN legs[a] : l = <<a, i>>
    BY <1>1
  <1>3. PICK n \in Nat : DOMAIN legs[a] = 1..n /\ Len(legs[a]) = n
    BY DEF GoodPlan, GoodLegs, Sequential
  <1>4. a \in Account
    BY DEF GoodPlan, GoodLegs
  <1>5. i \in Nat /\ i >= 1 /\ 1 \in DOMAIN legs[a]
    BY <1>2, <1>3
  <1>6. <<a, 1>> \in PlannedLegs(w)
    BY <1>5 DEF PlannedLegs
  <1>7. l[1] = a /\ l[2] = i
    BY <1>2
  <1> QED  BY <1>2, <1>3, <1>4, <1>5, <1>6, <1>7

-----------------------------------------------------------------------------
(* Steps, as seen by one worker *)

(* The step leaves alone what worker x keeps.                                *)
Same(x) ==
  /\ pc'[x] = pc[x] /\ req'[x] = req[x] /\ folds'[x] = folds[x]
  /\ hold'[x] = hold[x] /\ orig'[x] = orig[x] /\ plan'[x] = plan[x]
  /\ taken'[x] = taken[x]

(* The log only grows, and not in the streams x has rows in.                 *)
GrowsBeside(x) ==
  /\ \A a \in Account : \A i \in DOMAIN log[a] :
       i \in DOMAIN log'[a] /\ log'[a][i] = log[a][i]
  /\ \A l \in taken[x] : log'[l[1]] = log[l[1]]

(* Streams that agree on their first n rows have the same prefix.            *)
LEMMA SamePrefix ==
  ASSUME NEW s, NEW t, NEW n \in Nat, 1..n \subseteq DOMAIN s,
         \A i \in DOMAIN s : t[i] = s[i]
  PROVE  Prefix(t, n) = Prefix(s, n)
  BY DEF Prefix

(* A worker that a step leaves alone stays sound if no row it read changed.  *)
LEMMA FrameWorker ==
  ASSUME NEW x \in Worker, WorkerOK(x), Same(x), GrowsBeside(x)
  PROVE  WorkerOK(x)'
  <1>1. FoldsOK(x)'
    <2>1. DOMAIN folds'[x] = Account
      BY DEF WorkerOK, FoldsOK, Same
    <2>2. ASSUME NEW a \in Account
          PROVE  /\ folds'[x][a].version \in Nat
                 /\ 1..folds'[x][a].version \subseteq DOMAIN log'[a]
                 /\ folds'[x][a] = Fold(Prefix(log'[a], folds'[x][a].version))
      <3> DEFINE v == folds[x][a].version
      <3>1. /\ v \in Nat /\ 1..v \subseteq DOMAIN log[a]
            /\ folds[x][a] = Fold(Prefix(log[a], v))
        BY DEF WorkerOK, FoldsOK
      <3>2. folds'[x][a] = folds[x][a]
        BY DEF Same
      <3>3. \A i \in DOMAIN log[a] : i \in DOMAIN log'[a] /\ log'[a][i] = log[a][i]
        BY DEF GrowsBeside
      <3>4. Prefix(log'[a], v) = Prefix(log[a], v)
        BY <3>1, <3>3, SamePrefix
      <3> QED  BY <3>1, <3>2, <3>3, <3>4
    <2> QED  BY <2>1, <2>2 DEF FoldsOK
  <1>2. ReadsOK(x)'
    BY DEF WorkerOK, ReadsOK, Same
  <1>3. PlanOK(x)'
    BY DEF WorkerOK, PlanOK, Same, PlannedLegs, ToInsert, GoodPlan, GoodLegs
  <1>4. TakenOK(x)'
    BY DEF WorkerOK, TakenOK, Same, PlannedLegs, ToInsert, GrowsBeside
  <1> QED  BY <1>1, <1>2, <1>3, <1>4 DEF WorkerOK

(* A step of w that commits nothing.                                         *)
Local(w) == log' = log /\ \A x \in Worker \ {w} : Same(x)

(* A step that commits nothing need only be checked on its own worker.       *)
LEMMA LocalStep ==
  ASSUME IInv, NEW w \in Worker, Local(w),
         Shape', Counters', WorkerOK(w)', Exclusive', ResultsOK'
  PROVE  IInv'
  <1>1. LogOK'
    BY DEF IInv, Local, LogOK
  <1>2. ASSUME NEW x \in Worker, x # w PROVE WorkerOK(x)'
    <2>1. Same(x) /\ GrowsBeside(x)
      BY <1>2 DEF Local, GrowsBeside
    <2> QED  BY <2>1, FrameWorker DEF IInv
  <1> QED  BY <1>1, <1>2 DEF IInv

(* A step that takes no key keeps the keys exclusive.                        *)
LEMMA TakesNothing ==
  ASSUME IInv, NEW w \in Worker, Local(w), taken'[w] \subseteq taken[w]
  PROVE  Exclusive'
  <1>1. \A x \in Worker : taken'[x] \subseteq taken[x]
    BY DEF Local, Same
  <1> QED  BY <1>1 DEF IInv, Exclusive

(* A step that answers nobody and stores nothing keeps answers durable.      *)
LEMMA TellsNothing ==
  ASSUME IInv, NEW w \in Worker, Local(w), results' = results, replies' = replies,
         pc'[w] # "commit"
  PROVE  ResultsOK'
  <1>1. \A x \in Worker : pc'[x] = "commit" => pc[x] = "commit" /\ req'[x] = req[x]
    BY DEF Local, Same
  <1>2. ResultsOK
    BY DEF IInv
  <1> QED  BY <1>1, <1>2 DEF ResultsOK

(* A worker that starts over has read nothing and holds no row.              *)
LEMMA ForgetOK ==
  ASSUME LogOK', Shape, NEW w \in Worker, Forget(w), pc'[w] \in {"idle", "begin"}
  PROVE  WorkerOK(w)'
  <1>1. /\ folds'[w] = UnknownAccounts /\ hold'[w] = NoHold /\ orig'[w] = {}
        /\ plan'[w] = Rejected("none") /\ taken'[w] = {}
    BY DEF Shape, Forget
  <1>2. FoldsOK(w)'
    <2>1. DOMAIN folds'[w] = Account /\ \A a \in Account : folds'[w][a] = Fold(EmptyStream)
      BY <1>1 DEF UnknownAccounts
    <2>2. ASSUME NEW a \in Account
          PROVE  /\ folds'[w][a].version = 0
                 /\ folds'[w][a] = Fold(Prefix(log'[a], 0))
      BY <2>1, EmptyFold
    <2> QED  BY <2>1, <2>2 DEF FoldsOK
  <1>3. ReadsOK(w)'
    BY <1>1 DEF ReadsOK
  <1>4. PlanOK(w)'
    <2>1. GoodPlan(plan[w])'
      <3>1. GoodPlan(plan'[w])
        BY <1>1, RejectedPlan
      <3> QED  BY <3>1 DEF GoodPlan, GoodLegs, Sequential
    <2> QED  BY <1>1, <2>1 DEF PlanOK
  <1>5. TakenOK(w)'
    BY <1>1 DEF TakenOK
  <1> QED  BY <1>2, <1>3, <1>4, <1>5 DEF WorkerOK

(* A decision adopted by a worker that holds no row yet.                     *)
LEMMA AdoptOK ==
  ASSUME Shape, NEW w \in Worker, taken'[w] = {}, NEW d, GoodPlan(d), Adopt(w, d)
  PROVE  PlanOK(w)' /\ TakenOK(w)'
  <1>1. plan'[w] = d /\ pc'[w] = IF d.outcome = "accepted" THEN "append" ELSE "persist"
    BY DEF Shape, Adopt, GoTo
  <1>2. pc'[w] = "persist" => ToInsert(w)' = {}
    <2>1. pc'[w] = "persist" => DOMAIN plan'[w].legs = {}
      BY <1>1 DEF GoodPlan
    <2> QED  BY <2>1 DEF ToInsert, PlannedLegs
  <1>3. GoodPlan(plan[w])'
    BY <1>1 DEF GoodPlan, GoodLegs, Sequential
  <1> QED  BY <1>1, <1>2, <1>3 DEF PlanOK, TakenOK

(* The request of a busy worker is a valid command.                          *)
LEMMA RequestOK ==
  ASSUME IInv, NEW w \in Worker, pc[w] # "idle"
  PROVE  /\ req[w] \in Requests /\ req[w].id \in CommandId
         /\ req[w].cmd # NoId /\ req[w].cmd.account \in Account
  <1>1. req[w] \in Requests
    BY DEF IInv, Shape
  <1> QED  BY <1>1, UowAssumption DEF ValidCommand

(* The idle worker has no request.                                           *)
LEMMA NotARequest == NoRequest \notin Requests
  BY UowAssumption, DomainAssumption DEF NoRequest

(* A step of w that moves it from one stage of its transaction to another.   *)
LEMMA MoveOK ==
  ASSUME IInv, NEW w \in Worker, NEW stage \in Stages \ {"idle"},
         pc[w] # "idle", GoTo(w, stage), req' = req
  PROVE  /\ pc' \in [Worker -> Stages]
         /\ req' \in [Worker -> Requests \cup {NoRequest}]
         /\ \A x \in Worker : pc'[x] = "idle" <=> req'[x] = NoRequest
         /\ pc'[w] = stage /\ \A x \in Worker \ {w} : pc'[x] = pc[x]
  BY DEF IInv, Shape, GoTo

(* A worker that leaves is idle, with nothing read and nothing taken.        *)
LEMMA LeaveOK ==
  ASSUME IInv, NEW w \in Worker, Leave(w)
  PROVE  /\ Shape'
         /\ attempt' \in [Worker -> 0..(MaxRaceRetries + 1)]
         /\ at' \in [Worker -> 0..MaxNow]
         /\ pc'[w] = "idle" /\ taken'[w] = {}
         /\ \A x \in Worker \ {w} : Same(x)
  <1>1. attempt' \in [Worker -> 0..(MaxRaceRetries + 1)] /\ at' \in [Worker -> 0..MaxNow]
    BY UowAssumption DEF IInv, Counters, Leave, Forget
  <1>2. Shape'
    BY DEF IInv, Shape, Leave, GoTo, Forget, Stages
  <1>3. pc'[w] = "idle" /\ taken'[w] = {}
    BY DEF IInv, Shape, Leave, GoTo, Forget
  <1>4. \A x \in Worker \ {w} : Same(x)
    BY DEF IInv, Shape, Leave, GoTo, Forget, Same
  <1> QED  BY <1>1, <1>2, <1>3, <1>4

(* A worker that leaves without committing.                                  *)
LEMMA LeaveStep ==
  ASSUME IInv, NEW w \in Worker, Leave(w), UNCHANGED <<log, now, submits>>,
         losses' \in 0..MaxLosses, ResultsOK'
  PROVE  IInv'
  <1>1. Local(w)
    BY LeaveOK DEF Local
  <1>2. Shape' /\ Counters'
    BY LeaveOK DEF IInv, Counters
  <1>3. LogOK'
    BY DEF IInv, LogOK
  <1>4. WorkerOK(w)'
    <2>1. Forget(w) /\ pc'[w] \in {"idle", "begin"}
      BY LeaveOK DEF Leave
    <2> QED  BY <1>3, <2>1, ForgetOK DEF IInv
  <1>5. Exclusive'
    BY <1>1, LeaveOK, TakesNothing
  <1> QED  BY <1>1, <1>2, <1>4, <1>5, LocalStep

(* Taking a request in keeps the invariant.                                  *)
LEMMA SubmitStep ==
  ASSUME IInv, NEW w \in Worker, NEW r \in Requests, Submit(w, r)
  PROVE  IInv'
  <1>1. Local(w)
    BY DEF IInv, Shape, Local, Same, Submit, GoTo, reads, db
  <1>2. Shape'
    BY NotARequest DEF IInv, Shape, Submit, GoTo, Stages, reads
  <1>3. Counters'
    BY UowAssumption DEF IInv, Counters, Submit, reads, db
  <1>4. pc'[w] = "begin" /\ taken'[w] = taken[w]
    BY DEF IInv, Shape, Submit, GoTo
  <1>5. WorkerOK(w)'
    <2>1. WorkerOK(w) /\ pc[w] = "idle"
      BY DEF IInv, Submit
    <2>2. UNCHANGED <<log, folds, hold, orig, plan, taken>>
      BY DEF Submit, reads, db
    <2> QED
      BY <1>4, <2>1, <2>2 DEF WorkerOK, FoldsOK, ReadsOK, PlanOK, TakenOK,
         PlannedLegs, ToInsert, GoodPlan, GoodLegs, Sequential
  <1>6. Exclusive' /\ ResultsOK'
    <2>1. results' = results /\ replies' = replies
      BY DEF Submit, db
    <2> QED  BY <1>1, <1>4, <2>1, TakesNothing, TellsNothing
  <1> QED  BY <1>1, <1>2, <1>3, <1>5, <1>6, LocalStep

(* Finding no stored result keeps the invariant.                             *)
LEMMA FindNoResultStep ==
  ASSUME IInv, NEW w \in Worker, FindNoResult(w)
  PROVE  IInv'
  <1>1. pc[w] = "begin" /\ GoTo(w, "fold") /\ req' = req
    BY DEF FindNoResult
  <1>2. UNCHANGED <<db, attempt, reads, plan, taken, replies, bounds>>
    BY DEF FindNoResult
  <1>3. "fold" \in Stages \ {"idle"}
    BY DEF Stages
  <1>4. Local(w)
    BY <1>1, <1>2, <1>3, MoveOK DEF Local, Same, reads, db
  <1>5. Shape' /\ Counters'
    BY <1>1, <1>2, <1>3, MoveOK DEF IInv, Shape, Counters, reads, db, bounds
  <1>6. WorkerOK(w)'
    <2>1. WorkerOK(w) /\ pc'[w] = "fold"
      BY <1>1, <1>3, MoveOK DEF IInv
    <2> QED
      BY <1>1, <1>2, <2>1 DEF WorkerOK, FoldsOK, ReadsOK, PlanOK, TakenOK,
         PlannedLegs, ToInsert, GoodPlan, GoodLegs, Sequential, reads, db
  <1>7. Exclusive' /\ ResultsOK'
    BY <1>1, <1>2, <1>3, <1>4, MoveOK, TakesNothing, TellsNothing DEF db
  <1> QED  BY <1>4, <1>5, <1>6, <1>7, LocalStep

(* Answering from the stored result keeps the invariant.                     *)
LEMMA ReplayStep ==
  ASSUME IInv, NEW w \in Worker, Replay(w)
  PROVE  IInv'
  <1> DEFINE p == [id |-> req[w].id, cmd |-> req[w].cmd, result |-> results[req[w].id]]
  <1>1. Leave(w) /\ UNCHANGED <<log, results, now, submits, losses>>
    BY DEF Replay, db, bounds
  <1>2. pc[w] = "begin" /\ results[req[w].id].cmd = req[w].cmd /\ replies' = replies \cup {p}
    BY DEF Replay, Answer
  <1>3. results[req[w].id] # Atomic!NoResult
    BY <1>2, RequestOK DEF Atomic!NoResult
  <1>4. \A q \in replies' : q.result.outcome # "command_id_conflict" =>
          q.id \in CommandId /\ results[q.id] = q.result /\ q.result # Atomic!NoResult
    BY <1>2, <1>3, RequestOK DEF IInv, ResultsOK
  <1>5. ResultsOK'
    <2>1. \A x \in Worker : pc'[x] = "commit" => pc[x] = "commit" /\ req'[x] = req[x]
      BY <1>1, LeaveOK DEF Same
    <2> QED  BY <1>1, <1>4, <2>1 DEF IInv, ResultsOK
  <1> QED  BY <1>1, <1>5, LeaveStep DEF IInv, Counters

(* Answering command_id_conflict keeps the invariant.                        *)
LEMMA IdConflictStep ==
  ASSUME IInv, NEW w \in Worker, IdConflict(w)
  PROVE  IInv'
  <1> DEFINE res == Atomic!Result(req[w], "command_id_conflict",
                                  Fold(log[req[w].cmd.account]).version, 0)
             p == [id |-> req[w].id, cmd |-> req[w].cmd, result |-> res]
  <1>1. Leave(w) /\ UNCHANGED <<log, results, now, submits, losses>>
    BY DEF IdConflict, db, bounds
  <1>2. replies' = replies \cup {p}
    BY DEF IdConflict, Answer
  <1>3. p.result.outcome = "command_id_conflict"
    BY DEF Atomic!Result
  <1> HIDE DEF p
  <1>4. ResultsOK'
    <2>1. \A x \in Worker : pc'[x] = "commit" => pc[x] = "commit" /\ req'[x] = req[x]
      BY <1>1, LeaveOK DEF Same
    <2> QED  BY <1>1, <1>2, <1>3, <2>1 DEF IInv, ResultsOK
  <1> QED  BY <1>1, <1>4, LeaveStep DEF IInv, Counters

-----------------------------------------------------------------------------
(* The reads *)

(* A read ends in a decision, or in the next read.                           *)
Decides(w) == \E d : GoodPlan(d) /\ Adopt(w, d)

ReadsOn(w) ==
  \E stage \in {"hold", "legs", "others", "reverted"} : GoTo(w, stage) /\ plan' = plan

(* A read that takes no key and commits nothing keeps the invariant.         *)
LEMMA ReadStep ==
  ASSUME IInv, NEW w \in Worker,
         pc[w] \in {"fold", "hold", "legs", "others", "reverted"},
         Decides(w) \/ ReadsOn(w),
         UNCHANGED <<db, req, attempt, taken, replies, bounds>>,
         at' \in [Worker -> 0..MaxNow],
         DOMAIN folds' = Worker, DOMAIN hold' = Worker, DOMAIN orig' = Worker,
         \A x \in Worker \ {w} : /\ folds'[x] = folds[x] /\ hold'[x] = hold[x]
                                 /\ orig'[x] = orig[x],
         FoldsOK(w)', ReadsOK(w)'
  PROVE  IInv'
  <1>1. taken[w] = {} /\ taken'[w] = {}
    BY DEF IInv, WorkerOK, PlanOK
  <1>2. PICK stage \in Stages \ {"idle", "commit"} : GoTo(w, stage)
    <2>1. CASE Decides(w)
      BY <2>1 DEF Decides, Adopt, Stages
    <2>2. CASE ReadsOn(w)
      BY <2>2 DEF ReadsOn, Stages
    <2> QED  BY <2>1, <2>2
  <1>3. DOMAIN plan' = Worker /\ \A x \in Worker \ {w} : plan'[x] = plan[x]
    BY DEF IInv, Shape, Decides, Adopt, ReadsOn
  <1>4. PlanOK(w)' /\ TakenOK(w)'
    <2>1. CASE Decides(w)
      BY <1>1, <2>1, AdoptOK DEF IInv, Decides
    <2>2. CASE ReadsOn(w)
      <3>1. pc'[w] \in {"hold", "legs", "others", "reverted"}
        BY <2>2 DEF ReadsOn, GoTo, IInv, Shape
      <3>2. plan' = plan /\ GoodPlan(plan[w])
        BY <2>2 DEF ReadsOn, IInv, WorkerOK, PlanOK
      <3>3. GoodPlan(plan[w])'
        BY <3>2 DEF GoodPlan, GoodLegs, Sequential
      <3> QED  BY <1>1, <3>1, <3>3 DEF PlanOK, TakenOK
    <2> QED  BY <2>1, <2>2
  <1>5. WorkerOK(w)'
    BY <1>4 DEF WorkerOK
  <1>6. Local(w)
    BY <1>2, <1>3, MoveOK DEF Local, Same, db
  <1>7. Shape' /\ Counters'
    BY <1>2, <1>3, MoveOK DEF IInv, Shape, Counters, db, bounds
  <1>8. Exclusive' /\ ResultsOK'
    BY <1>1, <1>2, <1>6, MoveOK, TakesNothing, TellsNothing DEF db
  <1> QED  BY <1>5, <1>6, <1>7, <1>8, LocalStep

(* Replacing one account's fold by a fold taken now.                         *)
LEMMA RefoldOK ==
  ASSUME IInv, NEW w \in Worker, NEW a, log' = log,
         folds' = [folds EXCEPT ![w] = [folds[w] EXCEPT ![a] = Fold(log[a])]]
  PROVE  /\ FoldsOK(w)' /\ DOMAIN folds' = Worker
         /\ \A x \in Worker \ {w} : folds'[x] = folds[x]
  <1>1. DOMAIN folds' = Worker /\ \A x \in Worker \ {w} : folds'[x] = folds[x]
    BY DEF IInv, Shape
  <1>2. folds'[w] = [folds[w] EXCEPT ![a] = Fold(log[a])]
    BY DEF IInv, Shape
  <1>3. FoldsOK(w)
    BY DEF IInv, WorkerOK
  <1>4. DOMAIN folds'[w] = Account
    BY <1>2, <1>3 DEF FoldsOK
  <1>5. ASSUME NEW b \in Account
        PROVE  /\ folds'[w][b].version \in Nat
               /\ 1..folds'[w][b].version \subseteq DOMAIN log'[b]
               /\ folds'[w][b] = Fold(Prefix(log'[b], folds'[w][b].version))
    <2>1. CASE b = a
      <3>1. folds'[w][b] = Fold(log[b])
        BY <1>2, <1>3, <2>1 DEF FoldsOK
      <3> QED  BY <3>1, FoldNow DEF IInv
    <2>2. CASE b # a
      <3>1. folds'[w][b] = folds[w][b]
        BY <1>2, <1>3, <2>2 DEF FoldsOK
      <3> QED  BY <1>3, <3>1 DEF FoldsOK
    <2> QED  BY <2>1, <2>2
  <1>6. FoldsOK(w)'
    BY <1>4, <1>5 DEF FoldsOK
  <1> QED  BY <1>1, <1>6

(* Folding the anchor keeps the invariant.                                   *)
LEMMA FoldAnchorStep ==
  ASSUME IInv, NEW w \in Worker, FoldAnchor(w)
  PROVE  IInv'
  <1> DEFINE r == req[w]
             s == Fold(log[r.cmd.account])
             f == [folds[w] EXCEPT ![r.cmd.account] = s]
  <1>1. /\ pc[w] = "fold" /\ folds' = [folds EXCEPT ![w] = f]
        /\ at' = [at EXCEPT ![w] = now]
        /\ UNCHANGED <<db, req, attempt, hold, orig, taken, replies, bounds>>
    BY DEF FoldAnchor
  <1>2. \/ Adopt(w, Rejected("version_conflict"))
        \/ Adopt(w, DecideLegs(f, NoHold, {}, FALSE, r, now))
        \/ ReadsOn(w)
    <2> HIDE DEF f, s, r
    <2> QED  BY DEF FoldAnchor, ReadsOn, f, s, r
  <1>3. GoodPlan(DecideLegs(f, NoHold, {}, FALSE, r, now))
    <2> HIDE DEF f
    <2> QED  BY <1>1, RequestOK, DecideLegsGood
  <1>4. Decides(w) \/ ReadsOn(w)
    <2> HIDE DEF f, s, r
    <2> QED  BY <1>2, <1>3, RejectedPlan DEF Decides
  <1>5. /\ FoldsOK(w)' /\ DOMAIN folds' = Worker
        /\ \A x \in Worker \ {w} : folds'[x] = folds[x]
    BY <1>1, RefoldOK DEF db
  <1>6. at' \in [Worker -> 0..MaxNow]
    BY <1>1 DEF IInv, Counters
  <1>7. ReadsOK(w)' /\ DOMAIN hold' = Worker /\ DOMAIN orig' = Worker
    BY <1>1 DEF IInv, WorkerOK, ReadsOK, Shape
  <1> QED  BY <1>1, <1>4, <1>5, <1>6, <1>7, ReadStep

(* An open hold names an account: its placement did.                         *)
LEMMA OpenHoldOK ==
  ASSUME LogOK, NEW a \in Account, NEW h
  PROVE  OpenHold(log[a], h) # NoHold => OpenHold(log[a], h).counterparty \in Account
  <1> DEFINE rows == HoldEvents(log[a], h)
             placed == {i \in rows : log[a][i].type = "HoldPlaced"}
  <1>1. PICK n \in Nat : DOMAIN log[a] = 1..n
    BY DEF LogOK
  <1>2. placed \subseteq 1..n
    BY <1>1 DEF HoldEvents
  <1>3. placed # {} => Max(placed) \in placed
    <2> HIDE DEF placed
    <2> QED  BY <1>2, MaxIn
  <1>4. placed # {} => log[a][Max(placed)].counterparty \in Account
    <2>1. \A i \in placed : log[a][i].counterparty \in Account
      BY <1>1, <1>2 DEF LogOK
    <2> HIDE DEF placed
    <2> QED  BY <1>3, <2>1
  <1>5. OpenHold(log[a], h) # NoHold =>
          /\ placed # {}
          /\ OpenHold(log[a], h).counterparty = log[a][Max(placed)].counterparty
    <2> HIDE DEF rows
    <2> QED  BY DEF OpenHold, rows
  <1> HIDE DEF placed
  <1> QED  BY <1>4, <1>5

(* Reading the open hold keeps the invariant.                                *)
LEMMA ReadOpenHoldStep ==
  ASSUME IInv, NEW w \in Worker, ReadOpenHold(w)
  PROVE  IInv'
  <1> DEFINE r == req[w]
             h == OpenHold(log[r.cmd.account], r.cmd.hold)
  <1>1. /\ pc[w] = "hold" /\ hold' = [hold EXCEPT ![w] = h]
        /\ UNCHANGED <<db, req, attempt, at, folds, orig, taken, replies, bounds>>
    BY DEF ReadOpenHold
  <1>2. \/ Adopt(w, DecideLegs(folds[w], h, {}, FALSE, r, at[w]))
        \/ ReadsOn(w)
    BY DEF ReadOpenHold, ReadsOn
  <1>3. h # NoHold => h.counterparty \in Account
    BY <1>1, RequestOK, OpenHoldOK DEF IInv
  <1> HIDE DEF h
  <1>4. GoodPlan(DecideLegs(folds[w], h, {}, FALSE, r, at[w]))
    BY <1>1, <1>3, RequestOK, DecideLegsGood
  <1>5. Decides(w) \/ ReadsOn(w)
    BY <1>2, <1>4 DEF Decides
  <1>6. /\ ReadsOK(w)' /\ DOMAIN hold' = Worker /\ DOMAIN orig' = Worker
        /\ \A x \in Worker \ {w} : hold'[x] = hold[x]
    BY <1>1, <1>3 DEF IInv, WorkerOK, ReadsOK, Shape
  <1>7. FoldsOK(w)' /\ DOMAIN folds' = Worker
    BY <1>1 DEF IInv, WorkerOK, FoldsOK, Shape, db
  <1>8. at' \in [Worker -> 0..MaxNow]
    BY <1>1 DEF IInv, Counters
  <1> QED  BY <1>1, <1>5, <1>6, <1>7, <1>8, ReadStep

(* Reading the legs of a posting set keeps the invariant.                    *)
LEMMA ReadLegsStep ==
  ASSUME IInv, NEW w \in Worker, ReadLegs(w)
  PROVE  IInv'
  <1> DEFINE legs == MovementLegs(log, req[w].cmd.transfer)
  <1>1. /\ pc[w] = "legs" /\ orig' = [orig EXCEPT ![w] = legs]
        /\ UNCHANGED <<db, req, attempt, at, folds, hold, plan, taken, replies, bounds>>
    BY DEF ReadLegs
  <1>2. ReadsOn(w)
    BY DEF ReadLegs, ReadsOn
  <1>3. \A l \in legs : l.account \in Account
    BY DEF MovementLegs
  <1> HIDE DEF legs
  <1>4. /\ ReadsOK(w)' /\ DOMAIN hold' = Worker /\ DOMAIN orig' = Worker
        /\ \A x \in Worker \ {w} : orig'[x] = orig[x]
    BY <1>1, <1>3 DEF IInv, WorkerOK, ReadsOK, Shape
  <1>5. FoldsOK(w)' /\ DOMAIN folds' = Worker
    BY <1>1 DEF IInv, WorkerOK, FoldsOK, Shape, db
  <1>6. at' \in [Worker -> 0..MaxNow]
    BY <1>1 DEF IInv, Counters
  <1> QED  BY <1>1, <1>2, <1>4, <1>5, <1>6, ReadStep

(* Folding a further stream keeps the invariant.                             *)
LEMMA FoldOtherStep ==
  ASSUME IInv, NEW w \in Worker, NEW a, FoldOther(w, a)
  PROVE  IInv'
  <1> DEFINE r == req[w]
             f == [folds[w] EXCEPT ![a] = Fold(log[a])]
  <1>1. /\ pc[w] = "others" /\ folds' = [folds EXCEPT ![w] = f]
        /\ UNCHANGED <<db, req, attempt, at, hold, orig, taken, replies, bounds>>
    BY DEF FoldOther
  <1>2. \/ Adopt(w, DecideLegs(f, hold[w], {}, FALSE, r, at[w]))
        \/ ReadsOn(w)
        \/ pc' = pc /\ plan' = plan
    <2> HIDE DEF f
    <2> QED  BY DEF FoldOther, ReadsOn, f
  <1>3. pc' = pc /\ plan' = plan => ReadsOn(w)
    <2>1. pc' = pc => GoTo(w, "others")
      BY <1>1 DEF GoTo, IInv, Shape
    <2> QED  BY <2>1 DEF ReadsOn
  <1>4. GoodPlan(DecideLegs(f, hold[w], {}, FALSE, r, at[w]))
    <2>1. hold[w] # NoHold => hold[w].counterparty \in Account
      BY DEF IInv, WorkerOK, ReadsOK
    <2> HIDE DEF f
    <2> QED  BY <1>1, <2>1, RequestOK, DecideLegsGood
  <1>5. /\ FoldsOK(w)' /\ DOMAIN folds' = Worker
        /\ \A x \in Worker \ {w} : folds'[x] = folds[x]
    BY <1>1, RefoldOK DEF db
  <1> HIDE DEF f
  <1>6. Decides(w) \/ ReadsOn(w)
    BY <1>2, <1>3, <1>4 DEF Decides
  <1>7. ReadsOK(w)' /\ DOMAIN hold' = Worker /\ DOMAIN orig' = Worker
    BY <1>1 DEF IInv, WorkerOK, ReadsOK, Shape
  <1>8. at' \in [Worker -> 0..MaxNow]
    BY <1>1 DEF IInv, Counters
  <1> QED  BY <1>1, <1>5, <1>6, <1>7, <1>8, ReadStep

(* Looking for an earlier reversal keeps the invariant.                      *)
LEMMA ReadRevertedByStep ==
  ASSUME IInv, NEW w \in Worker, ReadRevertedBy(w)
  PROVE  IInv'
  <1> DEFINE r == req[w]
             rv == RevertersOf(log, r.cmd.transfer) # {}
  <1>1. /\ pc[w] = "reverted"
        /\ UNCHANGED <<db, req, attempt, reads, taken, replies, bounds>>
    BY DEF ReadRevertedBy
  <1>2. Adopt(w, DecideLegs(folds[w], NoHold, orig[w], rv, r, at[w]))
    BY DEF ReadRevertedBy
  <1>3. \A l \in orig[w] : l.account \in Account
    BY DEF IInv, WorkerOK, ReadsOK
  <1> HIDE DEF rv
  <1>4. Decides(w)
    BY <1>1, <1>2, <1>3, RequestOK, DecideLegsGood DEF Decides
  <1>5. FoldsOK(w)' /\ ReadsOK(w)'
    BY <1>1 DEF IInv, WorkerOK, FoldsOK, ReadsOK, db, reads
  <1>6. /\ DOMAIN folds' = Worker /\ DOMAIN hold' = Worker /\ DOMAIN orig' = Worker
        /\ at' \in [Worker -> 0..MaxNow]
    BY <1>1 DEF IInv, Shape, Counters, reads
  <1> QED  BY <1>1, <1>4, <1>5, <1>6, ReadStep DEF reads

-----------------------------------------------------------------------------
(* The writes *)

(* The row about to be inserted is either the first of its stream or follows *)
(* one already taken; the fold behind it is at the head of the stream.       *)
LEMMA NextLegAtHead ==
  ASSUME IInv, NEW w \in Worker, NEW l, IsNextLeg(w, l), ~Committed(KeyOf(w, l))
  PROVE  /\ l[1] \in Account
         /\ folds[w][l[1]].version + 1 \notin DOMAIN log[l[1]]
         /\ l[2] = 1 \/ <<l[1], 1>> \in taken[w]
  <1>1. WorkerOK(w) /\ LogOK
    BY DEF IInv
  <1>2. l \in PlannedLegs(w) /\ l \notin taken[w]
    BY DEF IsNextLeg, ToInsert
  <1>3. GoodPlan(plan[w])
    BY <1>1 DEF WorkerOK, PlanOK
  <1>4. /\ l[1] \in Account /\ l[2] \in Nat /\ l[2] >= 1 /\ l = <<l[1], l[2]>>
        /\ <<l[1], 1>> \in PlannedLegs(w)
    BY <1>2, <1>3, PlannedLeg
  <1>5. l[2] = 1 \/ <<l[1], 1>> \in taken[w]
    <2> SUFFICES ASSUME l[2] # 1, <<l[1], 1>> \notin taken[w] PROVE FALSE
      OBVIOUS
    <2> DEFINE first == <<l[1], 1>>
    <2>1. first[1] = l[1] /\ first[2] = 1
      OBVIOUS
    <2>2. first \in ToInsert(w) \ {l}
      BY <1>4 DEF ToInsert
    <2>3. Precedes(l, first)
      BY <2>2 DEF IsNextLeg
    <2>4. l[1] < l[1] \/ l[2] < 1
      BY <2>1, <2>3 DEF Precedes
    <2> QED  BY <1>4, <2>4, DomainAssumption
  <1>6. folds[w][l[1]].version + 1 \notin DOMAIN log[l[1]]
    <2>1. CASE l[2] = 1
      BY <2>1 DEF Committed, KeyOf
    <2>2. CASE <<l[1], 1>> \in taken[w]
      <3> DEFINE first == <<l[1], 1>>
      <3>1. first[1] = l[1]
        OBVIOUS
      <3>2. folds[w][first[1]].version + 1 \notin DOMAIN log[first[1]]
        BY <1>1, <2>2 DEF WorkerOK, TakenOK
      <3> QED  BY <3>1, <3>2
    <2> QED  BY <1>5, <2>1, <2>2
  <1> QED  BY <1>4, <1>5, <1>6

(* Inserting a row keeps the invariant: its key is free, so the fold is current.*)
LEMMA AppendEventStep ==
  ASSUME IInv, NEW w \in Worker, NEW l, AppendEvent(w, l)
  PROVE  IInv'
  <1> DEFINE stage == IF ToInsert(w) = {l} THEN "persist" ELSE "append"
  <1>1. /\ pc[w] = "append" /\ GoTo(w, stage) /\ req' = req
        /\ taken' = [taken EXCEPT ![w] = @ \cup {l}]
        /\ UNCHANGED <<db, attempt, reads, plan, replies, bounds>>
    BY DEF AppendEvent
  <1>2. /\ IsNextLeg(w, l) /\ ~Committed(KeyOf(w, l)) /\ ~HeldByOther(w, KeyOf(w, l))
        /\ l \in ToInsert(w)
    BY DEF AppendEvent, IsNextLeg
  <1>3. stage \in Stages \ {"idle"} /\ stage \in {"persist", "append"}
    BY DEF Stages
  <1>4. /\ pc'[w] = stage /\ \A x \in Worker \ {w} : pc'[x] = pc[x]
        /\ pc' \in [Worker -> Stages] /\ req' \in [Worker -> Requests \cup {NoRequest}]
        /\ \A x \in Worker : pc'[x] = "idle" <=> req'[x] = NoRequest
    BY <1>1, <1>3, MoveOK
  <1>5. taken'[w] = taken[w] \cup {l} /\ \A x \in Worker \ {w} : taken'[x] = taken[x]
    BY <1>1 DEF IInv, Shape
  <1>6. Local(w)
    BY <1>1, <1>4, <1>5 DEF Local, Same, reads, db
  <1>7. Shape' /\ Counters'
    BY <1>1, <1>4 DEF IInv, Shape, Counters, reads, db, bounds
  <1>8. WorkerOK(w)
    BY DEF IInv
  <1>9. PlannedLegs(w)' = PlannedLegs(w) /\ ToInsert(w)' = ToInsert(w) \ {l}
    <2>1. PlannedLegs(w)' = PlannedLegs(w)
      BY <1>1 DEF PlannedLegs
    <2> QED  BY <1>5, <2>1 DEF ToInsert
  <1>10. WorkerOK(w)'
    <2>1. FoldsOK(w)' /\ ReadsOK(w)'
      BY <1>1, <1>8 DEF WorkerOK, FoldsOK, ReadsOK, reads, db
    <2>2. PlanOK(w)'
      <3>1. GoodPlan(plan[w])'
        BY <1>1, <1>8 DEF WorkerOK, PlanOK, GoodPlan, GoodLegs, Sequential
      <3>2. taken'[w] \subseteq PlannedLegs(w)'
        BY <1>2, <1>5, <1>8, <1>9 DEF WorkerOK, PlanOK, ToInsert
      <3>3. pc'[w] = "persist" => ToInsert(w)' = {}
        BY <1>4, <1>9
      <3> QED  BY <1>3, <1>4, <3>1, <3>2, <3>3 DEF PlanOK
    <2>3. TakenOK(w)'
      <3>1. /\ folds[w][l[1]].version + 1 \notin DOMAIN log[l[1]]
            /\ l[2] = 1 \/ <<l[1], 1>> \in taken[w]
        BY <1>2, NextLegAtHead
      <3>2. l = <<l[1], l[2]>>
        BY <1>2, <1>8, PlannedLeg DEF WorkerOK, PlanOK, ToInsert
      <3>3. <<l[1], 1>> \in taken'[w]
        BY <1>5, <3>1, <3>2
      <3>4. folds' = folds /\ log' = log
        BY <1>1 DEF reads, db
      <3>5. \A k \in taken'[w] : /\ folds'[w][k[1]].version + 1 \notin DOMAIN log'[k[1]]
                                 /\ <<k[1], 1>> \in taken'[w]
        BY <1>5, <1>8, <3>1, <3>3, <3>4 DEF WorkerOK, TakenOK
      <3>6. \A k \in taken'[w], m \in ToInsert(w)' : Precedes(k, m)
        BY <1>2, <1>5, <1>8, <1>9 DEF WorkerOK, TakenOK, IsNextLeg
      <3> QED  BY <3>5, <3>6 DEF TakenOK, Precedes
    <2> QED  BY <2>1, <2>2, <2>3 DEF WorkerOK
  <1>11. Exclusive'
    <2>1. ASSUME NEW x \in Worker, x # w, NEW m \in taken[x], m[1] = l[1] PROVE FALSE
      <3> DEFINE first == <<l[1], 1>>
      <3>1. WorkerOK(x) /\ LogOK
        BY DEF IInv
      <3>2. first \in taken[x] /\ folds[x][l[1]].version + 1 \notin DOMAIN log[l[1]]
        BY <2>1, <3>1 DEF WorkerOK, TakenOK
      <3>3. /\ l[1] \in Account /\ folds[w][l[1]].version + 1 \notin DOMAIN log[l[1]]
            /\ l[2] = 1 \/ first \in taken[w]
        BY <1>2, NextLegAtHead
      <3>4. folds[x][l[1]] = folds[w][l[1]]
        BY <1>8, <3>1, <3>2, <3>3, FoldAtHead DEF WorkerOK
      <3>5. CASE l[2] = 1
        <4>1. KeyOf(w, l) = KeyOf(x, first)
          BY <3>4, <3>5 DEF KeyOf
        <4>2. HeldByOther(w, KeyOf(w, l))
          BY <2>1, <3>2, <4>1 DEF HeldByOther, HasKey
        <4> QED  BY <1>2, <4>2
      <3>6. CASE first \in taken[w]
        BY <2>1, <3>2, <3>6 DEF IInv, Exclusive
      <3> QED  BY <3>3, <3>5, <3>6
    <2> QED  BY <1>5, <2>1 DEF IInv, Exclusive
  <1>12. ResultsOK'
    BY <1>1, <1>3, <1>4, <1>6, TellsNothing DEF db
  <1> QED  BY <1>6, <1>7, <1>10, <1>11, <1>12, LocalStep

(* Inserting the result keeps the invariant.                                 *)
LEMMA PersistResultStep ==
  ASSUME IInv, NEW w \in Worker, PersistResult(w)
  PROVE  IInv'
  <1>1. pc[w] = "persist" /\ GoTo(w, "commit") /\ req' = req
    BY DEF PersistResult
  <1>2. UNCHANGED <<db, attempt, reads, plan, taken, replies, bounds>>
    BY DEF PersistResult
  <1>3. "commit" \in Stages \ {"idle"}
    BY DEF Stages
  <1>4. Local(w)
    BY <1>1, <1>2, <1>3, MoveOK DEF Local, Same, reads, db
  <1>5. Shape' /\ Counters'
    BY <1>1, <1>2, <1>3, MoveOK DEF IInv, Shape, Counters, reads, db, bounds
  <1>6. WorkerOK(w)'
    <2>1. WorkerOK(w) /\ pc'[w] = "commit"
      BY <1>1, <1>3, MoveOK DEF IInv
    <2> QED
      BY <1>1, <1>2, <2>1 DEF WorkerOK, FoldsOK, ReadsOK, PlanOK, TakenOK,
         PlannedLegs, ToInsert, GoodPlan, GoodLegs, Sequential, reads, db
  <1>7. Exclusive'
    BY <1>2, <1>4, TakesNothing
  <1>8. ResultsOK'
    <2>1. /\ results[req[w].id] = Atomic!NoResult
          /\ \A x \in Worker \ {w} : ~(pc[x] = "commit" /\ req[x].id = req[w].id)
      BY DEF PersistResult, HasResultKey
    <2>2. \A x \in Worker \ {w} : pc'[x] = pc[x]
      BY <1>1, <1>3, MoveOK
    <2>3. UNCHANGED <<results, replies, req>>
      BY <1>1, <1>2 DEF db
    <2> QED  BY <2>1, <2>2, <2>3 DEF IInv, ResultsOK
  <1> QED  BY <1>4, <1>5, <1>6, <1>7, <1>8, LocalStep

(* The rows a commit adds continue their stream; streams in which another    *)
(* worker has rows are not touched.                                          *)
LEMMA CommittedStream ==
  ASSUME IInv, NEW w \in Worker, CommitWrites(w), NEW a \in Account
  PROVE  /\ \E n \in Nat : DOMAIN log'[a] = 1..n /\ log'[a] = Prefix(log'[a], n)
         /\ \A i \in DOMAIN log[a] : i \in DOMAIN log'[a] /\ log'[a][i] = log[a][i]
         /\ \A i \in DOMAIN log'[a] :
              log'[a][i].type = "HoldPlaced" => log'[a][i].counterparty \in Account
         /\ log'[a] = log[a] \/ \E i : <<a, i>> \in taken[w]
  <1> DEFINE legs == plan[w].legs
             v == folds[w][a].version
             New == Atomic!InsertRows(log[a], v, legs[a])
  <1>1. LogOK /\ WorkerOK(w)
    BY DEF IInv
  <1>2. PICK m \in Nat : DOMAIN log[a] = 1..m /\ log[a] = Prefix(log[a], m)
    BY <1>1 DEF LogOK
  <1>3. \A i \in DOMAIN log[a] :
          log[a][i].type = "HoldPlaced" => log[a][i].counterparty \in Account
    BY <1>1 DEF LogOK
  <1>4. log'[a] = IF a \in DOMAIN legs THEN New ELSE log[a]
    BY DEF CommitWrites
  <1>5. CASE a \notin DOMAIN legs
    BY <1>2, <1>3, <1>4, <1>5
  <1>6. CASE a \in DOMAIN legs
    <2>1. GoodPlan(plan[w]) /\ v \in Nat
      BY <1>1 DEF WorkerOK, PlanOK, FoldsOK
    <2>2. PICK n \in Nat : DOMAIN legs[a] = 1..n /\ Len(legs[a]) = n
      BY <1>6, <2>1 DEF GoodPlan, GoodLegs, Sequential
    <2>3. \A i \in 1..n : legs[a][i].type = "HoldPlaced" => legs[a][i].counterparty \in Account
      BY <1>6, <2>1, <2>2 DEF GoodPlan, GoodLegs
    <2>4. log'[a] = [i \in 1..m \cup (v + 1)..(v + n) |->
                       IF i \in 1..m THEN log[a][i] ELSE legs[a][i - v]]
      BY <1>2, <1>4, <1>6, <2>2 DEF Atomic!InsertRows
    <2>5. CASE n = 0
      <3>1. 1..m \cup (v + 1)..(v + n) = 1..m
        BY <2>1, <2>5
      <3>2. log'[a] = Prefix(log[a], m)
        BY <2>4, <3>1 DEF Prefix
      <3> QED  BY <1>2, <1>3, <3>2
    <2>6. CASE n >= 1
      <3>1. <<a, 1>> \in taken[w]
        <4>1. <<a, 1>> \in PlannedLegs(w)
          BY <1>6, <2>2, <2>6 DEF PlannedLegs
        <4>2. ToInsert(w) = {}
          BY <1>1 DEF WorkerOK, PlanOK, CommitWrites
        <4> QED  BY <4>1, <4>2 DEF ToInsert
      <3>2. v + 1 \notin DOMAIN log[a]
        <4> DEFINE first == <<a, 1>>
        <4>1. first[1] = a
          OBVIOUS
        <4>2. folds[w][first[1]].version + 1 \notin DOMAIN log[first[1]]
          BY <1>1, <3>1 DEF WorkerOK, TakenOK
        <4> QED  BY <4>1, <4>2
      <3>3. DOMAIN log[a] = 1..v
        BY <1>1, <3>2, FoldAtHead DEF WorkerOK
      <3> HIDE DEF v
      <3>4. 1..m \cup (v + 1)..(v + n) = 1..(v + n)
        BY <1>2, <2>1, <2>2, <3>3
      <3>5. DOMAIN log'[a] = 1..(v + n) /\ log'[a] = Prefix(log'[a], v + n)
        BY <2>4, <3>4 DEF Prefix
      <3>6. \A i \in DOMAIN log[a] : i \in DOMAIN log'[a] /\ log'[a][i] = log[a][i]
        BY <1>2, <2>4
      <3>7. \A i \in 1..(v + n) : i \notin DOMAIN log[a] =>
              i - v \in 1..n /\ log'[a][i] = legs[a][i - v]
        BY <1>2, <2>1, <2>2, <2>4, <3>3, <3>4
      <3>8. \A i \in DOMAIN log'[a] :
              log'[a][i].type = "HoldPlaced" => log'[a][i].counterparty \in Account
        BY <1>3, <2>3, <3>5, <3>6, <3>7
      <3>9. \E k \in Nat : DOMAIN log'[a] = 1..k /\ log'[a] = Prefix(log'[a], k)
        <4>1. v + n \in Nat
          BY <2>1, <2>2
        <4> QED  BY <3>5, <4>1, Zenon
      <3> QED  BY <3>1, <3>6, <3>8, <3>9, Zenon
    <2>7. n = 0 \/ n >= 1
      BY <2>2
    <2> QED  BY <2>5, <2>6, <2>7, Zenon
  <1> QED  BY <1>5, <1>6

(* The result a worker persists carries its request.                         *)
LEMMA ResultIsAResult ==
  ASSUME IInv, NEW w \in Worker, pc[w] # "idle"
  PROVE  ResultOf(w) # Atomic!NoResult
  <1>1. ResultOf(w).cmd = req[w].cmd
    BY DEF ResultOf, Atomic!Result
  <1> QED  BY <1>1, RequestOK DEF Atomic!NoResult

(* A commit, whether or not its answer arrives.                              *)
LEMMA CommitStep ==
  ASSUME IInv, NEW w \in Worker, CommitWrites(w), Leave(w), submits' = submits,
         losses' \in 0..MaxLosses, replies' = replies \/ Answer(req[w], ResultOf(w))
  PROVE  IInv'
  <1> DEFINE id == req[w].id
  <1>1. pc[w] = "commit" /\ now' = now /\ results' = [results EXCEPT ![id] = ResultOf(w)]
    BY DEF CommitWrites
  <1>2. LogOK'
    <2>1. DOMAIN log' = Account
      BY DEF CommitWrites
    <2> QED  BY <2>1, CommittedStream DEF LogOK
  <1>3. Shape' /\ Counters'
    BY <1>1, LeaveOK DEF IInv, Counters
  <1>4. WorkerOK(w)'
    <2>1. Forget(w) /\ pc'[w] \in {"idle", "begin"}
      BY LeaveOK DEF Leave
    <2> QED  BY <1>2, <2>1, ForgetOK DEF IInv
  <1>5. ASSUME NEW x \in Worker, x # w PROVE WorkerOK(x)'
    <2>1. Same(x)
      BY <1>5, LeaveOK
    <2>2. WorkerOK(x)
      BY DEF IInv
    <2>3. ASSUME NEW l \in taken[x] PROVE log'[l[1]] = log[l[1]]
      <3>1. l[1] \in Account
        BY <2>2, PlannedLeg DEF WorkerOK, PlanOK
      <3>2. \A i : <<l[1], i>> \notin taken[w]
        <4> SUFFICES ASSUME NEW i, <<l[1], i>> \in taken[w] PROVE FALSE
          OBVIOUS
        <4> DEFINE k == <<l[1], i>>
        <4>1. k \in taken[w] /\ k[1] = l[1]
          OBVIOUS
        <4> HIDE DEF k
        <4> QED  BY <1>5, <4>1 DEF IInv, Exclusive
      <3> QED  BY <3>1, <3>2, CommittedStream
    <2>4. GrowsBeside(x)
      BY <2>3, CommittedStream DEF GrowsBeside
    <2> QED  BY <2>1, <2>2, <2>4, FrameWorker
  <1>6. Exclusive'
    <2>1. \A x \in Worker : taken'[x] \subseteq taken[x]
      BY LeaveOK DEF Same
    <2> QED  BY <2>1 DEF IInv, Exclusive
  <1>7. ResultsOK'
    <2>1. ResultsOK /\ id \in CommandId
      BY <1>1, RequestOK DEF IInv
    <2>2. DOMAIN results' = CommandId /\ results'[id] = ResultOf(w)
      BY <1>1, <2>1 DEF ResultsOK
    <2>3. \A k \in CommandId \ {id} : results'[k] = results[k]
      BY <1>1, <2>1 DEF ResultsOK
    <2>4. \A x \in Worker : pc'[x] = "commit" => x # w /\ pc[x] = "commit" /\ req'[x] = req[x]
      BY LeaveOK DEF Same
    <2>5. \A x \in Worker : pc'[x] = "commit" => results'[req'[x].id] = Atomic!NoResult
      <3>1. \A x \in Worker : pc'[x] = "commit" => req[x].id \in CommandId
        BY <2>4, RequestOK
      <3> QED  BY <1>1, <2>1, <2>3, <2>4, <3>1 DEF ResultsOK
    <2>6. \A x, y \in Worker :
            pc'[x] = "commit" /\ pc'[y] = "commit" /\ req'[x].id = req'[y].id => x = y
      BY <2>1, <2>4 DEF ResultsOK
    <2>7. \A p \in replies : p.result.outcome # "command_id_conflict" =>
            p.id \in CommandId /\ results'[p.id] = p.result /\ p.result # Atomic!NoResult
      <3>1. results[id] = Atomic!NoResult
        BY <1>1, <2>1 DEF ResultsOK
      <3> QED  BY <2>1, <2>3, <3>1 DEF ResultsOK
    <2>8. \A p \in replies' : p.result.outcome # "command_id_conflict" =>
            p.id \in CommandId /\ results'[p.id] = p.result /\ p.result # Atomic!NoResult
      <3>1. ResultOf(w) # Atomic!NoResult
        BY <1>1, ResultIsAResult
      <3> QED  BY <2>1, <2>2, <2>7, <3>1 DEF Answer
    <2>9. Atomic!NoResult' = Atomic!NoResult
      BY DEF Atomic!NoResult
    <2> QED  BY <2>2, <2>5, <2>6, <2>8, <2>9 DEF ResultsOK
  <1> QED  BY <1>2, <1>3, <1>4, <1>5, <1>6, <1>7 DEF IInv

(* Starting over after a lost race keeps the invariant.                      *)
LEMMA RetryRaceStep ==
  ASSUME IInv, NEW w \in Worker, RetryRace(w)
  PROVE  IInv'
  <1>1. /\ GoTo(w, "begin") /\ Forget(w) /\ attempt[w] <= MaxRaceRetries
        /\ attempt' = [attempt EXCEPT ![w] = @ + 1]
        /\ UNCHANGED <<db, req, replies, bounds>>
    BY DEF RetryRace
  <1>2. pc[w] # "idle"
    BY DEF RetryRace, LosesRace
  <1>3. "begin" \in Stages \ {"idle"}
    BY DEF Stages
  <1>4. /\ pc'[w] = "begin" /\ \A x \in Worker \ {w} : pc'[x] = pc[x]
        /\ pc' \in [Worker -> Stages] /\ req' \in [Worker -> Requests \cup {NoRequest}]
        /\ \A x \in Worker : pc'[x] = "idle" <=> req'[x] = NoRequest
    BY <1>1, <1>2, <1>3, MoveOK
  <1>5. Local(w)
    BY <1>1, <1>4 DEF IInv, Shape, Local, Same, Forget, db
  <1>6. Shape'
    BY <1>1, <1>4 DEF IInv, Shape, Forget
  <1>7. Counters'
    BY <1>1, UowAssumption DEF IInv, Counters, Forget, db, bounds
  <1>8. WorkerOK(w)'
    <2>1. LogOK'
      BY <1>1 DEF IInv, LogOK, db
    <2> QED  BY <1>1, <1>4, <2>1, ForgetOK DEF IInv
  <1>9. Exclusive' /\ ResultsOK'
    <2>1. taken'[w] = {}
      BY <1>1 DEF IInv, Shape, Forget
    <2> QED  BY <1>1, <1>4, <1>5, <2>1, TakesNothing, TellsNothing DEF db
  <1> QED  BY <1>5, <1>6, <1>7, <1>8, <1>9, LocalStep

(* Giving up and losing the connection: roll back and answer nobody.         *)
LEMMA RollbackStep ==
  ASSUME IInv, NEW w \in Worker, Leave(w), UNCHANGED <<db, replies, submits>>,
         losses' \in 0..MaxLosses
  PROVE  IInv'
  <1>1. Local(w) /\ pc'[w] # "commit"
    BY LeaveOK DEF Local, db
  <1>2. ResultsOK'
    BY <1>1, TellsNothing DEF db
  <1> QED  BY <1>2, LeaveStep DEF db

(* So does every step of execute().                                          *)
LEMMA WorkStep ==
  ASSUME IInv, NEW w \in Worker, Work(w)
  PROVE  IInv'
  <1>1. ASSUME NEW l \in ToInsert(w), AppendEvent(w, l) PROVE IInv'
    BY <1>1, AppendEventStep
  <1>2. CASE Commit(w)
    BY <1>2, CommitStep DEF Commit, IInv, Counters, bounds
  <1>3. CASE GiveUpRace(w) \/ AppendFails(w)
    BY <1>3, RollbackStep DEF GiveUpRace, AppendFails, IInv, Counters, bounds
  <1> QED
    BY <1>1, <1>2, <1>3, FindNoResultStep, ReplayStep, IdConflictStep, FoldAnchorStep,
       ReadOpenHoldStep, ReadLegsStep, FoldOtherStep, ReadRevertedByStep,
       PersistResultStep, RetryRaceStep DEF Work

(* Time passing keeps the invariant.                                         *)
LEMMA TickStep ==
  ASSUME IInv, Tick
  PROVE  IInv'
  <1>1. /\ now < MaxNow /\ now' = now + 1
        /\ UNCHANGED <<log, results, pc, req, attempt, at, folds, hold, orig,
                       plan, taken, replies, submits, losses>>
    BY DEF Tick, reads, bounds
  <1>2. LogOK' /\ Shape' /\ Exclusive' /\ ResultsOK'
    BY <1>1 DEF IInv, LogOK, Shape, Exclusive, ResultsOK
  <1>3. Counters'
    BY <1>1, UowAssumption DEF IInv, Counters
  <1>4. ASSUME NEW x \in Worker PROVE WorkerOK(x)'
    <2>1. Same(x) /\ GrowsBeside(x) /\ WorkerOK(x)
      BY <1>1 DEF Same, GrowsBeside, IInv
    <2> QED  BY <2>1, FrameWorker
  <1> QED  BY <1>2, <1>3, <1>4 DEF IInv

(* So does a stuttering step.                                                *)
LEMMA StutterStep ==
  ASSUME IInv, UNCHANGED vars
  PROVE  IInv'
  <1>1. UNCHANGED <<log, results, now, pc, req, attempt, at, folds, hold, orig,
                    plan, taken, replies, submits, losses>>
    BY DEF vars, db, reads, bounds
  <1>2. LogOK' /\ Shape' /\ Counters' /\ Exclusive' /\ ResultsOK'
    BY <1>1 DEF IInv, LogOK, Shape, Counters, Exclusive, ResultsOK
  <1>3. ASSUME NEW x \in Worker PROVE WorkerOK(x)'
    <2>1. Same(x) /\ GrowsBeside(x) /\ WorkerOK(x)
      BY <1>1 DEF Same, GrowsBeside, IInv
    <2> QED  BY <2>1, FrameWorker
  <1> QED  BY <1>2, <1>3 DEF IInv

(* The invariant holds initially.                                            *)
LEMMA InitOK == Init => IInv
  <1> SUFFICES ASSUME Init PROVE IInv
    OBVIOUS
  <1>1. LogOK
    <2>1. DOMAIN log = Account
      BY DEF Init, Atomic!Init
    <2>2. ASSUME NEW a \in Account
          PROVE  /\ \E n \in Nat : DOMAIN log[a] = 1..n /\ log[a] = Prefix(log[a], n)
                 /\ \A i \in DOMAIN log[a] : log[a][i].type # "HoldPlaced"
      <3> DEFINE e == Event("Deposited", Genesis[a], NoId)
      <3>1. log[a] = EmptyStream \/ log[a] = <<e>>
        <4>1. log = [b \in Account |->
                       IF Genesis[b] = 0 THEN EmptyStream
                       ELSE <<Event("Deposited", Genesis[b], NoId)>>]
          <5>1. EmptyStream = Atomic!EmptyStream
            BY DEF EmptyStream, Atomic!EmptyStream
          <5>2. \A t, n, c : Event(t, n, c) = Atomic!Event(t, n, c)
            BY DEF Event, Atomic!Event, NoAccount, Atomic!NoAccount
          <5> QED  BY <5>1, <5>2 DEF Init, Atomic!Init
        <4>2. log[a] = IF Genesis[a] = 0 THEN EmptyStream ELSE <<e>>
          BY <4>1, Zenon
        <4> HIDE DEF e
        <4> QED  BY <4>2
      <3>2. CASE log[a] = EmptyStream
        <4>1. EmptyStream = Prefix(EmptyStream, 0) /\ DOMAIN EmptyStream = 1..0
          BY DEF EmptyStream, Prefix
        <4> QED  BY <3>2, <4>1
      <3>3. CASE log[a] = <<e>>
        <4>1. e.type # "HoldPlaced"
          BY DEF Event
        <4> HIDE DEF e
        <4>2. DOMAIN <<e>> = 1..1 /\ <<e>>[1] = e
          OBVIOUS
        <4>3. <<e>> = Prefix(<<e>>, 1)
          BY DEF Prefix
        <4> QED  BY <3>3, <4>1, <4>2, <4>3
      <3> QED  BY <3>1, <3>2, <3>3
    <2> QED  BY <2>1, <2>2 DEF LogOK
  <1>2. Shape
    BY NotARequest DEF Init, Shape, Stages
  <1>3. Counters
    BY UowAssumption DEF Init, Atomic!Init, Counters
  <1>4. Exclusive /\ ResultsOK
    BY DEF Init, Atomic!Init, Exclusive, ResultsOK
  <1>5. ASSUME NEW w \in Worker PROVE WorkerOK(w)
    <2>1. /\ folds[w] = UnknownAccounts /\ hold[w] = NoHold /\ orig[w] = {}
          /\ plan[w] = Rejected("none") /\ taken[w] = {} /\ pc[w] = "idle"
      BY DEF Init
    <2>2. FoldsOK(w)
      <3>1. DOMAIN folds[w] = Account /\ \A a \in Account : folds[w][a] = Fold(EmptyStream)
        BY <2>1 DEF UnknownAccounts
      <3>2. \A a \in Account : /\ folds[w][a].version = 0
                               /\ folds[w][a] = Fold(Prefix(log[a], 0))
        BY <3>1, EmptyFold
      <3> QED  BY <3>1, <3>2 DEF FoldsOK
    <2>3. PlanOK(w)
      BY <2>1, RejectedPlan DEF PlanOK
    <2> QED  BY <2>1, <2>2, <2>3 DEF WorkerOK, ReadsOK, TakenOK
  <1> QED  BY <1>1, <1>2, <1>3, <1>4, <1>5 DEF IInv

(* Every step of the unit of work preserves the inductive invariant.         *)
THEOREM Invariance == Spec => []IInv
  <1>1. IInv /\ [Next]_vars => IInv'
    <2> SUFFICES ASSUME IInv, [Next]_vars PROVE IInv'
      OBVIOUS
    <2>1. CASE Tick
      BY <2>1, TickStep
    <2>2. ASSUME NEW w \in Worker, NEW r \in Requests, Submit(w, r) PROVE IInv'
      BY <2>2, SubmitStep
    <2>3. ASSUME NEW w \in Worker, Work(w) PROVE IInv'
      BY <2>3, WorkStep
    <2>4. ASSUME NEW w \in Worker, LoseConnection(w) PROVE IInv'
      <3>1. losses' \in 0..MaxLosses
        BY <2>4, UowAssumption DEF LoseConnection, IInv, Counters
      <3> QED  BY <2>4, <3>1, RollbackStep DEF LoseConnection
    <2>5. ASSUME NEW w \in Worker, LoseAnswer(w) PROVE IInv'
      <3>1. losses' \in 0..MaxLosses
        BY <2>5, UowAssumption DEF LoseAnswer, IInv, Counters
      <3> QED  BY <2>5, <3>1, CommitStep DEF LoseAnswer
    <2>6. CASE UNCHANGED vars
      BY <2>6, StutterStep
    <2> QED  BY <2>1, <2>2, <2>3, <2>4, <2>5, <2>6 DEF Next
  <1> QED  BY <1>1, InitOK, PTL DEF Spec

-----------------------------------------------------------------------------
(* The theorems *)

(* Type correctness of the unit of work.                                     *)
THEOREM TypeCorrect == Spec => []TypeOK
  <1>1. IInv => TypeOK
    BY DEF IInv, Shape, Counters, WorkerOK, FoldsOK, PlanOK, TypeOK
  <1> QED  BY <1>1, Invariance, PTL

(* append_event leaves no gap in any stream, however many commands race.     *)
THEOREM Dense == Spec => []StreamsDense
  <1>1. IInv => StreamsDense
    <2> SUFFICES ASSUME IInv, NEW a \in Account
                 PROVE  DOMAIN log[a] = 1..Cardinality(DOMAIN log[a])
      BY DEF StreamsDense
    <2>1. PICK n \in Nat : DOMAIN log[a] = 1..n
      BY DEF IInv, LogOK
    <2>2. Cardinality(1..n) = n
      BY FS_Interval, SMT
    <2> QED  BY <2>1, <2>2
  <1> QED  BY <1>1, Invariance, PTL

(* A command that has a row in a stream decided on all of that stream.       *)
THEOREM DecidesOnTheHead == Spec => []NoLostUpdate
  <1>1. IInv => NoLostUpdate
    <2> SUFFICES ASSUME IInv, NEW w \in Worker, NEW l \in taken[w]
                 PROVE  l[1] \in Account /\ folds[w][l[1]] = Fold(log[l[1]])
      BY DEF NoLostUpdate
    <2>1. LogOK /\ WorkerOK(w)
      BY DEF IInv
    <2>2. l[1] \in Account
      BY <2>1, PlannedLeg DEF WorkerOK, PlanOK
    <2>3. folds[w][l[1]].version + 1 \notin DOMAIN log[l[1]]
      BY <2>1 DEF WorkerOK, TakenOK
    <2> QED  BY <2>1, <2>2, <2>3, FoldAtHead DEF WorkerOK
  <1> QED  BY <1>1, Invariance, PTL

(* Waiting for a row's key climbs in (account, seq) order: no deadlock.      *)
THEOREM NoCircularWait == Spec => []WaitsAscend
  <1>1. IInv => WaitsAscend
    <2> SUFFICES ASSUME IInv, NEW w \in Worker, NEW x \in Worker, WaitsFor(w, x)
                 PROVE  /\ pc[w] = "persist" => pc[x] = "commit"
                        /\ pc[x] = "append" =>
                             \A l \in ToInsert(w), m \in ToInsert(x) :
                               IsNextLeg(w, l) /\ IsNextLeg(x, m) =>
                                 Precedes(KeyOf(w, l), KeyOf(x, m))
      BY DEF WaitsAscend
    <2>1. pc[w] = "persist" => pc[x] = "commit"
      BY DEF WaitsFor, HasResultKey
    <2>2. ASSUME pc[x] = "append", NEW l \in ToInsert(w), NEW m \in ToInsert(x),
                 IsNextLeg(w, l), IsNextLeg(x, m)
          PROVE  Precedes(KeyOf(w, l), KeyOf(x, m))
      <3>1. PICK n \in ToInsert(w) : IsNextLeg(w, n) /\ HasKey(x, KeyOf(w, n))
        BY <2>2 DEF WaitsFor, HasResultKey
      <3>2. GoodPlan(plan[w]) /\ GoodPlan(plan[x]) /\ WorkerOK(x)
        BY DEF IInv, WorkerOK, PlanOK
      <3>3. /\ l[1] \in Account /\ l[2] \in Nat /\ n[1] \in Account /\ n[2] \in Nat
            /\ m[1] \in Account /\ m[2] \in Nat
        BY <3>2, PlannedLeg DEF ToInsert
      <3>4. n = l
        <4> SUFFICES ASSUME n # l PROVE FALSE
          OBVIOUS
        <4>1. Precedes(l, n) /\ Precedes(n, l)
          BY <2>2, <3>1 DEF IsNextLeg
        <4>2. l[1] \in Nat /\ n[1] \in Nat
          BY <3>3, DomainAssumption
        <4> QED  BY <3>3, <4>1, <4>2, SMT DEF Precedes
      <3>5. PICK k \in taken[x] : KeyOf(x, k) = KeyOf(w, l)
        BY <3>1, <3>4 DEF HasKey
      <3>6. Precedes(k, m)
        BY <3>2 DEF WorkerOK, TakenOK
      <3>7. k[1] \in Account /\ k[2] \in Nat
        BY <3>2, PlannedLeg DEF WorkerOK, PlanOK
      <3>8. folds[x][k[1]].version \in Nat
        BY <3>2, <3>7 DEF WorkerOK, FoldsOK
      <3>9. Precedes(KeyOf(x, k), KeyOf(x, m))
        <4>1. CASE k[1] < m[1]
          BY <4>1 DEF Precedes, KeyOf
        <4>2. CASE k[1] = m[1] /\ k[2] < m[2]
          <5>1. folds[x][k[1]].version + k[2] < folds[x][m[1]].version + m[2]
            BY <3>3, <3>7, <3>8, <4>2
          <5> QED  BY <3>3, <3>7, <4>2, <5>1 DEF Precedes, KeyOf
        <4> QED  BY <3>6, <4>1, <4>2 DEF Precedes
      <3> QED  BY <3>5, <3>9
    <2> QED  BY <2>1, <2>2
  <1> QED  BY <1>1, Invariance, PTL

(* Every answer given under a command id is and stays the stored one.        *)
THEOREM AnswersAreDurable == Spec => []RepliesDurable
  <1>1. IInv => RepliesDurable
    BY DEF IInv, ResultsOK, RepliesDurable
  <1> QED  BY <1>1, Invariance, PTL

-----------------------------------------------------------------------------
(* What a decision plans *)

HoldKinds == {"PostHold", "VoidHold", "ExpireHold"}

OneOrTwo(s) == (\E e : s = <<e>>) \/ (\E e, f : s = <<e, f>>)

(* The row e of the plan legs, for a request r given the hold h and the set  *)
(* of legs l.                                                                *)
RowFor(e, legs, h, l, r) ==
  LET c == r.cmd
  IN  /\ e.group \in {NoId, r.id} \/ (c.kind \in HoldKinds /\ h # NoHold /\ e.group = c.hold)
      /\ e.type = "HoldPlaced" =>
           e.group = r.id /\ DOMAIN legs = {c.account} /\ legs[c.account] = <<e>>
      /\ e.type \in MovementTypes /\ e.group # r.id =>
           /\ c.kind \in HoldKinds /\ h # NoHold /\ e.group = c.hold
           /\ legs[c.account][1].type = "HoldPosted" /\ legs[c.account][1].group = c.hold
      /\ e.reverts # NoId => c.kind = "Revert" /\ e.reverts = c.transfer

LegsFor(legs, h, l, r) ==
  /\ r.cmd.account \in DOMAIN legs
  /\ r.cmd.kind = "Revert" => DOMAIN legs = {x.account : x \in l}
  /\ \A a \in DOMAIN legs : OneOrTwo(legs[a])
  /\ \A a \in DOMAIN legs : \A k \in DOMAIN legs[a] : RowFor(legs[a][k], legs, h, l, r)

PlanFor(d, h, l, r) ==
  IF d.outcome = "accepted" THEN LegsFor(d.legs, h, l, r)
  ELSE d \in {Rejected("insufficient_funds"), Rejected("domain_rejected")}

(* The errors a decision meets are those of the code's two error classes.    *)
LEMMA ErrorsAre ==
  ASSUME NEW s, NEW n
  PROVE  /\ DebitError(s, n) \in {"none", "insufficient_funds", "domain_rejected"}
         /\ CreditError(s, n) \in {"none", "insufficient_funds", "domain_rejected"}
  BY DEF DebitError, CreditError

(* A rejection is a plan.                                                    *)
LEMMA RejectedFor ==
  ASSUME NEW h, NEW l, NEW r, NEW o \in {"insufficient_funds", "domain_rejected"}
  PROVE  PlanFor(Rejected(o), h, l, r) /\ Rejected(o).outcome # "accepted"
  BY DEF PlanFor, Rejected

(* So is an acceptance with legs for the request.                            *)
LEMMA AcceptedFor ==
  ASSUME NEW h, NEW l, NEW r, NEW legs, LegsFor(legs, h, l, r)
  PROVE  PlanFor(Accepted(legs), h, l, r) /\ Accepted(legs).legs = legs
  BY DEF PlanFor, Accepted

(* One row on the anchor.                                                    *)
LEMMA OneRowFor ==
  ASSUME NEW h, NEW l, NEW r, NEW e, NEW legs, legs = [a \in {r.cmd.account} |-> <<e>>],
         r.cmd.kind # "Revert", RowFor(e, legs, h, l, r)
  PROVE  LegsFor(legs, h, l, r)
  <1>1. DOMAIN legs = {r.cmd.account} /\ legs[r.cmd.account] = <<e>>
    OBVIOUS
  <1>2. \A k \in DOMAIN <<e>> : <<e>>[k] = e
    BY OneEvent
  <1>3. OneOrTwo(<<e>>)
    BY DEF OneOrTwo
  <1> QED  BY <1>1, <1>2, <1>3 DEF LegsFor

(* Deposits and withdrawals.                                                 *)
LEMMA DecideFor ==
  ASSUME NEW s, NEW h, NEW l, NEW r, r.cmd.kind \in {"Deposit", "Withdraw"}
  PROVE  PlanFor(Decide(s, r.cmd, r.id), h, l, r)
  <1> DEFINE c == r.cmd
             error == IF c.kind = "Deposit" THEN CreditError(s, c.amount)
                                            ELSE DebitError(s, c.amount)
             e == Event(IF c.kind = "Deposit" THEN "Deposited" ELSE "Withdrawn", c.amount, r.id)
             legs == [a \in {c.account} |-> <<e>>]
  <1>1. Decide(s, c, r.id) = IF error # "none" THEN Rejected(error) ELSE Accepted(legs)
    BY Zenon DEF Decide
  <1>2. e.group = NoId /\ e.reverts = NoId /\ e.type \notin MovementTypes \cup {"HoldPlaced"}
    BY DEF Event, MovementTypes
  <1>3. error \in {"none", "insufficient_funds", "domain_rejected"}
    BY ErrorsAre
  <1> HIDE DEF e, error
  <1>4. LegsFor(legs, h, l, r)
    <2>1. RowFor(e, legs, h, l, r)
      <3> HIDE DEF legs
      <3> QED  BY <1>2 DEF RowFor
    <2> QED  BY <2>1, OneRowFor
  <1> HIDE DEF legs, c
  <1> QED  BY <1>1, <1>3, <1>4, RejectedFor, AcceptedFor DEF c

(* Holds.                                                                    *)
LEMMA DecideHoldFor ==
  ASSUME NEW s, NEW t, NEW h, NEW l, NEW r, r.cmd.kind = "Hold"
  PROVE  PlanFor(DecideHold(s, r.cmd, r.id, t), h, l, r)
  <1> DEFINE c == r.cmd
             error == DebitError(s, c.amount)
             e == [GroupedEvent("HoldPlaced", c.amount, r.id, r.id, c.target)
                     EXCEPT !.expires = t + c.ttl]
             legs == [a \in {c.account} |-> <<e>>]
  <1>1. DecideHold(s, c, r.id, t) = IF error # "none" THEN Rejected(error) ELSE Accepted(legs)
    BY Zenon DEF DecideHold
  <1>2. e.group = r.id /\ e.reverts = NoId /\ e.type = "HoldPlaced"
    BY DEF GroupedEvent, Event
  <1>3. error \in {"none", "insufficient_funds", "domain_rejected"}
    BY ErrorsAre
  <1> HIDE DEF e, error
  <1>4. LegsFor(legs, h, l, r)
    <2>1. DOMAIN legs = {c.account} /\ legs[c.account] = <<e>>
      OBVIOUS
    <2>2. RowFor(e, legs, h, l, r)
      <3> HIDE DEF legs
      <3> QED  BY <1>2, <2>1 DEF RowFor, MovementTypes
    <2> QED  BY <2>2, OneRowFor
  <1> HIDE DEF legs, c
  <1> QED  BY <1>1, <1>3, <1>4, RejectedFor, AcceptedFor DEF c

(* Releases of a hold.                                                       *)
LEMMA DecideReleaseFor ==
  ASSUME NEW s, NEW t, NEW h, NEW l, NEW r, r.cmd.kind \in {"VoidHold", "ExpireHold"}
  PROVE  PlanFor(DecideReleaseHold(s, h, r.cmd, r.id, t), h, l, r)
  <1> DEFINE c == r.cmd
             reason == IF c.kind = "VoidHold" THEN "voided" ELSE "expired"
             e == [GroupedEvent("HoldReleased", h.amount, r.id, c.hold, NoAccount)
                     EXCEPT !.reason = reason]
             legs == [a \in {c.account} |-> <<e>>]
  <1>1. \/ DecideReleaseHold(s, h, c, r.id, t) = Rejected("domain_rejected")
        \/ h # NoHold /\ DecideReleaseHold(s, h, c, r.id, t) = Accepted(legs)
    BY Zenon DEF DecideReleaseHold
  <1>2. e.group = c.hold /\ e.reverts = NoId /\ e.type = "HoldReleased"
    BY DEF GroupedEvent, Event
  <1> HIDE DEF e
  <1>3. h # NoHold => LegsFor(legs, h, l, r)
    <2>1. h # NoHold => RowFor(e, legs, h, l, r)
      <3> HIDE DEF legs
      <3> QED  BY <1>2 DEF RowFor, MovementTypes, HoldKinds
    <2> QED  BY <2>1, OneRowFor
  <1> HIDE DEF legs, c
  <1> QED  BY <1>1, <1>3, RejectedFor, AcceptedFor DEF c

(* The least of some naturals is one of them.                                *)
LEMMA MinIn ==
  ASSUME NEW T, T \subseteq Nat, T # {}
  PROVE  Min(T) \in T
  BY MinExists DEF Min

(* The legs of a transfer or a posting set name the anchor.                  *)
LEMMA LegsNameAnchor ==
  ASSUME NEW c, ValidCommand(c), c.kind \in {"Transfer", "Post"}
  PROVE  /\ DOMAIN LegsOf(c) \subseteq Nat
         /\ \E i \in DOMAIN LegsOf(c) : LegsOf(c)[i].account = c.account
  <1>1. CASE c.kind = "Transfer"
    <2>1. LegsOf(c) = <<Leg(c.account, c.amount, "debit"), Leg(c.target, c.amount, "credit")>>
      BY <1>1 DEF LegsOf
    <2>2. DOMAIN LegsOf(c) = 1..2 /\ LegsOf(c)[1] = Leg(c.account, c.amount, "debit")
      BY <2>1
    <2>3. Leg(c.account, c.amount, "debit").account = c.account
      BY DEF Leg
    <2> QED  BY <2>2, <2>3
  <1>2. CASE c.kind = "Post"
    <2>1. LegsOf(c) = c.postings /\ ValidPostings(c)
      BY <1>2 DEF LegsOf, ValidCommand, ValidFollowUp
    <2> QED  BY <2>1 DEF ValidPostings, MaxLegs
  <1> QED  BY <1>1, <1>2

Agree(s, s2, legs) == \A a \in DOMAIN legs : s2[a] = s[a]

(* Transfers and posting sets; on states that agree on the accounts of the   *)
(* plan the decision is the same.                                            *)
LEMMA DecidePostingsFor ==
  ASSUME NEW s, NEW s2, NEW h, NEW l, NEW r, ValidCommand(r.cmd),
         r.cmd.kind \in {"Transfer", "Post"},
         NEW d, d = DecidePostings(s, r.cmd, r.id)
  PROVE  /\ PlanFor(d, h, l, r)
         /\ d.outcome = "accepted" /\ Agree(s, s2, d.legs) =>
              DecidePostings(s2, r.cmd, r.id) = d
  <1> DEFINE c == r.cmd
             legs == LegsOf(c)
             accounts == {legs[i].account : i \in DOMAIN legs}
             Error(i) == IF legs[i].direction = "debit"
                         THEN DebitError(s[legs[i].account], legs[i].amount)
                         ELSE CreditError(s[legs[i].account], legs[i].amount)
             bad == {i \in DOMAIN legs : Error(i) # "none"}
             Error2(i) == IF legs[i].direction = "debit"
                          THEN DebitError(s2[legs[i].account], legs[i].amount)
                          ELSE CreditError(s2[legs[i].account], legs[i].amount)
             bad2 == {i \in DOMAIN legs : Error2(i) # "none"}
             At(a) == CHOOSE i \in DOMAIN legs : legs[i].account = a
             EventOf(i) ==
               GroupedEvent(IF legs[i].direction = "debit"
                            THEN "TransferDebited" ELSE "TransferCredited",
                            legs[i].amount, r.id, r.id, CounterpartyFor(c, legs, i))
             planned == [a \in accounts |-> <<EventOf(At(a))>>]
  <1>1. d = IF bad # {} THEN Rejected(Error(Min(bad))) ELSE Accepted(planned)
    BY Zenon DEF DecidePostings
  <1>2. DecidePostings(s2, c, r.id) =
          IF bad2 # {} THEN Rejected(Error2(Min(bad2))) ELSE Accepted(planned)
    BY Zenon DEF DecidePostings
  <1>3. bad # {} => Error(Min(bad)) \in {"insufficient_funds", "domain_rejected"}
    <2>1. bad \subseteq Nat
      BY LegsNameAnchor
    <2>2. \A i : Error(i) \in {"none", "insufficient_funds", "domain_rejected"}
      BY ErrorsAre
    <2>3. \A i \in bad : Error(i) # "none"
      OBVIOUS
    <2> HIDE DEF bad, Error
    <2> QED  BY <2>1, <2>2, <2>3, MinIn
  <1>4. LegsFor(planned, h, l, r)
    <2>1. c.account \in accounts
      BY LegsNameAnchor
    <2>2. \A i : /\ EventOf(i).group = r.id /\ EventOf(i).reverts = NoId
                 /\ EventOf(i).type \in {"TransferDebited", "TransferCredited"}
      BY DEF GroupedEvent, Event
    <2> HIDE DEF accounts, EventOf, At
    <2>3. DOMAIN planned = accounts /\ \A a \in accounts : planned[a] = <<EventOf(At(a))>>
      OBVIOUS
    <2> HIDE DEF planned
    <2>4. \A i : RowFor(EventOf(i), planned, h, l, r)
      BY <2>2 DEF RowFor
    <2>5. \A e : OneOrTwo(<<e>>)
      BY DEF OneOrTwo
    <2> QED  BY <2>1, <2>3, <2>4, <2>5, OneEvent DEF LegsFor
  <1>5. PlanFor(d, h, l, r)
    <2> HIDE DEF planned, bad, Error
    <2> QED  BY <1>1, <1>3, <1>4, RejectedFor, AcceptedFor
  <1>6. ASSUME d.outcome = "accepted", \A a \in DOMAIN d.legs : s2[a] = s[a]
        PROVE  DecidePostings(s2, c, r.id) = d
    <2>1. bad = {} /\ d = Accepted(planned)
      <3> HIDE DEF planned, bad, Error
      <3> QED  BY <1>1, <1>3, <1>6, RejectedFor
    <2>2. DOMAIN d.legs = accounts
      <3>1. DOMAIN planned = accounts
        OBVIOUS
      <3> HIDE DEF planned
      <3> QED  BY <2>1, <3>1 DEF Accepted
    <2>3. \A i \in DOMAIN legs : s2[legs[i].account] = s[legs[i].account]
      BY <1>6, <2>2
    <2>4. \A i \in DOMAIN legs : Error2(i) = Error(i)
      BY <2>3
    <2>5. bad2 = {}
      <3> HIDE DEF Error, Error2
      <3> QED  BY <2>1, <2>4
    <2> HIDE DEF planned, bad2, Error2
    <2> QED  BY <1>2, <2>1, <2>5
  <1> QED  BY <1>5, <1>6 DEF Agree

(* Captures of a hold.                                                       *)
LEMMA DecidePostHoldFor ==
  ASSUME NEW s, NEW s2, NEW t, NEW h, NEW l, NEW r, r.cmd.kind = "PostHold",
         NEW d, d = DecidePostHold(s, h, r.cmd, r.id, t)
  PROVE  /\ PlanFor(d, h, l, r)
         /\ d.outcome = "accepted" /\ Agree(s, s2, d.legs) =>
              DecidePostHold(s2, h, r.cmd, r.id, t) = d
  <1> DEFINE c == r.cmd
             amount == IF c.amount = 0 THEN h.amount ELSE c.amount
             posted == GroupedEvent("HoldPosted", amount, r.id, c.hold, h.counterparty)
             rest == [GroupedEvent("HoldReleased", h.amount - amount, r.id, c.hold, NoAccount)
                        EXCEPT !.reason = "partial"]
             credit == GroupedEvent("TransferCredited", amount, r.id, c.hold, c.account)
             planned == [a \in {c.account, h.counterparty} |->
                           IF a # c.account THEN <<credit>>
                           ELSE IF amount < h.amount THEN <<posted, rest>>
                           ELSE <<posted>>]
             Refused(x, y) == \/ h = NoHold \/ t >= h.expires \/ amount > h.amount
                              \/ x.version = MaxVersion
                              \/ h.amount > x.held \/ h.amount > x.balance
                              \/ CreditError(y, amount) # "none"
  <1>1. d = IF Refused(s[c.account], s[h.counterparty]) THEN Rejected("domain_rejected")
            ELSE Accepted(planned)
    BY Zenon DEF DecidePostHold
  <1>2. DecidePostHold(s2, h, c, r.id, t) =
          IF Refused(s2[c.account], s2[h.counterparty]) THEN Rejected("domain_rejected")
          ELSE Accepted(planned)
    BY Zenon DEF DecidePostHold
  <1>3. /\ posted.type = "HoldPosted" /\ posted.group = c.hold /\ posted.reverts = NoId
        /\ rest.type = "HoldReleased" /\ rest.group = c.hold /\ rest.reverts = NoId
        /\ credit.type = "TransferCredited" /\ credit.group = c.hold /\ credit.reverts = NoId
    BY DEF GroupedEvent, Event
  <1>4. ASSUME h # NoHold PROVE LegsFor(planned, h, l, r)
    <2> HIDE DEF posted, rest, credit, amount
    <2>1. DOMAIN planned = {c.account, h.counterparty}
      OBVIOUS
    <2>2. \A a \in DOMAIN planned : planned[a] \in {<<credit>>, <<posted, rest>>, <<posted>>}
      OBVIOUS
    <2>3. planned[c.account] \in {<<posted, rest>>, <<posted>>}
      OBVIOUS
    <2> HIDE DEF planned
    <2>4. planned[c.account][1] = posted
      BY <2>3
    <2>5. \A e \in {posted, rest, credit} : RowFor(e, planned, h, l, r)
      BY <1>3, <1>4, <2>4 DEF RowFor, HoldKinds, MovementTypes
    <2>6. \A v \in {<<credit>>, <<posted, rest>>, <<posted>>} :
            OneOrTwo(v) /\ \A k \in DOMAIN v : v[k] \in {posted, rest, credit}
      BY OneEvent, TwoEvents DEF OneOrTwo
    <2> QED  BY <2>1, <2>2, <2>5, <2>6 DEF LegsFor
  <1>5. h = NoHold => Refused(s[c.account], s[h.counterparty])
    OBVIOUS
  <1>6. DOMAIN planned = {c.account, h.counterparty}
    OBVIOUS
  <1> HIDE DEF planned, Refused
  <1>7. PlanFor(d, h, l, r)
    BY <1>1, <1>4, <1>5, RejectedFor, AcceptedFor
  <1>8. ASSUME d.outcome = "accepted", \A a \in DOMAIN d.legs : s2[a] = s[a]
        PROVE  DecidePostHold(s2, h, c, r.id, t) = d
    <2>1. ~Refused(s[c.account], s[h.counterparty]) /\ d = Accepted(planned)
      BY <1>1, <1>8, RejectedFor
    <2>2. DOMAIN d.legs = {c.account, h.counterparty}
      BY <1>6, <2>1 DEF Accepted
    <2>3. s2[c.account] = s[c.account] /\ s2[h.counterparty] = s[h.counterparty]
      BY <1>8, <2>2
    <2> QED  BY <1>2, <2>1, <2>3
  <1> QED  BY <1>7, <1>8 DEF Agree

(* Reversals.                                                                *)
LEMMA DecideRevertFor ==
  ASSUME NEW s, NEW s2, NEW h, NEW l, NEW r, NEW rv, r.cmd.kind = "Revert",
         \A x \in l : x.account \in Account,
         NEW d, d = DecideRevert(s, l, r.cmd, r.id, rv)
  PROVE  /\ PlanFor(d, h, l, r)
         /\ d.outcome = "accepted" => ~rv /\ l # {}
         /\ d.outcome = "accepted" /\ Agree(s, s2, d.legs) =>
              DecideRevert(s2, l, r.cmd, r.id, FALSE) = d
  <1> DEFINE c == r.cmd
             accounts == {x.account : x \in l}
             Original(a) == (CHOOSE x \in l : x.account = a).event
             Received(a) == BalanceSign(Original(a).type) > 0
             Error(a) == IF Received(a) THEN DebitError(s[a], Original(a).amount)
                                        ELSE CreditError(s[a], Original(a).amount)
             bad == {a \in accounts : Error(a) # "none"}
             Error2(a) == IF Received(a) THEN DebitError(s2[a], Original(a).amount)
                                         ELSE CreditError(s2[a], Original(a).amount)
             bad2 == {a \in accounts : Error2(a) # "none"}
             Mirror(a) ==
               [GroupedEvent(IF Received(a) THEN "ReversalDebited" ELSE "ReversalCredited",
                             Original(a).amount, r.id, r.id, Original(a).counterparty)
                  EXCEPT !.reverts = c.transfer]
             planned == [a \in accounts |-> <<Mirror(a)>>]
             Refused(v) == l = {} \/ v \/ c.account \notin accounts \/ Received(c.account)
  <1>1. d = IF Refused(rv) THEN Rejected("domain_rejected")
            ELSE IF bad # {} THEN Rejected(Error(Min(bad))) ELSE Accepted(planned)
    BY Zenon DEF DecideRevert
  <1>2. DecideRevert(s2, l, c, r.id, FALSE) =
          IF Refused(FALSE) THEN Rejected("domain_rejected")
          ELSE IF bad2 # {} THEN Rejected(Error2(Min(bad2))) ELSE Accepted(planned)
    BY Zenon DEF DecideRevert
  <1>3. bad # {} => Error(Min(bad)) \in {"insufficient_funds", "domain_rejected"}
    <2>1. bad \subseteq Nat
      BY DomainAssumption
    <2>2. \A a : Error(a) \in {"none", "insufficient_funds", "domain_rejected"}
      BY ErrorsAre
    <2>3. \A a \in bad : Error(a) # "none"
      OBVIOUS
    <2> HIDE DEF bad, Error
    <2> QED  BY <2>1, <2>2, <2>3, MinIn
  <1>4. ~Refused(rv) => c.account \in accounts /\ l # {} /\ ~rv /\ ~Refused(FALSE)
    OBVIOUS
  <1>5. c.account \in accounts => LegsFor(planned, h, l, r)
    <2>1. \A a : /\ Mirror(a).group = r.id /\ Mirror(a).reverts = c.transfer
                 /\ Mirror(a).type \in {"ReversalDebited", "ReversalCredited"}
      <3> HIDE DEF Received, Original
      <3> QED  BY DEF GroupedEvent, Event
    <2> HIDE DEF Mirror
    <2>2. DOMAIN planned = accounts /\ \A a \in accounts : planned[a] = <<Mirror(a)>>
      OBVIOUS
    <2> HIDE DEF planned
    <2>3. \A a : RowFor(Mirror(a), planned, h, l, r)
      BY <2>1 DEF RowFor
    <2>4. \A e : OneOrTwo(<<e>>)
      BY DEF OneOrTwo
    <2>5. accounts = {x.account : x \in l}
      OBVIOUS
    <2> HIDE DEF accounts
    <2>6. \A a \in accounts : OneOrTwo(planned[a])
      BY <2>2, <2>4
    <2>7. \A a \in accounts : \A k \in DOMAIN planned[a] :
            RowFor(planned[a][k], planned, h, l, r)
      BY <2>2, <2>3, OneEvent
    <2> QED  BY <2>2, <2>5, <2>6, <2>7 DEF LegsFor
  <1>6. DOMAIN planned = accounts
    OBVIOUS
  <1>7. (\A a \in accounts : s2[a] = s[a]) => \A a \in accounts : Error2(a) = Error(a)
    <2> HIDE DEF accounts, Received, Original
    <2> QED  OBVIOUS
  <1> HIDE DEF planned, Refused, Error, Error2, accounts
  <1>8. PlanFor(d, h, l, r)
    <2> HIDE DEF bad
    <2>1. CASE Refused(rv)
      BY <1>1, <2>1, RejectedFor
    <2>2. CASE ~Refused(rv) /\ bad # {}
      BY <1>1, <1>3, <2>2, RejectedFor
    <2>3. CASE ~Refused(rv) /\ bad = {}
      BY <1>1, <1>4, <1>5, <2>3, AcceptedFor
    <2> QED  BY <2>1, <2>2, <2>3
  <1>9. ASSUME d.outcome = "accepted"
        PROVE  ~Refused(rv) /\ bad = {} /\ d = Accepted(planned)
    <2> HIDE DEF bad
    <2> QED  BY <1>1, <1>3, <1>9, RejectedFor
  <1>10. ASSUME d.outcome = "accepted", \A a \in DOMAIN d.legs : s2[a] = s[a]
         PROVE  DecideRevert(s2, l, c, r.id, FALSE) = d
    <2>1. DOMAIN d.legs = accounts
      BY <1>6, <1>9, <1>10 DEF Accepted
    <2>2. bad2 = {}
      BY <1>7, <1>9, <1>10, <2>1
    <2> HIDE DEF bad2
    <2> QED  BY <1>2, <1>4, <1>9, <1>10, <2>2
  <1> QED  BY <1>4, <1>8, <1>9, <1>10 DEF Agree

Known(l) == \A x \in l : x.account \in Account

(* What any decision plans, and that it looks only at the accounts it writes *)
(* to: on other states that agree there it is the same.                      *)
LEMMA DecideLegsFor ==
  ASSUME NEW r \in Requests, NEW s, NEW s2, NEW h, NEW l, NEW rv, NEW t,
         Known(l),
         NEW d, d = DecideLegs(s, h, l, rv, r, t)
  PROVE  /\ PlanFor(d, h, l, r)
         /\ d.outcome = "accepted" /\ r.cmd.kind = "Revert" => ~rv /\ l # {}
         /\ d.outcome = "accepted" /\ Agree(s, s2, d.legs) =>
              DecideLegs(s2, h, l, FALSE, r, t) = d
  <1>1. ValidCommand(r.cmd)
    BY UowAssumption
  <1>2. r.cmd.kind \in {"Deposit", "Withdraw", "Transfer", "Post", "Hold", "Revert"} \cup HoldKinds
    BY <1>1 DEF ValidCommand, ValidFollowUp, HoldKinds
  <1>3. PlanFor(d, h, l, r) /\ d.outcome = "accepted" => r.cmd.account \in DOMAIN d.legs
    BY DEF PlanFor, LegsFor
  <1>4. CASE r.cmd.kind \in {"Transfer", "Post"}
    <2>1. d = DecidePostings(s, r.cmd, r.id)
      BY <1>4 DEF DecideLegs
    <2>2. DecideLegs(s2, h, l, FALSE, r, t) = DecidePostings(s2, r.cmd, r.id)
      BY <1>4 DEF DecideLegs
    <2>3. \A y : y = DecidePostings(s, r.cmd, r.id) =>
            /\ PlanFor(y, h, l, r)
            /\ y.outcome = "accepted" /\ Agree(s, s2, y.legs) =>
                 DecidePostings(s2, r.cmd, r.id) = y
      BY <1>1, <1>4, DecidePostingsFor
    <2>4. /\ PlanFor(d, h, l, r)
          /\ d.outcome = "accepted" /\ Agree(s, s2, d.legs) =>
               DecideLegs(s2, h, l, FALSE, r, t) = d
      BY <2>1, <2>2, <2>3, Zenon
    <2> QED  BY <1>4, <2>4
  <1>5. CASE r.cmd.kind = "Hold"
    <2>1. d = DecideHold(s[r.cmd.account], r.cmd, r.id, t)
      BY <1>5 DEF DecideLegs
    <2>2. DecideLegs(s2, h, l, FALSE, r, t) = DecideHold(s2[r.cmd.account], r.cmd, r.id, t)
      BY <1>5 DEF DecideLegs
    <2>3. PlanFor(d, h, l, r)
      BY <1>5, <2>1, DecideHoldFor
    <2> QED  BY <1>3, <1>5, <2>1, <2>2, <2>3 DEF Agree
  <1>6. CASE r.cmd.kind = "PostHold"
    <2>1. d = DecidePostHold(s, h, r.cmd, r.id, t)
      BY <1>6 DEF DecideLegs
    <2>2. DecideLegs(s2, h, l, FALSE, r, t) = DecidePostHold(s2, h, r.cmd, r.id, t)
      BY <1>6 DEF DecideLegs
    <2>3. \A y : y = DecidePostHold(s, h, r.cmd, r.id, t) =>
            /\ PlanFor(y, h, l, r)
            /\ y.outcome = "accepted" /\ Agree(s, s2, y.legs) =>
                 DecidePostHold(s2, h, r.cmd, r.id, t) = y
      BY <1>1, <1>6, DecidePostHoldFor
    <2>4. /\ PlanFor(d, h, l, r)
          /\ d.outcome = "accepted" /\ Agree(s, s2, d.legs) =>
               DecideLegs(s2, h, l, FALSE, r, t) = d
      BY <2>1, <2>2, <2>3, Zenon
    <2> QED  BY <1>6, <2>4
  <1>7. CASE r.cmd.kind \in {"VoidHold", "ExpireHold"}
    <2>1. d = DecideReleaseHold(s[r.cmd.account], h, r.cmd, r.id, t)
      BY <1>7 DEF DecideLegs
    <2>2. DecideLegs(s2, h, l, FALSE, r, t) = DecideReleaseHold(s2[r.cmd.account], h, r.cmd, r.id, t)
      BY <1>7 DEF DecideLegs
    <2>3. PlanFor(d, h, l, r)
      BY <1>7, <2>1, DecideReleaseFor
    <2> QED  BY <1>3, <1>7, <2>1, <2>2, <2>3 DEF Agree
  <1>8. CASE r.cmd.kind = "Revert"
    <2>1. d = DecideRevert(s, l, r.cmd, r.id, rv)
      BY <1>8 DEF DecideLegs
    <2>2. DecideLegs(s2, h, l, FALSE, r, t) = DecideRevert(s2, l, r.cmd, r.id, FALSE)
      BY <1>8 DEF DecideLegs
    <2>3. \A y : y = DecideRevert(s, l, r.cmd, r.id, rv) =>
            /\ PlanFor(y, h, l, r)
            /\ y.outcome = "accepted" => ~rv /\ l # {}
            /\ y.outcome = "accepted" /\ Agree(s, s2, y.legs) =>
                 DecideRevert(s2, l, r.cmd, r.id, FALSE) = y
      BY <1>1, <1>8, DecideRevertFor DEF Known
    <2>4. /\ PlanFor(d, h, l, r)
          /\ d.outcome = "accepted" => ~rv /\ l # {}
          /\ d.outcome = "accepted" /\ Agree(s, s2, d.legs) =>
               DecideLegs(s2, h, l, FALSE, r, t) = d
      BY <2>1, <2>2, <2>3, Zenon
    <2> QED  BY <1>8, <2>4
  <1>9. CASE r.cmd.kind \in {"Deposit", "Withdraw"}
    <2>1. d = Decide(s[r.cmd.account], r.cmd, r.id)
      BY <1>9 DEF DecideLegs
    <2>2. DecideLegs(s2, h, l, FALSE, r, t) = Decide(s2[r.cmd.account], r.cmd, r.id)
      BY <1>9 DEF DecideLegs
    <2>3. PlanFor(Decide(s[r.cmd.account], r.cmd, r.id), h, l, r)
      BY <1>9, DecideFor
    <2> QED  BY <1>3, <1>9, <2>1, <2>2, <2>3 DEF Agree
  <1> QED  BY <1>2, <1>4, <1>5, <1>6, <1>7, <1>8, <1>9 DEF HoldKinds

HoldFor(h, r) == IF r.cmd.kind \in HoldKinds THEN h ELSE NoHold
SetFor(l, r) == IF r.cmd.kind = "Revert" THEN l ELSE {}

RestsOn(d, s, h, l, r, t) == d = DecideLegs(s, HoldFor(h, r), SetFor(l, r), FALSE, r, t)

(* An acceptance rests on nothing else, and not on a reversal.               *)
LEMMA AcceptedOn ==
  ASSUME NEW r \in Requests, NEW s, NEW h, NEW l, NEW rv, NEW t,
         Known(l)
  PROVE  DecideLegs(s, h, l, rv, r, t).outcome = "accepted" =>
           RestsOn(DecideLegs(s, h, l, rv, r, t), s, h, l, r, t)
  <1> SUFFICES ASSUME DecideLegs(s, h, l, rv, r, t).outcome = "accepted"
               PROVE  DecideLegs(s, h, l, rv, r, t) =
                        DecideLegs(s, HoldFor(h, r), SetFor(l, r), FALSE, r, t)
    BY Zenon DEF RestsOn
  <1> DEFINE d == DecideLegs(s, h, l, rv, r, t)
             e == DecideLegs(s, h, l, FALSE, r, t)
  <1>1. d = e
    <2>1. Agree(s, s, d.legs)
      BY DEF Agree
    <2>2. \A y : y = DecideLegs(s, h, l, rv, r, t) =>
            (y.outcome = "accepted" /\ Agree(s, s, y.legs) =>
               DecideLegs(s, h, l, FALSE, r, t) = y)
      BY DecideLegsFor
    <2> QED  BY <2>1, <2>2, Zenon
  <1>2. CASE r.cmd.kind \in HoldKinds
    <2>1. HoldFor(h, r) = h /\ SetFor(l, r) = {}
      BY <1>2 DEF HoldFor, SetFor, HoldKinds
    <2>2. DecideLegs(s, h, l, FALSE, r, t) = DecideLegs(s, h, {}, FALSE, r, t)
      BY <1>2 DEF DecideLegs, HoldKinds
    <2> QED  BY <1>1, <2>1, <2>2, Zenon
  <1>3. CASE r.cmd.kind = "Revert"
    <2>1. HoldFor(h, r) = NoHold /\ SetFor(l, r) = l
      BY <1>3 DEF HoldFor, SetFor, HoldKinds
    <2>2. DecideLegs(s, h, l, FALSE, r, t) = DecideLegs(s, NoHold, l, FALSE, r, t)
      BY <1>3 DEF DecideLegs
    <2> QED  BY <1>1, <2>1, <2>2, Zenon
  <1>4. CASE r.cmd.kind \notin HoldKinds \cup {"Revert"}
    <2>1. HoldFor(h, r) = NoHold /\ SetFor(l, r) = {}
      BY <1>4 DEF HoldFor, SetFor
    <2>2. DecideLegs(s, h, l, FALSE, r, t) = DecideLegs(s, NoHold, {}, FALSE, r, t)
      BY <1>4 DEF DecideLegs, HoldKinds
    <2> QED  BY <1>1, <2>1, <2>2, Zenon
  <1> QED  BY <1>2, <1>3, <1>4

(* A decision that can be relied on: it plans rows for the request, and if   *)
(* it accepts it has seen no reversal and rests only on the reads it uses.   *)
Sound(d, s, h, l, rv, r, t) ==
  /\ PlanFor(d, h, l, r)
  /\ d.outcome = "accepted" =>
       /\ r.cmd.kind = "Revert" => ~rv /\ l # {}
       /\ RestsOn(d, s, h, l, r, t)

(* All decisions are.                                                        *)
LEMMA DecisionSound ==
  ASSUME NEW r \in Requests, NEW s, NEW h, NEW l, NEW rv, NEW t, Known(l)
  PROVE  Sound(DecideLegs(s, h, l, rv, r, t), s, h, l, rv, r, t)
  <1>1. \A y : y = DecideLegs(s, h, l, rv, r, t) =>
          /\ PlanFor(y, h, l, r)
          /\ y.outcome = "accepted" /\ r.cmd.kind = "Revert" => ~rv /\ l # {}
    BY DecideLegsFor
  <1>2. DecideLegs(s, h, l, rv, r, t).outcome = "accepted" =>
          RestsOn(DecideLegs(s, h, l, rv, r, t), s, h, l, r, t)
    BY AcceptedOn
  <1> QED  BY <1>1, <1>2, Zenon DEF Sound

-----------------------------------------------------------------------------
(* The operators the atomic specification uses are those of this one         *)

(* Reading the absence of a hold.                                            *)
LEMMA SameNoHold == Atomic!NoHold = NoHold
  BY Zenon DEF NoHold, NoAccount, Atomic!NoHold, Atomic!NoAccount

(* The version of a stream.                                                  *)
LEMMA SameVersion == \A stream : Atomic!Version(stream) = Version(stream)
  BY Zenon DEF Version, Cardinality, Atomic!Version, Atomic!Cardinality

(* The fold.                                                                 *)
LEMMA SameFold == \A stream : Atomic!Fold(stream) = Fold(stream)
  BY Zenon DEF Fold, SumFunction, SumFunctionOnSet, FoldFunctionOnSet, MapThenFoldSet,
     FoldFunction, BalanceDelta, BalanceSign, HeldDelta, HeldSign, Version,
     Cardinality, Atomic!Fold, Atomic!SumFunction, Atomic!SumFunctionOnSet,
     Atomic!FoldFunctionOnSet, Atomic!MapThenFoldSet, Atomic!FoldFunction,
     Atomic!BalanceDelta, Atomic!BalanceSign, Atomic!HeldDelta, Atomic!HeldSign,
     Atomic!Version, Atomic!Cardinality

(* What after_append refuses.                                                *)
LEMMA SameAppendRaises ==
  \A state, events :
    Atomic!AppendRaises(state, events) = AppendRaises(state, events)
  BY Zenon DEF AppendRaises, ApplyRaises, BalanceDelta, BalanceSign, HeldDelta,
     HeldSign, FoldLeft, MapThenFoldSet, Max, Apply, Atomic!AppendRaises,
     Atomic!ApplyRaises, Atomic!BalanceDelta, Atomic!BalanceSign, Atomic!HeldDelta,
     Atomic!HeldSign, Atomic!FoldLeft, Atomic!MapThenFoldSet, Atomic!Max, Atomic!Apply

(* open_hold.                                                                *)
LEMMA SameOpenHold == \A stream, h : Atomic!OpenHold(stream, h) = OpenHold(stream, h)
  BY Zenon DEF OpenHold, HoldEvents, Max, ClosesHold, NoHold, NoAccount,
     Atomic!OpenHold, Atomic!HoldEvents, Atomic!Max, Atomic!ClosesHold, Atomic!NoHold,
     Atomic!NoAccount

(* legs_of.                                                                  *)
LEMMA SameMovementLegs ==
  \A streams, g :
    Atomic!MovementLegs(streams, g) = MovementLegs(streams, g)
  BY Zenon DEF MovementLegs, MovementTypes, Atomic!MovementLegs, Atomic!MovementTypes

(* reverted_by.                                                              *)
LEMMA SameRevertersOf ==
  \A streams, g :
    Atomic!RevertersOf(streams, g) = RevertersOf(streams, g)
  BY Zenon DEF RevertersOf, Atomic!RevertersOf

(* Deposits and withdrawals.                                                 *)
LEMMA SameDecide == \A state, c, id : Atomic!Decide(state, c, id) = Decide(state, c, id)
  BY Zenon DEF Decide, CreditError, DebitError, Available, Rejected, NoLegs, Accepted,
     Event, NoAccount, Atomic!Decide, Atomic!CreditError, Atomic!DebitError,
     Atomic!Available, Atomic!Rejected, Atomic!NoLegs, Atomic!Accepted, Atomic!Event,
     Atomic!NoAccount

(* Transfers and posting sets.                                               *)
LEMMA SameDecidePostings ==
  \A states, c, id :
    Atomic!DecidePostings(states, c, id) = DecidePostings(states, c, id)
  BY SMT DEF DecidePostings, LegsOf, Leg, DebitError, Available, CreditError,
     GroupedEvent, Event, NoAccount, CounterpartyFor, Min, Rejected, NoLegs, Accepted,
     Atomic!DecidePostings, Atomic!LegsOf, Atomic!Leg, Atomic!DebitError,
     Atomic!Available, Atomic!CreditError, Atomic!GroupedEvent, Atomic!Event,
     Atomic!NoAccount, Atomic!CounterpartyFor, Atomic!Min, Atomic!Rejected,
     Atomic!NoLegs, Atomic!Accepted

(* Holds.                                                                    *)
LEMMA SameDecideHold ==
  \A state, c, id, t :
    Atomic!DecideHold(state, c, id, t) = DecideHold(state, c, id, t)
  BY Zenon DEF DecideHold, DebitError, Available, GroupedEvent, Event, NoAccount,
     Rejected, NoLegs, Accepted, Atomic!DecideHold, Atomic!DebitError,
     Atomic!Available, Atomic!GroupedEvent, Atomic!Event, Atomic!NoAccount,
     Atomic!Rejected, Atomic!NoLegs, Atomic!Accepted

(* Captures.                                                                 *)
LEMMA SameDecidePostHold ==
  \A states, h0, c, id, t :
    Atomic!DecidePostHold(states, h0, c, id, t) = DecidePostHold(states, h0, c, id, t)
  BY SMT DEF DecidePostHold, GroupedEvent, Event, NoAccount, NoHold, CreditError,
     Rejected, NoLegs, Accepted, Atomic!DecidePostHold, Atomic!GroupedEvent,
     Atomic!Event, Atomic!NoAccount, Atomic!NoHold, Atomic!CreditError,
     Atomic!Rejected, Atomic!NoLegs, Atomic!Accepted

(* Releases.                                                                 *)
LEMMA SameDecideReleaseHold ==
  \A state, h0, c, id, t :
    Atomic!DecideReleaseHold(state, h0, c, id, t) = DecideReleaseHold(state, h0, c, id, t)
  BY Zenon DEF DecideReleaseHold, GroupedEvent, Event, NoAccount, NoHold, Rejected,
     NoLegs, Accepted, Atomic!DecideReleaseHold, Atomic!GroupedEvent, Atomic!Event,
     Atomic!NoAccount, Atomic!NoHold, Atomic!Rejected, Atomic!NoLegs, Atomic!Accepted

(* Reversals.                                                                *)
LEMMA SameDecideRevert ==
  \A states, legs, c, id, reverted :
    Atomic!DecideRevert(states, legs, c, id, reverted) = DecideRevert(states, legs, c, id, reverted)
  BY SMT DEF DecideRevert, BalanceSign, DebitError, Available, CreditError,
     GroupedEvent, Event, NoAccount, Rejected, NoLegs, Min, Accepted,
     Atomic!DecideRevert, Atomic!BalanceSign, Atomic!DebitError, Atomic!Available,
     Atomic!CreditError, Atomic!GroupedEvent, Atomic!Event, Atomic!NoAccount,
     Atomic!Rejected, Atomic!NoLegs, Atomic!Min, Atomic!Accepted

(* Hence every decision.                                                     *)
LEMMA SameDecideLegs ==
  \A s, h, l, rv, r, t : Atomic!DecideLegs(s, h, l, rv, r, t) = DecideLegs(s, h, l, rv, r, t)
  BY SameDecide, SameDecidePostings, SameDecideHold, SameDecidePostHold,
     SameDecideReleaseHold, SameDecideRevert DEF DecideLegs, Atomic!DecideLegs

-----------------------------------------------------------------------------
(* The invariant of the refinement: what a worker has read is still true of  *)
(* the log, as long as its folds are at the heads of their streams.          *)

AtHead(w, a) == folds[w][a].version + 1 \notin DOMAIN log[a]

Accepting(w) == pc[w] \in {"append", "persist", "commit"} /\ plan[w].outcome = "accepted"

HoldRead(w) == HoldFor(hold[w], req[w])
LegsRead(w) == SetFor(orig[w], req[w])

(* Only the commands that need them make the further reads.                  *)
Staged(w) ==
  /\ pc[w] = "hold" => req[w].cmd.kind \in HoldKinds
  /\ pc[w] \in {"legs", "reverted"} => req[w].cmd.kind = "Revert"

(* The anchor was folded once, at the version the caller expects.            *)
Anchored(w) ==
  /\ pc[w] = "others" => req[w].cmd.account \notin others[w]
  /\ pc[w] \in {"hold", "legs", "others", "reverted"} \/ Accepting(w) =>
       folds[w][req[w].cmd.account].version = req[w].cmd.expected

(* A hold is closed by a row of the anchor's stream.                         *)
HoldCurrent(w) ==
  LET c == req[w].cmd
  IN  /\ pc[w] = "others" \/ Accepting(w)
      /\ c.kind \in HoldKinds
      /\ AtHead(w, c.account)
      => hold[w] = OpenHold(log[c.account], c.hold)

(* A set that has moved does not move again, whoever commits.                *)
LegsCurrent(w) ==
  LET c == req[w].cmd
  IN  /\ pc[w] \in {"others", "reverted"} \/ Accepting(w)
      /\ c.kind = "Revert"
      /\ orig[w] # {}
      => orig[w] = MovementLegs(log, c.transfer)

(* Whoever reverts the same set writes to the anchor's stream.               *)
Unreverted(w) ==
  LET c == req[w].cmd
  IN  Accepting(w) /\ c.kind = "Revert" /\ AtHead(w, c.account) =>
        RevertersOf(log, c.transfer) = {}

Outcomes == {"version_conflict", "insufficient_funds", "domain_rejected", "accepted"}

Decided(w) ==
  /\ pc[w] \in {"append", "persist", "commit"} => plan[w].outcome \in Outcomes
  /\ Accepting(w) =>
       plan[w] = DecideLegs(folds[w], HoldRead(w), LegsRead(w), FALSE, req[w], at[w])
  /\ \A l \in taken[w] :
       ~AppendRaises(folds[w][l[1]], SubSeq(plan[w].legs[l[1]], 1, l[2]))

Exact(w) ==
  /\ Staged(w) /\ Anchored(w) /\ HoldCurrent(w) /\ LegsCurrent(w)
  /\ Unreverted(w) /\ Decided(w)

(* A group is named after an accepted command; a hold is placed in one       *)
(* stream; and where a placed hold has moved money, it has been captured.    *)
GroupsNamed ==
  \A a \in Account : \A i \in DOMAIN log[a] :
    log[a][i].group # NoId =>
      log[a][i].group \in CommandId /\ results[log[a][i].group] # Atomic!NoResult

HoldsCaptured ==
  \A a, b \in Account : \A i \in DOMAIN log[a], j \in DOMAIN log[b] :
    log[a][i].type = "HoldPlaced" /\ log[b][j].group = log[a][i].group =>
      /\ log[b][j].type = "HoldPlaced" => a = b
      /\ log[b][j].type \in MovementTypes =>
           \E k \in DOMAIN log[a] :
             log[a][k].type = "HoldPosted" /\ log[a][k].group = log[a][i].group

RInv ==
  /\ log = [a \in Account |-> log[a]]
  /\ GroupsNamed /\ HoldsCaptured
  /\ DOMAIN others = Worker
  /\ \A w \in Worker : at[w] <= now /\ Exact(w)

(* A worker that a step leaves alone, on the same log.                       *)
LEMMA ExactFrame ==
  ASSUME NEW x \in Worker, Exact(x), Same(x), log' = log,
         others'[x] = others[x], at'[x] = at[x]
  PROVE  Exact(x)'
  <1>1. Staged(x)' /\ Anchored(x)'
    BY DEF Exact, Same, Staged, Anchored, Accepting
  <1>2. HoldCurrent(x)' /\ LegsCurrent(x)' /\ Unreverted(x)'
    BY DEF Exact, Same, HoldCurrent, LegsCurrent, Unreverted, Accepting, AtHead
  <1>3. Decided(x)'
    BY DEF Exact, Same, Decided, Accepting, HoldRead, LegsRead
  <1> QED  BY <1>1, <1>2, <1>3 DEF Exact

(* A worker that has read nothing yet has nothing to get wrong.              *)
LEMMA ExactEarly ==
  ASSUME NEW w \in Worker, pc'[w] \in {"idle", "begin", "fold"}, taken'[w] = {}
  PROVE  Exact(w)'
  BY DEF Exact, Staged, Anchored, HoldCurrent, LegsCurrent, Unreverted, Decided, Accepting

(* A step that commits nothing need only be checked on its own worker.       *)
LEMMA RLocal ==
  ASSUME IInv, RInv, NEW w \in Worker, Local(w), results' = results, now' = now,
         DOMAIN others' = Worker,
         \A x \in Worker \ {w} : others'[x] = others[x] /\ at'[x] = at[x],
         at'[w] <= now, Exact(w)'
  PROVE  RInv'
  <1>1. log' = log
    BY DEF Local
  <1>2. ASSUME NEW x \in Worker, x # w PROVE Exact(x)'
    BY <1>1, <1>2, ExactFrame DEF RInv, Local
  <1>3. GroupsNamed' /\ HoldsCaptured' /\ log' = [a \in Account |-> log'[a]]
    <2>1. log = [a \in Account |-> log[a]] /\ GroupsNamed /\ HoldsCaptured
      BY DEF RInv
    <2> QED  BY <1>1, <2>1 DEF GroupsNamed, HoldsCaptured
  <1>4. \A x \in Worker : at'[x] <= now'
    BY DEF RInv
  <1> QED  BY <1>2, <1>3, <1>4 DEF RInv

(* A worker that leaves without committing.                                  *)
LEMMA RLeave ==
  ASSUME IInv, RInv, NEW w \in Worker, Leave(w), UNCHANGED db
  PROVE  RInv'
  <1>1. Local(w) /\ pc'[w] = "idle" /\ taken'[w] = {}
    BY LeaveOK DEF Local, db
  <1>2. /\ DOMAIN others' = Worker /\ at'[w] = 0
        /\ \A x \in Worker \ {w} : others'[x] = others[x] /\ at'[x] = at[x]
    BY DEF Leave, Forget, RInv, IInv, Counters
  <1>3. at'[w] <= now
    BY <1>2, UowAssumption DEF IInv, Counters
  <1> QED  BY <1>1, <1>2, <1>3, ExactEarly, RLocal DEF db

(* So does one that starts over.                                             *)
LEMMA RRetry ==
  ASSUME IInv, RInv, NEW w \in Worker, RetryRace(w)
  PROVE  RInv'
  <1>1. GoTo(w, "begin") /\ Forget(w) /\ UNCHANGED db /\ req' = req
    BY DEF RetryRace
  <1>2. Local(w) /\ pc'[w] = "begin" /\ taken'[w] = {}
    BY <1>1 DEF IInv, Shape, Local, Same, Forget, GoTo, db
  <1>3. /\ DOMAIN others' = Worker /\ at'[w] = 0
        /\ \A x \in Worker \ {w} : others'[x] = others[x] /\ at'[x] = at[x]
    BY <1>1 DEF Forget, RInv, IInv, Counters
  <1>4. at'[w] <= now
    BY <1>3, UowAssumption DEF IInv, Counters
  <1> QED  BY <1>1, <1>2, <1>3, <1>4, ExactEarly, RLocal DEF db

(* Taking a request in, and finding no result for it.                        *)
LEMMA RBegin ==
  ASSUME IInv, RInv, NEW w \in Worker, FindNoResult(w) \/ \E r \in Requests : Submit(w, r)
  PROVE  RInv'
  <1>1. Local(w) /\ pc'[w] \in {"begin", "fold"} /\ UNCHANGED <<db, reads, taken>>
    BY DEF IInv, Shape, Local, Same, FindNoResult, Submit, GoTo, db, reads
  <1>2. taken'[w] = {}
    <2>1. pc[w] \in {"idle", "begin"}
      BY DEF FindNoResult, Submit
    <2> QED  BY <1>1, <2>1 DEF IInv, WorkerOK, PlanOK
  <1>3. at'[w] <= now /\ DOMAIN others' = Worker
    BY <1>1 DEF reads, RInv
  <1> QED  BY <1>1, <1>2, <1>3, ExactEarly, RLocal DEF db, reads

(* A decision on reads that are current is exact.                            *)
LEMMA ExactAdopt ==
  ASSUME IInv, NEW w \in Worker, pc[w] # "idle", req' = req, taken'[w] = {},
         NEW h, NEW l, NEW rv, NEW d, Known(l),
         d = DecideLegs(folds'[w], h, l, rv, req[w], at'[w]), Adopt(w, d),
         NEW c, c = req[w].cmd,
         folds'[w][c.account].version = c.expected,
         c.kind \in HoldKinds =>
           /\ h = hold'[w]
           /\ AtHead(w, c.account)' => h = OpenHold(log'[c.account], c.hold),
         c.kind = "Revert" =>
           /\ l = orig'[w]
           /\ l # {} => l = MovementLegs(log', c.transfer)
           /\ rv = (RevertersOf(log', c.transfer) # {})
  PROVE  Exact(w)'
  <1>1. plan'[w] = d /\ pc'[w] = (IF d.outcome = "accepted" THEN "append" ELSE "persist")
    BY DEF IInv, Shape, Adopt, GoTo
  <1>2. pc'[w] \in {"append", "persist"} /\ (Accepting(w)' <=> d.outcome = "accepted")
    BY <1>1 DEF Accepting
  <1>3. req[w] \in Requests
    BY RequestOK
  <1>4. Sound(d, folds'[w], h, l, rv, req[w], at'[w])
    BY <1>3, DecisionSound, Zenon
  <1>5. d.outcome \in Outcomes
    <2>1. Rejected("insufficient_funds").outcome \in Outcomes
      BY DEF Rejected, Outcomes
    <2>2. Rejected("domain_rejected").outcome \in Outcomes
      BY DEF Rejected, Outcomes
    <2> QED  BY <1>4, <2>1, <2>2 DEF Sound, PlanFor, Outcomes
  <1>6. d.outcome = "accepted" =>
          d = DecideLegs(folds'[w], HoldRead(w)', LegsRead(w)', FALSE, req[w], at'[w])
    <2>1. HoldFor(h, req[w]) = HoldRead(w)' /\ SetFor(l, req[w]) = LegsRead(w)'
      BY DEF HoldFor, SetFor, HoldRead, LegsRead
    <2> QED  BY <1>4, <2>1, Zenon DEF Sound, RestsOn
  <1>7. Staged(w)' /\ Anchored(w)'
    BY <1>2 DEF Staged, Anchored
  <1>8. HoldCurrent(w)'
    BY DEF HoldCurrent
  <1>9. LegsCurrent(w)' /\ Unreverted(w)'
    BY <1>2, <1>4 DEF LegsCurrent, Unreverted, Sound
  <1>10. Decided(w)'
    BY <1>1, <1>2, <1>5, <1>6 DEF Decided
  <1> QED  BY <1>7, <1>8, <1>9, <1>10 DEF Exact

(* A worker that reads on.                                                   *)
LEMMA ExactReadsOn ==
  ASSUME IInv, NEW w \in Worker, taken'[w] = {}, req' = req, NEW c, c = req[w].cmd,
         pc'[w] \in {"hold", "legs", "others", "reverted"},
         folds'[w][c.account].version = c.expected,
         pc'[w] = "hold" => c.kind \in HoldKinds,
         pc'[w] \in {"legs", "reverted"} => c.kind = "Revert",
         pc'[w] = "others" =>
           /\ c.account \notin others'[w]
           /\ c.kind \in HoldKinds /\ AtHead(w, c.account)' =>
                hold'[w] = OpenHold(log'[c.account], c.hold),
         pc'[w] \in {"others", "reverted"} /\ c.kind = "Revert" /\ orig'[w] # {} =>
           orig'[w] = MovementLegs(log', c.transfer)
  PROVE  Exact(w)'
  <1>1. ~Accepting(w)' /\ pc'[w] \notin {"append", "persist", "commit"}
    BY DEF Accepting
  <1>2. Staged(w)' /\ Anchored(w)'
    BY <1>1 DEF Staged, Anchored
  <1>3. HoldCurrent(w)' /\ LegsCurrent(w)' /\ Unreverted(w)'
    BY <1>1 DEF HoldCurrent, LegsCurrent, Unreverted
  <1>4. Decided(w)'
    BY <1>1 DEF Decided
  <1> QED  BY <1>2, <1>3, <1>4 DEF Exact

(* Nothing is taken before the first insert.                                 *)
LEMMA NothingTaken ==
  ASSUME IInv, NEW w \in Worker, pc[w] \notin {"append", "persist", "commit"}
  PROVE  taken[w] = {}
  BY DEF IInv, WorkerOK, PlanOK

(* The kinds of a request.                                                   *)
LEMMA Kinds ==
  ASSUME NEW r \in Requests
  PROVE  /\ r.cmd.kind \in {"Deposit", "Withdraw", "Transfer", "Post", "Hold", "Revert"}
                            \cup HoldKinds
         /\ r.cmd.kind \in HoldKinds => r.cmd.hold \in CommandId
         /\ r.cmd.kind = "Revert" => r.cmd.transfer \in CommandId
  BY UowAssumption DEF ValidCommand, ValidFollowUp, HoldKinds

(* Where a step moves worker w and adopts a plan or keeps it.                *)
Moves(w) ==
  (\E d : Adopt(w, d)) \/ (\E stage : GoTo(w, stage) /\ plan' = plan)

(* It leaves the others where they are.                                      *)
LEMMA MovesOthers ==
  ASSUME IInv, NEW w \in Worker, Moves(w)
  PROVE  \A x \in Worker \ {w} : pc'[x] = pc[x] /\ plan'[x] = plan[x]
  BY DEF IInv, Shape, Moves, Adopt, GoTo

(* Folding the anchor.                                                       *)
LEMMA RFoldAnchor ==
  ASSUME IInv, RInv, NEW w \in Worker, FoldAnchor(w)
  PROVE  RInv'
  <1> DEFINE r == req[w]
             c == r.cmd
             s == Fold(log[c.account])
             f == [folds[w] EXCEPT ![c.account] = s]
  <1>1. /\ pc[w] = "fold" /\ folds' = [folds EXCEPT ![w] = f]
        /\ at' = [at EXCEPT ![w] = now]
        /\ others' = [others EXCEPT ![w] = IF c.kind \in {"Transfer", "Post"}
                                           THEN OtherAccounts(r) ELSE {}]
        /\ UNCHANGED <<db, req, attempt, hold, orig, taken, replies, bounds>>
    BY DEF FoldAnchor
  <1>2. \/ Adopt(w, Rejected("version_conflict"))
        \/ /\ s.version = c.expected
           /\ \/ /\ c.kind \in {"Deposit", "Withdraw", "Hold"}
                 /\ Adopt(w, DecideLegs(f, NoHold, {}, FALSE, r, now))
              \/ /\ c.kind \in {"Transfer", "Post"}
                 /\ GoTo(w, "others") /\ plan' = plan
              \/ c.kind = "Revert" /\ GoTo(w, "legs") /\ plan' = plan
              \/ /\ c.kind \notin {"Deposit", "Withdraw", "Transfer", "Post", "Hold", "Revert"}
                 /\ GoTo(w, "hold") /\ plan' = plan
    <2> HIDE DEF f, s, c, r
    <2> QED  BY DEF FoldAnchor, f, s, c, r
  <1>3. /\ req[w] \in Requests /\ c.account \in Account
        /\ taken'[w] = {} /\ log' = log /\ results' = results /\ now' = now /\ req' = req
    BY <1>1, RequestOK, NothingTaken DEF db
  <1>4. folds'[w] = f /\ f[c.account] = s
    <2>1. folds'[w] = f
      <3> HIDE DEF f
      <3> QED  BY <1>1 DEF IInv, Shape
    <2>2. f[c.account] = s
      <3> HIDE DEF s
      <3> QED  BY <1>3 DEF IInv, WorkerOK, FoldsOK
    <2> QED  BY <2>1, <2>2
  <1>5. at'[w] = now /\ \A x \in Worker \ {w} : at'[x] = at[x]
    BY <1>1 DEF IInv, Counters
  <1>6. /\ DOMAIN others' = Worker /\ \A x \in Worker \ {w} : others'[x] = others[x]
        /\ c.kind \in {"Transfer", "Post"} => others'[w] = OtherAccounts(r)
    BY <1>1 DEF RInv
  <1>7. Moves(w)
    <2> HIDE DEF f, s, c, r
    <2> QED  BY <1>2 DEF Moves
  <1>8. Local(w)
    <2>1. \A x \in Worker \ {w} : folds'[x] = folds[x]
      <3> HIDE DEF f
      <3> QED  BY <1>1 DEF IInv, Shape
    <2> HIDE DEF f, s, c, r
    <2> QED  BY <1>1, <1>3, <1>7, <2>1, MovesOthers DEF Local, Same
  <1> HIDE DEF f, s
  <1>9. Exact(w)'
    <2>1. CASE Adopt(w, Rejected("version_conflict"))
      <3>1. plan'[w] = Rejected("version_conflict") /\ pc'[w] = "persist"
        BY <2>1 DEF Adopt, GoTo, IInv, Shape, Rejected
      <3>2. plan'[w].outcome = "version_conflict"
        BY <3>1 DEF Rejected
      <3> QED
        BY <1>3, <3>1, <3>2 DEF Exact, Staged, Anchored, HoldCurrent, LegsCurrent, Unreverted,
           Decided, Accepting, Outcomes
    <2>2. CASE /\ s.version = c.expected /\ c.kind \in {"Deposit", "Withdraw", "Hold"}
               /\ Adopt(w, DecideLegs(f, NoHold, {}, FALSE, r, now))
      <3>1. c.kind \notin HoldKinds /\ c.kind # "Revert"
        BY <2>2 DEF HoldKinds
      <3>2. Known({})
        BY DEF Known
      <3>3. pc[w] # "idle" /\ folds'[w][c.account].version = c.expected
        BY <1>1, <1>4, <2>2
      <3>4. Adopt(w, DecideLegs(folds'[w], NoHold, {}, FALSE, req[w], at'[w]))
        BY <1>4, <1>5, <2>2
      <3> HIDE DEF r
      <3> QED  BY <1>3, <3>1, <3>2, <3>3, <3>4, ExactAdopt DEF r
    <2>3. CASE /\ s.version = c.expected
               /\ \/ /\ c.kind \in {"Transfer", "Post"}
                     /\ GoTo(w, "others") /\ plan' = plan
                  \/ c.kind = "Revert" /\ GoTo(w, "legs") /\ plan' = plan
                  \/ /\ c.kind \notin {"Deposit", "Withdraw", "Transfer", "Post", "Hold", "Revert"}
                     /\ GoTo(w, "hold") /\ plan' = plan
      <3>1. \/ c.kind \in {"Transfer", "Post"} /\ pc'[w] = "others"
            \/ c.kind = "Revert" /\ pc'[w] = "legs"
            \/ c.kind \in HoldKinds /\ pc'[w] = "hold"
        BY <1>3, <2>3, Kinds DEF GoTo, IInv, Shape
      <3>2. folds'[w][c.account].version = c.expected
        BY <1>4, <2>3
      <3>3. c.account \notin OtherAccounts(r)
        BY DEF OtherAccounts
      <3> QED  BY <1>3, <1>6, <3>1, <3>2, <3>3, ExactReadsOn DEF HoldKinds
    <2> QED  BY <1>2, <2>1, <2>2, <2>3
  <1>10. at'[w] <= now
    BY <1>5, UowAssumption DEF IInv, Counters
  <1> QED  BY <1>3, <1>5, <1>6, <1>8, <1>9, <1>10, RLocal

(* Reading the open hold.                                                    *)
LEMMA RReadOpenHold ==
  ASSUME IInv, RInv, NEW w \in Worker, ReadOpenHold(w)
  PROVE  RInv'
  <1> DEFINE r == req[w]
             c == r.cmd
             h == OpenHold(log[c.account], c.hold)
  <1>1. /\ pc[w] = "hold" /\ hold' = [hold EXCEPT ![w] = h]
        /\ UNCHANGED <<db, req, attempt, at, folds, orig, taken, replies, bounds>>
    BY DEF ReadOpenHold
  <1>2. \/ /\ c.kind = "PostHold" /\ GoTo(w, "others") /\ plan' = plan
           /\ others' = [others EXCEPT ![w] = {h.counterparty} \ {c.account}]
        \/ /\ Adopt(w, DecideLegs(folds[w], h, {}, FALSE, r, at[w]))
           /\ others' = others
    <2> HIDE DEF h, c, r
    <2> QED  BY DEF ReadOpenHold, h, c, r
  <1>3. /\ req[w] \in Requests /\ c.account \in Account
        /\ taken'[w] = {} /\ log' = log /\ results' = results /\ now' = now /\ req' = req
    BY <1>1, RequestOK, NothingTaken DEF db
  <1> HIDE DEF h
  <1>4. hold'[w] = h /\ \A x \in Worker \ {w} : hold'[x] = hold[x]
    BY <1>1 DEF IInv, Shape
  <1>5. DOMAIN others' = Worker /\ \A x \in Worker \ {w} : others'[x] = others[x]
    BY <1>2 DEF RInv
  <1>6. Local(w)
    <2>1. Moves(w)
      BY <1>2 DEF Moves
    <2> HIDE DEF c, r
    <2> QED  BY <1>1, <1>3, <1>4, <2>1, MovesOthers DEF Local, Same
  <1>7. c.kind \in HoldKinds /\ folds[w][c.account].version = c.expected
    BY <1>1 DEF RInv, Exact, Staged, Anchored
  <1>8. Exact(w)'
    <2>1. CASE /\ c.kind = "PostHold" /\ GoTo(w, "others") /\ plan' = plan
               /\ others' = [others EXCEPT ![w] = {h.counterparty} \ {c.account}]
      <3>1. pc'[w] = "others"
        BY <2>1 DEF GoTo, IInv, Shape
      <3>2. c.account \notin others'[w]
        BY <2>1 DEF RInv
      <3>3. h = OpenHold(log'[c.account], c.hold)
        BY <1>3 DEF h
      <3> QED  BY <1>1, <1>3, <1>4, <1>7, <2>1, <3>1, <3>2, <3>3, ExactReadsOn
    <2>2. CASE Adopt(w, DecideLegs(folds[w], h, {}, FALSE, r, at[w]))
      <3>1. Known({}) /\ pc[w] # "idle" /\ c.kind # "Revert"
        BY <1>1, <1>7 DEF Known, HoldKinds
      <3>2. Adopt(w, DecideLegs(folds'[w], h, {}, FALSE, req[w], at'[w]))
        BY <1>1, <2>2
      <3>3. h = OpenHold(log'[c.account], c.hold)
        BY <1>3 DEF h
      <3>4. folds'[w][c.account].version = c.expected
        BY <1>1, <1>7
      <3> HIDE DEF r
      <3> QED  BY <1>3, <1>4, <3>1, <3>2, <3>3, <3>4, ExactAdopt DEF r
    <2> QED  BY <1>2, <2>1, <2>2
  <1>9. at'[w] <= now /\ \A x \in Worker \ {w} : at'[x] = at[x]
    BY <1>1 DEF RInv
  <1> QED  BY <1>3, <1>5, <1>6, <1>8, <1>9, RLocal

(* Reading the legs of a set.                                                *)
LEMMA RReadLegs ==
  ASSUME IInv, RInv, NEW w \in Worker, ReadLegs(w)
  PROVE  RInv'
  <1> DEFINE c == req[w].cmd
             l == MovementLegs(log, c.transfer)
             accounts == GroupAccounts(c.transfer) \ {c.account}
  <1>1. /\ pc[w] = "legs" /\ orig' = [orig EXCEPT ![w] = l]
        /\ others' = [others EXCEPT ![w] = accounts]
        /\ GoTo(w, IF accounts = {} THEN "reverted" ELSE "others")
        /\ UNCHANGED <<db, req, attempt, at, folds, hold, plan, taken, replies, bounds>>
    BY DEF ReadLegs
  <1>2. c.account \notin accounts
    OBVIOUS
  <1>3. /\ taken'[w] = {} /\ log' = log /\ results' = results /\ now' = now /\ req' = req
    BY <1>1, NothingTaken DEF db
  <1> HIDE DEF accounts
  <1>4. /\ DOMAIN others' = Worker /\ \A x \in Worker \ {w} : others'[x] = others[x]
        /\ others'[w] = accounts
    BY <1>1 DEF RInv
  <1>5. orig'[w] = MovementLegs(log', c.transfer)
    BY <1>1, <1>3 DEF IInv, Shape
  <1> HIDE DEF l
  <1>6. Local(w)
    <2>1. Moves(w)
      BY <1>1 DEF Moves
    <2>2. \A x \in Worker \ {w} : orig'[x] = orig[x]
      BY <1>1 DEF IInv, Shape
    <2> HIDE DEF c
    <2> QED  BY <1>1, <1>3, <2>1, <2>2, MovesOthers DEF Local, Same
  <1>7. c.kind = "Revert" /\ folds'[w][c.account].version = c.expected
    BY <1>1 DEF RInv, Exact, Staged, Anchored
  <1>8. pc'[w] \in {"others", "reverted"}
    BY <1>1 DEF GoTo, IInv, Shape
  <1>9. Exact(w)'
    <2>1. c.kind \notin HoldKinds
      BY <1>7 DEF HoldKinds
    <2> QED  BY <1>2, <1>3, <1>4, <1>5, <1>7, <1>8, <2>1, ExactReadsOn
  <1>10. at'[w] <= now /\ \A x \in Worker \ {w} : at'[x] = at[x]
    BY <1>1 DEF RInv
  <1> QED  BY <1>3, <1>4, <1>6, <1>9, <1>10, RLocal

(* Folding a further stream leaves the anchor's fold alone.                  *)
LEMMA RFoldOther ==
  ASSUME IInv, RInv, NEW w \in Worker, NEW a \in others[w], FoldOther(w, a)
  PROVE  RInv'
  <1> DEFINE r == req[w]
             c == r.cmd
             f == [folds[w] EXCEPT ![a] = Fold(log[a])]
  <1>1. /\ pc[w] = "others" /\ folds' = [folds EXCEPT ![w] = f]
        /\ others' = [others EXCEPT ![w] = @ \ {a}]
        /\ UNCHANGED <<db, req, attempt, at, hold, orig, taken, replies, bounds>>
    BY DEF FoldOther
  <1>2. \/ c.kind # "Revert" /\ Adopt(w, DecideLegs(f, hold[w], {}, FALSE, r, at[w]))
        \/ c.kind = "Revert" /\ GoTo(w, "reverted") /\ plan' = plan
        \/ pc' = pc /\ plan' = plan
    <2> HIDE DEF f, c, r
    <2> QED  BY DEF FoldOther, f, c, r
  <1>3. /\ req[w] \in Requests /\ c.account \in Account
        /\ taken'[w] = {} /\ log' = log /\ results' = results /\ now' = now /\ req' = req
    BY <1>1, RequestOK, NothingTaken DEF db
  <1>4. /\ folds'[w] = f /\ f[c.account] = folds[w][c.account]
        /\ c.account \notin others[w] /\ folds[w][c.account].version = c.expected
    <2>1. folds'[w] = f
      <3> HIDE DEF f
      <3> QED  BY <1>1 DEF IInv, Shape
    <2>2. c.account \notin others[w] /\ folds[w][c.account].version = c.expected
      BY <1>1 DEF RInv, Exact, Anchored
    <2>3. f[c.account] = folds[w][c.account]
      BY <1>3, <2>2 DEF IInv, WorkerOK, FoldsOK
    <2> QED  BY <2>1, <2>2, <2>3
  <1>5. /\ DOMAIN others' = Worker /\ \A x \in Worker \ {w} : others'[x] = others[x]
        /\ c.account \notin others'[w]
    BY <1>1, <1>4 DEF RInv
  <1>6. \A x \in Worker \ {w} : folds'[x] = folds[x]
    <2> HIDE DEF f
    <2> QED  BY <1>1 DEF IInv, Shape
  <1> HIDE DEF f
  <1>7. Local(w)
    <2>1. \A x \in Worker \ {w} : pc'[x] = pc[x] /\ plan'[x] = plan[x]
      <3>1. CASE pc' = pc /\ plan' = plan
        BY <3>1
      <3>2. CASE Moves(w)
        BY <3>2, MovesOthers
      <3> QED  BY <1>2, <3>1, <3>2 DEF Moves
    <2> HIDE DEF c, r
    <2> QED  BY <1>1, <1>3, <1>6, <2>1 DEF Local, Same
  <1>8. /\ folds'[w][c.account] = folds[w][c.account]
        /\ folds'[w][c.account].version = c.expected
    BY <1>4
  <1>9. c.kind \in HoldKinds /\ AtHead(w, c.account)' =>
          hold'[w] = OpenHold(log'[c.account], c.hold)
    BY <1>1, <1>3, <1>8 DEF RInv, Exact, HoldCurrent, AtHead
  <1>10. c.kind = "Revert" /\ orig'[w] # {} => orig'[w] = MovementLegs(log', c.transfer)
    BY <1>1, <1>3 DEF RInv, Exact, LegsCurrent
  <1>11. Exact(w)'
    <2>1. CASE c.kind # "Revert" /\ Adopt(w, DecideLegs(f, hold[w], {}, FALSE, r, at[w]))
      <3>1. Known({}) /\ pc[w] # "idle"
        BY <1>1 DEF Known
      <3>2. Adopt(w, DecideLegs(folds'[w], hold[w], {}, FALSE, req[w], at'[w]))
        BY <1>1, <1>4, <2>1
      <3>3. hold'[w] = hold[w]
        BY <1>1
      <3> HIDE DEF r
      <3> QED  BY <1>3, <1>8, <1>9, <2>1, <3>1, <3>2, <3>3, ExactAdopt DEF r
    <2>2. CASE c.kind = "Revert" /\ GoTo(w, "reverted") /\ plan' = plan
      <3>1. pc'[w] = "reverted"
        BY <2>2 DEF GoTo, IInv, Shape
      <3> QED  BY <1>3, <1>8, <1>10, <2>2, <3>1, ExactReadsOn
    <2>3. CASE pc' = pc /\ plan' = plan
      <3>1. pc'[w] = "others"
        BY <1>1, <2>3
      <3> QED  BY <1>3, <1>5, <1>8, <1>9, <1>10, <3>1, ExactReadsOn
    <2> QED  BY <1>2, <2>1, <2>2, <2>3
  <1>12. at'[w] <= now /\ \A x \in Worker \ {w} : at'[x] = at[x]
    BY <1>1 DEF RInv
  <1> QED  BY <1>3, <1>5, <1>7, <1>11, <1>12, RLocal

(* Looking for an earlier reversal.                                          *)
LEMMA RReadRevertedBy ==
  ASSUME IInv, RInv, NEW w \in Worker, ReadRevertedBy(w)
  PROVE  RInv'
  <1> DEFINE r == req[w]
             c == r.cmd
             rv == RevertersOf(log, c.transfer) # {}
  <1>1. /\ pc[w] = "reverted"
        /\ UNCHANGED <<db, req, attempt, at, folds, hold, orig, others, taken, replies, bounds>>
    BY DEF ReadRevertedBy, reads
  <1>2. Adopt(w, DecideLegs(folds[w], NoHold, orig[w], rv, r, at[w]))
    BY DEF ReadRevertedBy
  <1>3. /\ req[w] \in Requests
        /\ taken'[w] = {} /\ log' = log /\ results' = results /\ now' = now /\ req' = req
    BY <1>1, RequestOK, NothingTaken DEF db
  <1>4. rv = (RevertersOf(log', c.transfer) # {})
    BY <1>3
  <1> HIDE DEF rv
  <1>5. Local(w)
    <2>1. Moves(w)
      BY <1>2 DEF Moves
    <2> HIDE DEF c, r
    <2> QED  BY <1>1, <1>3, <2>1, MovesOthers DEF Local, Same
  <1>6. c.kind = "Revert" /\ folds'[w][c.account].version = c.expected
    BY <1>1 DEF RInv, Exact, Staged, Anchored
  <1>7. orig[w] # {} => orig[w] = MovementLegs(log', c.transfer)
    BY <1>1, <1>3, <1>6 DEF RInv, Exact, LegsCurrent
  <1>8. Exact(w)'
    <2>1. Known(orig[w]) /\ pc[w] # "idle" /\ orig'[w] = orig[w] /\ c.kind \notin HoldKinds
      BY <1>1, <1>6 DEF Known, IInv, WorkerOK, ReadsOK, HoldKinds
    <2>2. Adopt(w, DecideLegs(folds'[w], NoHold, orig[w], rv, req[w], at'[w]))
      BY <1>1, <1>2
    <2> HIDE DEF r
    <2> QED  BY <1>3, <1>4, <1>6, <1>7, <2>1, <2>2, ExactAdopt DEF r
  <1>9. /\ at'[w] <= now /\ DOMAIN others' = Worker
        /\ \A x \in Worker \ {w} : at'[x] = at[x] /\ others'[x] = others[x]
    BY <1>1 DEF RInv
  <1> QED  BY <1>3, <1>5, <1>8, <1>9, RLocal

(* Inserting a row and persisting the result read nothing new.               *)
LEMMA RWrite ==
  ASSUME IInv, RInv, NEW w \in Worker,
         PersistResult(w) \/ \E l \in ToInsert(w) : AppendEvent(w, l)
  PROVE  RInv'
  <1>1. /\ pc[w] \in {"append", "persist"}
        /\ UNCHANGED <<db, req, at, folds, hold, orig, others, plan>>
        /\ \E stage \in {"append", "persist", "commit"} : GoTo(w, stage)
    BY DEF PersistResult, AppendEvent, reads
  <1>2. pc'[w] \in {"append", "persist", "commit"} /\ \A x \in Worker \ {w} : pc'[x] = pc[x]
    BY <1>1 DEF GoTo, IInv, Shape
  <1>3. \A x \in Worker \ {w} : taken'[x] = taken[x]
    BY DEF PersistResult, AppendEvent, IInv, Shape
  <1>4. \A l \in taken'[w] : ~AppendRaises(folds[w][l[1]], SubSeq(plan[w].legs[l[1]], 1, l[2]))
    <2>1. \A l \in taken[w] : ~AppendRaises(folds[w][l[1]], SubSeq(plan[w].legs[l[1]], 1, l[2]))
      BY DEF RInv, Exact, Decided
    <2>2. CASE PersistResult(w)
      BY <2>1, <2>2 DEF PersistResult
    <2>3. ASSUME NEW m \in ToInsert(w), AppendEvent(w, m)
          PROVE  \A l \in taken'[w] :
                   ~AppendRaises(folds[w][l[1]], SubSeq(plan[w].legs[l[1]], 1, l[2]))
      <3>1. taken'[w] = taken[w] \cup {m}
        BY <2>3 DEF AppendEvent, IInv, Shape
      <3>2. ~AppendRaises(folds[w][m[1]], SubSeq(plan[w].legs[m[1]], 1, m[2]))
        BY <2>3 DEF AppendEvent
      <3> QED  BY <2>1, <3>1, <3>2
    <2> QED  BY <2>2, <2>3
  <1>5. Local(w)
    BY <1>1, <1>2, <1>3 DEF Local, Same, db
  <1>6. Accepting(w)' <=> Accepting(w)
    BY <1>1, <1>2 DEF Accepting
  <1>7. Exact(w)'
    <2>1. Exact(w) /\ log' = log
      BY <1>1 DEF RInv, db
    <2>2. Staged(w)' /\ Anchored(w)'
      BY <1>1, <1>2, <1>6, <2>1 DEF Exact, Staged, Anchored
    <2>3. HoldCurrent(w)' /\ LegsCurrent(w)' /\ Unreverted(w)'
      BY <1>1, <1>2, <1>6, <2>1 DEF Exact, HoldCurrent, LegsCurrent, Unreverted, AtHead
    <2>4. Decided(w)'
      BY <1>1, <1>2, <1>4, <1>6, <2>1 DEF Exact, Decided, HoldRead, LegsRead
    <2> QED  BY <2>2, <2>3, <2>4 DEF Exact
  <1>8. /\ at'[w] <= now /\ DOMAIN others' = Worker /\ results' = results /\ now' = now
        /\ \A x \in Worker \ {w} : at'[x] = at[x] /\ others'[x] = others[x]
    BY <1>1 DEF RInv, db
  <1> QED  BY <1>5, <1>7, <1>8, RLocal

-----------------------------------------------------------------------------
(* What a commit does to the reads of the others *)

(* An open hold has been placed and not captured, in this stream.            *)
LEMMA OpenHoldRows ==
  ASSUME NEW s, NEW h, OpenHold(s, h) # NoHold
  PROVE  /\ \E i \in DOMAIN s : s[i].type = "HoldPlaced" /\ s[i].group = h
         /\ \A k \in DOMAIN s : ~(s[k].type = "HoldPosted" /\ s[k].group = h)
  <1> DEFINE rows == HoldEvents(s, h)
             placed == {i \in rows : s[i].type = "HoldPlaced"}
  <1>1. placed # {} /\ \A i \in rows : ~ClosesHold(s[i])
    <2> HIDE DEF rows
    <2> QED  BY DEF OpenHold, rows
  <1>2. \A i : i \in rows <=> /\ i \in DOMAIN s /\ s[i].group = h
                              /\ s[i].type \in {"HoldPlaced", "HoldReleased", "HoldPosted"}
    BY DEF HoldEvents
  <1> HIDE DEF rows
  <1>3. \E i \in DOMAIN s : s[i].type = "HoldPlaced" /\ s[i].group = h
    BY <1>1, <1>2
  <1>4. ASSUME NEW k \in DOMAIN s, s[k].type = "HoldPosted", s[k].group = h PROVE FALSE
    BY <1>1, <1>2, <1>4 DEF ClosesHold
  <1> QED  BY <1>3, <1>4

(* The sequences of a plan.                                                  *)
LEMMA PlannedSequence ==
  ASSUME NEW s, OneOrTwo(s)
  PROVE  /\ \E n \in {1, 2} : DOMAIN s = 1..n /\ Len(s) = n
         /\ 1 \in DOMAIN s
         /\ SubSeq(s, 1, Len(s)) = s
  <1>1. \E S : s \in Seq(S)
    <2>1. ASSUME NEW e, s = <<e>> PROVE \E S : s \in Seq(S)
      <3>1. s \in Seq({e})
        BY <2>1
      <3> QED  BY <3>1
    <2>2. ASSUME NEW e, NEW f, s = <<e, f>> PROVE \E S : s \in Seq(S)
      <3>1. s \in Seq({e, f})
        BY <2>2
      <3> QED  BY <3>1
    <2> QED  BY <2>1, <2>2 DEF OneOrTwo
  <1>2. \A S : \A q \in Seq(S) : SubSeq(q, 1, Len(q)) = q
    OBVIOUS
  <1>3. ASSUME NEW e PROVE DOMAIN <<e>> = 1..1 /\ Len(<<e>>) = 1
    OBVIOUS
  <1>4. ASSUME NEW e, NEW f PROVE DOMAIN <<e, f>> = 1..2 /\ Len(<<e, f>>) = 2
    OBVIOUS
  <1> QED  BY <1>1, <1>2, <1>3, <1>4 DEF OneOrTwo

(* An accepted plan is one for the request.                                  *)
LEMMA AcceptingPlan ==
  ASSUME IInv, RInv, NEW w \in Worker, Accepting(w)
  PROVE  /\ req[w] \in Requests
         /\ LegsFor(plan[w].legs, HoldRead(w), LegsRead(w), req[w])
         /\ req[w].cmd.kind = "Revert" => orig[w] # {}
  <1>1. req[w] \in Requests
    BY RequestOK DEF Accepting
  <1>2. plan[w] = DecideLegs(folds[w], HoldRead(w), LegsRead(w), FALSE, req[w], at[w])
    BY DEF RInv, Exact, Decided
  <1>3. Known(LegsRead(w))
    BY DEF Known, LegsRead, SetFor, IInv, WorkerOK, ReadsOK
  <1>4. Sound(plan[w], folds[w], HoldRead(w), LegsRead(w), FALSE, req[w], at[w])
    BY <1>1, <1>2, <1>3, DecisionSound, Zenon
  <1>5. /\ LegsFor(plan[w].legs, HoldRead(w), LegsRead(w), req[w])
        /\ req[w].cmd.kind = "Revert" => LegsRead(w) # {}
    BY <1>4 DEF Sound, PlanFor, Accepting
  <1>6. req[w].cmd.kind = "Revert" => orig[w] # {}
    BY <1>5 DEF LegsRead, SetFor
  <1> QED  BY <1>1, <1>5, <1>6

(* The committer's plan.                                                     *)
LEMMA CommitPlan ==
  ASSUME IInv, RInv, NEW w \in Worker, pc[w] = "commit"
  PROVE  /\ req[w] \in Requests
         /\ plan[w].outcome # "accepted" =>
              DOMAIN plan[w].legs = {} /\ plan[w].outcome \in Outcomes
         /\ plan[w].outcome = "accepted" =>
              /\ Accepting(w)
              /\ LegsFor(plan[w].legs, HoldRead(w), LegsRead(w), req[w])
              /\ \A a \in DOMAIN plan[w].legs :
                   /\ a \in Account /\ AtHead(w, a)
                   /\ \A k \in DOMAIN plan[w].legs[a] : <<a, k>> \in taken[w]
              /\ req[w].cmd.kind = "Revert" => orig[w] # {}
  <1> DEFINE legs == plan[w].legs
  <1>1. req[w] \in Requests
    BY RequestOK
  <1>2. WorkerOK(w) /\ Exact(w)
    BY DEF IInv, RInv
  <1>3. GoodPlan(plan[w]) /\ ToInsert(w) = {}
    BY <1>2 DEF WorkerOK, PlanOK
  <1>4. ASSUME plan[w].outcome = "accepted"
        PROVE  /\ Accepting(w)
               /\ LegsFor(plan[w].legs, HoldRead(w), LegsRead(w), req[w])
               /\ \A a \in DOMAIN plan[w].legs :
                    /\ a \in Account /\ AtHead(w, a)
                    /\ \A k \in DOMAIN plan[w].legs[a] : <<a, k>> \in taken[w]
               /\ req[w].cmd.kind = "Revert" => orig[w] # {}
    <2>1. Accepting(w)
      BY <1>4 DEF Accepting
    <2>2. /\ LegsFor(legs, HoldRead(w), LegsRead(w), req[w])
          /\ req[w].cmd.kind = "Revert" => orig[w] # {}
      BY <2>1, AcceptingPlan
    <2>3. ASSUME NEW a \in DOMAIN legs
          PROVE  /\ a \in Account /\ AtHead(w, a)
                 /\ \A k \in DOMAIN legs[a] : <<a, k>> \in taken[w]
      <3>1. a \in Account
        BY <1>3, <2>3 DEF GoodPlan, GoodLegs
      <3>2. \A k \in DOMAIN legs[a] : <<a, k>> \in taken[w]
        BY <1>3, <2>3 DEF ToInsert, PlannedLegs
      <3>3. 1 \in DOMAIN legs[a]
        BY <2>2, <2>3, PlannedSequence DEF LegsFor
      <3> DEFINE first == <<a, 1>>
      <3>4. first \in taken[w] /\ first[1] = a
        BY <3>2, <3>3
      <3> HIDE DEF first
      <3>5. AtHead(w, a)
        BY <1>2, <3>4 DEF WorkerOK, TakenOK, AtHead
      <3> QED  BY <3>1, <3>2, <3>5
    <2> QED  BY <2>1, <2>2, <2>3
  <1>5. plan[w].outcome # "accepted" =>
          DOMAIN plan[w].legs = {} /\ plan[w].outcome \in Outcomes
    BY <1>2, <1>3 DEF GoodPlan, Exact, Decided
  <1> QED  BY <1>1, <1>4, <1>5

(* The rows of the new log are the old ones and the planned ones.            *)
LEMMA CommitRows ==
  ASSUME IInv, RInv, NEW w \in Worker, CommitWrites(w), NEW a \in Account
  PROVE  /\ \A i \in DOMAIN log[a] : i \in DOMAIN log'[a] /\ log'[a][i] = log[a][i]
         /\ a \notin DOMAIN plan[w].legs => log'[a] = log[a]
         /\ \A i \in DOMAIN log'[a] \ DOMAIN log[a] :
              /\ a \in DOMAIN plan[w].legs /\ plan[w].outcome = "accepted"
              /\ \E k \in DOMAIN plan[w].legs[a] : log'[a][i] = plan[w].legs[a][k]
         /\ a \in DOMAIN plan[w].legs =>
              /\ DOMAIN log[a] = 1..folds[w][a].version
              /\ folds[w][a].version + 1 \in DOMAIN log'[a]
              /\ \A k \in DOMAIN plan[w].legs[a] :
                   \E i \in DOMAIN log'[a] : log'[a][i] = plan[w].legs[a][k]
  <1> DEFINE legs == plan[w].legs
             v == folds[w][a].version
  <1>1. pc[w] = "commit"
    BY DEF CommitWrites
  <1>2. log'[a] = IF a \in DOMAIN legs THEN Atomic!InsertRows(log[a], v, legs[a]) ELSE log[a]
    BY DEF CommitWrites
  <1>3. CASE a \notin DOMAIN legs
    BY <1>2, <1>3
  <1>4. CASE a \in DOMAIN legs
    <2>1. plan[w].outcome = "accepted"
      BY <1>1, <1>4, CommitPlan
    <2>2. AtHead(w, a) /\ OneOrTwo(legs[a])
      BY <1>1, <1>4, <2>1, CommitPlan DEF LegsFor
    <2>3. v \in Nat /\ DOMAIN log[a] = 1..v
      <3>1. LogOK /\ FoldsOK(w)
        BY DEF IInv, WorkerOK
      <3> QED  BY <2>2, <3>1, FoldAtHead DEF AtHead, FoldsOK
    <2>4. PICK n \in {1, 2} : DOMAIN legs[a] = 1..n /\ Len(legs[a]) = n
      BY <2>2, PlannedSequence
    <2>5. log'[a] = [i \in 1..v \cup (v + 1)..(v + n) |->
                       IF i \in 1..v THEN log[a][i] ELSE legs[a][i - v]]
      BY <1>2, <1>4, <2>3, <2>4 DEF Atomic!InsertRows
    <2> HIDE DEF legs, v
    <2>6. \A i \in DOMAIN log[a] : i \in DOMAIN log'[a] /\ log'[a][i] = log[a][i]
      BY <2>3, <2>5
    <2>7. \A i \in DOMAIN log'[a] \ DOMAIN log[a] :
            \E k \in DOMAIN legs[a] : log'[a][i] = legs[a][k]
      <3> SUFFICES ASSUME NEW i \in DOMAIN log'[a] \ DOMAIN log[a]
                   PROVE  \E k \in DOMAIN legs[a] : log'[a][i] = legs[a][k]
        OBVIOUS
      <3>1. i \in (v + 1)..(v + n) /\ i \notin 1..v
        BY <2>3, <2>5
      <3>2. i - v \in 1..n
        BY <2>3, <2>4, <3>1
      <3>3. log'[a][i] = legs[a][i - v]
        BY <2>5, <3>1
      <3> QED  BY <2>4, <3>2, <3>3
    <2>8. ASSUME NEW k \in DOMAIN legs[a]
          PROVE  v + k \in DOMAIN log'[a] /\ log'[a][v + k] = legs[a][k]
      <3>1. k \in 1..n
        BY <2>4
      <3>2. v + k \in (v + 1)..(v + n) /\ v + k \notin 1..v /\ (v + k) - v = k
        BY <2>3, <2>4, <3>1
      <3> QED  BY <2>5, <3>2
    <2>9. v + 1 \in DOMAIN log'[a]
      BY <2>4, <2>8
    <2> QED  BY <1>4, <2>1, <2>3, <2>6, <2>7, <2>8, <2>9 DEF legs, v
  <1> QED  BY <1>3, <1>4

(* So a new row is one planned for the request.                              *)
LEMMA NewRow ==
  ASSUME IInv, RInv, NEW w \in Worker, CommitWrites(w), NEW a \in Account,
         NEW i \in DOMAIN log'[a], i \notin DOMAIN log[a]
  PROVE  /\ a \in DOMAIN plan[w].legs /\ plan[w].outcome = "accepted"
         /\ \E k \in DOMAIN plan[w].legs[a] : log'[a][i] = plan[w].legs[a][k]
         /\ RowFor(log'[a][i], plan[w].legs, HoldRead(w), LegsRead(w), req[w])
  <1>1. pc[w] = "commit"
    BY DEF CommitWrites
  <1>2. /\ a \in DOMAIN plan[w].legs /\ plan[w].outcome = "accepted"
        /\ \E k \in DOMAIN plan[w].legs[a] : log'[a][i] = plan[w].legs[a][k]
    BY CommitRows
  <1>3. LegsFor(plan[w].legs, HoldRead(w), LegsRead(w), req[w])
    BY <1>1, <1>2, CommitPlan
  <1> QED  BY <1>2, <1>3 DEF LegsFor

(* The hold a commit closes is open until then.                              *)
LEMMA HoldIsOpen ==
  ASSUME IInv, RInv, NEW w \in Worker, pc[w] = "commit", plan[w].outcome = "accepted",
         req[w].cmd.kind \in HoldKinds, HoldRead(w) # NoHold
  PROVE  OpenHold(log[req[w].cmd.account], req[w].cmd.hold) # NoHold
  <1>1. Accepting(w) /\ req[w].cmd.account \in DOMAIN plan[w].legs
    BY CommitPlan DEF LegsFor
  <1>2. AtHead(w, req[w].cmd.account)
    BY <1>1, CommitPlan
  <1> QED  BY <1>1, <1>2 DEF RInv, Exact, HoldCurrent, HoldRead, HoldFor

(* No row names the command id of a committer.                               *)
LEMMA FreshId ==
  ASSUME IInv, RInv, NEW w \in Worker, pc[w] = "commit",
         NEW a \in Account, NEW i \in DOMAIN log[a]
  PROVE  log[a][i].group # req[w].id
  <1>1. req[w].id \in CommandId /\ req[w].id # NoId /\ results[req[w].id] = Atomic!NoResult
    BY RequestOK, DomainAssumption DEF IInv, ResultsOK
  <1> QED  BY <1>1 DEF RInv, GroupsNamed

(* A commit names its rows after itself, or after the hold it closes.        *)
LEMMA GroupsNamedCommit ==
  ASSUME IInv, RInv, NEW w \in Worker, CommitWrites(w)
  PROVE  GroupsNamed'
  <1> DEFINE id == req[w].id
             c == req[w].cmd
  <1>1. pc[w] = "commit" /\ results' = [results EXCEPT ![id] = ResultOf(w)]
    BY DEF CommitWrites
  <1>2. /\ id \in CommandId /\ DOMAIN results = CommandId /\ results[id] = Atomic!NoResult
        /\ c.account \in Account /\ req[w] \in Requests
    BY <1>1, RequestOK DEF IInv, ResultsOK
  <1>3. \A g \in CommandId : results[g] # Atomic!NoResult => results'[g] # Atomic!NoResult
    BY <1>1, <1>2
  <1>4. results'[id] # Atomic!NoResult
    <2>1. ResultOf(w) # Atomic!NoResult
      BY <1>1, ResultIsAResult
    <2> QED  BY <1>1, <1>2, <2>1
  <1>5. \A a \in Account : \A i \in DOMAIN log[a] : log[a][i].group # NoId =>
          log[a][i].group \in CommandId /\ results'[log[a][i].group] # Atomic!NoResult
    BY <1>3 DEF RInv, GroupsNamed
  <1>6. ASSUME NEW a \in Account, NEW i \in DOMAIN log'[a], log'[a][i].group # NoId
        PROVE  log'[a][i].group \in CommandId /\ results'[log'[a][i].group] # Atomic!NoResult
    <2>1. CASE i \in DOMAIN log[a]
      <3>1. log'[a][i] = log[a][i]
        BY <2>1, CommitRows
      <3> QED  BY <1>5, <1>6, <2>1, <3>1
    <2>2. CASE i \notin DOMAIN log[a]
      <3>1. /\ plan[w].outcome = "accepted"
            /\ RowFor(log'[a][i], plan[w].legs, HoldRead(w), LegsRead(w), req[w])
        BY <2>2, NewRow
      <3>2. CASE log'[a][i].group = id
        BY <1>2, <1>4, <3>2
      <3>3. CASE log'[a][i].group # id
        <4>1. c.kind \in HoldKinds /\ HoldRead(w) # NoHold /\ log'[a][i].group = c.hold
          BY <1>6, <3>1, <3>3 DEF RowFor
        <4>2. OpenHold(log[c.account], c.hold) # NoHold
          BY <1>1, <3>1, <4>1, HoldIsOpen
        <4>3. PICK j \in DOMAIN log[c.account] : log[c.account][j].group = c.hold
          BY <4>2, OpenHoldRows
        <4>4. c.hold # NoId
          BY <1>2, <4>1, Kinds, DomainAssumption
        <4> QED  BY <1>2, <1>5, <4>1, <4>3, <4>4
      <3> QED  BY <3>2, <3>3
    <2> QED  BY <2>1, <2>2
  <1>7. Atomic!NoResult' = Atomic!NoResult
    BY DEF Atomic!NoResult
  <1> QED  BY <1>6, <1>7 DEF GroupsNamed

(* A new hold has a new name; a movement named after an old hold captures it *)
(* where it was placed.                                                      *)
LEMMA HoldsCapturedCommit ==
  ASSUME IInv, RInv, NEW w \in Worker, CommitWrites(w)
  PROVE  HoldsCaptured'
  <1> DEFINE id == req[w].id
             c == req[w].cmd
             legs == plan[w].legs
  <1>1. pc[w] = "commit" /\ c.account \in Account
    BY RequestOK DEF CommitWrites
  <1> SUFFICES ASSUME NEW a \in Account, NEW b \in Account,
                      NEW i \in DOMAIN log'[a], NEW j \in DOMAIN log'[b],
                      log'[a][i].type = "HoldPlaced", log'[b][j].group = log'[a][i].group
               PROVE  /\ log'[b][j].type = "HoldPlaced" => a = b
                      /\ log'[b][j].type \in MovementTypes =>
                           \E k \in DOMAIN log'[a] : /\ log'[a][k].type = "HoldPosted"
                                                     /\ log'[a][k].group = log'[a][i].group
    BY DEF HoldsCaptured
  <1>2. CASE i \in DOMAIN log[a] /\ j \in DOMAIN log[b]
    <2>1. log'[a][i] = log[a][i] /\ log'[b][j] = log[b][j]
      BY <1>2, CommitRows
    <2>2. /\ log[b][j].type = "HoldPlaced" => a = b
          /\ log[b][j].type \in MovementTypes =>
               \E k \in DOMAIN log[a] : /\ log[a][k].type = "HoldPosted"
                                        /\ log[a][k].group = log[a][i].group
      BY <1>2, <2>1 DEF RInv, HoldsCaptured
    <2>3. \A k \in DOMAIN log[a] : k \in DOMAIN log'[a] /\ log'[a][k] = log[a][k]
      BY CommitRows
    <2> QED  BY <2>1, <2>2, <2>3
  <1>3. CASE i \in DOMAIN log[a] /\ j \notin DOMAIN log[b]
    <2>1. log'[a][i] = log[a][i] /\ log[a][i].group # id
      BY <1>1, <1>3, CommitRows, FreshId
    <2>2. /\ plan[w].outcome = "accepted"
          /\ RowFor(log'[b][j], legs, HoldRead(w), LegsRead(w), req[w])
      BY <1>3, NewRow
    <2>3. log'[b][j].type # "HoldPlaced"
      BY <2>1, <2>2 DEF RowFor
    <2>4. ASSUME log'[b][j].type \in MovementTypes
          PROVE  \E k \in DOMAIN log'[a] : /\ log'[a][k].type = "HoldPosted"
                                           /\ log'[a][k].group = log'[a][i].group
      <3>1. /\ c.kind \in HoldKinds /\ HoldRead(w) # NoHold /\ log'[b][j].group = c.hold
            /\ legs[c.account][1].type = "HoldPosted" /\ legs[c.account][1].group = c.hold
        BY <2>1, <2>2, <2>4 DEF RowFor
      <3>2. OpenHold(log[c.account], c.hold) # NoHold
        BY <1>1, <2>2, <3>1, HoldIsOpen
      <3>3. PICK p \in DOMAIN log[c.account] : /\ log[c.account][p].type = "HoldPlaced"
                                               /\ log[c.account][p].group = c.hold
        BY <3>2, OpenHoldRows
      <3>4. a = c.account
        BY <1>1, <1>3, <2>1, <3>1, <3>3 DEF RInv, HoldsCaptured
      <3>5. c.account \in DOMAIN legs /\ 1 \in DOMAIN legs[c.account]
        BY <1>1, <2>2, CommitPlan, PlannedSequence DEF LegsFor
      <3>6. PICK k \in DOMAIN log'[c.account] : log'[c.account][k] = legs[c.account][1]
        BY <1>1, <3>5, CommitRows
      <3> QED  BY <3>1, <3>4, <3>6
    <2> QED  BY <2>3, <2>4
  <1>4. CASE i \notin DOMAIN log[a]
    <2>1. /\ RowFor(log'[a][i], legs, HoldRead(w), LegsRead(w), req[w])
          /\ a \in DOMAIN legs
          /\ \E k \in DOMAIN legs[a] : log'[a][i] = legs[a][k]
      BY <1>4, NewRow
    <2>2. /\ log'[a][i].group = id /\ DOMAIN legs = {c.account}
          /\ legs[c.account] = <<log'[a][i]>>
      BY <2>1 DEF RowFor
    <2>3. j \notin DOMAIN log[b]
      <3>1. j \in DOMAIN log[b] => log'[b][j] = log[b][j] /\ log[b][j].group # id
        BY <1>1, CommitRows, FreshId
      <3> QED  BY <2>2, <3>1
    <2>4. b \in DOMAIN legs /\ \E k \in DOMAIN legs[b] : log'[b][j] = legs[b][k]
      BY <2>3, NewRow
    <2>5. a = c.account /\ b = c.account /\ log'[b][j] = log'[a][i]
      BY <2>1, <2>2, <2>4, OneEvent
    <2> QED  BY <2>5 DEF MovementTypes
  <1> QED  BY <1>2, <1>3, <1>4

(* A set keeps its legs when no new leg joins it.                            *)
LEMMA LegsKept ==
  ASSUME NEW s, NEW t, NEW g,
         \A a \in Account : \A i \in DOMAIN s[a] : i \in DOMAIN t[a] /\ t[a][i] = s[a][i],
         \A a \in Account : \A i \in DOMAIN t[a] :
           t[a][i].group = g /\ t[a][i].type \in MovementTypes => i \in DOMAIN s[a]
  PROVE  MovementLegs(t, g) = MovementLegs(s, g)
  <1>1. ASSUME NEW x \in MovementLegs(t, g) PROVE x \in MovementLegs(s, g)
    <2>1. PICK a \in Account : \E i \in DOMAIN t[a] :
            /\ t[a][i].group = g /\ t[a][i].type \in MovementTypes
            /\ x = [account |-> a, event |-> t[a][i]]
      BY <1>1 DEF MovementLegs
    <2>2. PICK i \in DOMAIN t[a] :
            /\ t[a][i].group = g /\ t[a][i].type \in MovementTypes
            /\ x = [account |-> a, event |-> t[a][i]]
      BY <2>1
    <2>3. i \in DOMAIN s[a] /\ t[a][i] = s[a][i]
      BY <2>2
    <2> QED  BY <2>2, <2>3 DEF MovementLegs
  <1>2. ASSUME NEW x \in MovementLegs(s, g) PROVE x \in MovementLegs(t, g)
    <2>1. PICK a \in Account : \E i \in DOMAIN s[a] :
            /\ s[a][i].group = g /\ s[a][i].type \in MovementTypes
            /\ x = [account |-> a, event |-> s[a][i]]
      BY <1>2 DEF MovementLegs
    <2>2. PICK i \in DOMAIN s[a] :
            /\ s[a][i].group = g /\ s[a][i].type \in MovementTypes
            /\ x = [account |-> a, event |-> s[a][i]]
      BY <2>1
    <2>3. i \in DOMAIN t[a] /\ t[a][i] = s[a][i]
      BY <2>2
    <2> QED  BY <2>2, <2>3 DEF MovementLegs
  <1> QED  BY <1>1, <1>2

(* A set that has moved is complete: no commit adds a leg to it.             *)
LEMMA MovementStable ==
  ASSUME IInv, RInv, NEW w \in Worker, CommitWrites(w), NEW g \in CommandId,
         MovementLegs(log, g) # {}
  PROVE  MovementLegs(log', g) = MovementLegs(log, g)
  <1> DEFINE c == req[w].cmd
  <1>1. pc[w] = "commit" /\ c.account \in Account
    BY RequestOK DEF CommitWrites
  <1>2. PICK b \in Account : \E j \in DOMAIN log[b] :
          log[b][j].group = g /\ log[b][j].type \in MovementTypes
    BY DEF MovementLegs
  <1>3. PICK j \in DOMAIN log[b] : log[b][j].group = g /\ log[b][j].type \in MovementTypes
    BY <1>2
  <1>4. g # req[w].id
    BY <1>1, <1>3, FreshId
  <1>5. ASSUME NEW a \in Account, NEW i \in DOMAIN log'[a], i \notin DOMAIN log[a],
               log'[a][i].group = g, log'[a][i].type \in MovementTypes
        PROVE  FALSE
    <2>1. /\ plan[w].outcome = "accepted"
          /\ RowFor(log'[a][i], plan[w].legs, HoldRead(w), LegsRead(w), req[w])
      BY <1>5, NewRow
    <2>2. c.kind \in HoldKinds /\ HoldRead(w) # NoHold /\ g = c.hold
      BY <1>4, <1>5, <2>1 DEF RowFor
    <2>3. OpenHold(log[c.account], g) # NoHold
      BY <1>1, <2>1, <2>2, HoldIsOpen
    <2>4. PICK p \in DOMAIN log[c.account] : /\ log[c.account][p].type = "HoldPlaced"
                                             /\ log[c.account][p].group = g
      BY <2>3, OpenHoldRows
    <2>5. \E k \in DOMAIN log[c.account] : /\ log[c.account][k].type = "HoldPosted"
                                           /\ log[c.account][k].group = g
      BY <1>1, <1>3, <2>4 DEF RInv, HoldsCaptured
    <2> QED  BY <2>3, <2>5, OpenHoldRows
  <1>6. \A a \in Account : \A i \in DOMAIN log[a] : i \in DOMAIN log'[a] /\ log'[a][i] = log[a][i]
    BY CommitRows
  <1> QED  BY <1>5, <1>6, LegsKept

(* A stream whose head another worker still has has not grown.               *)
LEMMA StillAtHead ==
  ASSUME IInv, RInv, NEW w \in Worker, CommitWrites(w), NEW x \in Worker,
         NEW a \in Account, folds[x][a].version + 1 \notin DOMAIN log'[a]
  PROVE  a \notin DOMAIN plan[w].legs /\ log'[a] = log[a] /\ AtHead(x, a)
  <1>1. a \notin DOMAIN plan[w].legs
    <2> SUFFICES ASSUME a \in DOMAIN plan[w].legs PROVE FALSE
      OBVIOUS
    <2> DEFINE v == folds[w][a].version
               u == folds[x][a].version
    <2>1. v \in Nat /\ u \in Nat /\ 1..u \subseteq DOMAIN log[a]
      BY DEF IInv, WorkerOK, FoldsOK
    <2>2. DOMAIN log[a] = 1..v /\ v + 1 \in DOMAIN log'[a]
      BY CommitRows
    <2>3. \A i \in 1..v : i \in DOMAIN log'[a]
      BY <2>2, CommitRows
    <2>4. u + 1 \notin DOMAIN log'[a]
      OBVIOUS
    <2> HIDE DEF u, v
    <2>5. u <= v
      <3>1. u = 0 \/ u \in 1..u
        BY <2>1
      <3>2. u = 0 \/ u \in 1..v
        BY <2>1, <2>2, <3>1
      <3> QED  BY <2>1, <3>2
    <2>6. u + 1 \in 1..v \/ u + 1 = v + 1
      BY <2>1, <2>5
    <2> QED  BY <2>2, <2>3, <2>4, <2>6
  <1>2. log'[a] = log[a]
    BY <1>1, CommitRows
  <1> QED  BY <1>1, <1>2 DEF AtHead

(* A reversal that commits writes to every stream of the set, the anchor of  *)
(* any other reversal of the set included.                                   *)
LEMMA UnrevertedBeside ==
  ASSUME IInv, RInv, NEW w \in Worker, CommitWrites(w), NEW x \in Worker, Same(x),
         Accepting(x), req[x].cmd.kind = "Revert", AtHead(x, req[x].cmd.account)'
  PROVE  RevertersOf(log', req[x].cmd.transfer) = {}
  <1> DEFINE g == req[x].cmd.transfer
             a == req[x].cmd.account
  <1>1. pc[w] = "commit"
    BY DEF CommitWrites
  <1>2. /\ req[x] \in Requests /\ a \in Account /\ orig[x] # {}
        /\ LegsFor(plan[x].legs, HoldRead(x), LegsRead(x), req[x])
    BY AcceptingPlan, RequestOK DEF Accepting
  <1>3. a \notin DOMAIN plan[w].legs /\ AtHead(x, a)
    <2>1. folds[x][a].version + 1 \notin DOMAIN log'[a]
      BY DEF AtHead, Same
    <2> QED  BY <1>2, <2>1, StillAtHead
  <1>4. RevertersOf(log, g) = {}
    BY <1>3 DEF RInv, Exact, Unreverted
  <1>5. g # NoId
    BY <1>2, Kinds, DomainAssumption
  <1>6. ASSUME NEW b \in Account, NEW i \in DOMAIN log'[b], log'[b][i].reverts = g
        PROVE  FALSE
    <2>1. CASE i \in DOMAIN log[b]
      <3>1. log[b][i].reverts = g
        BY <1>6, <2>1, CommitRows
      <3>2. log[b][i].group \in RevertersOf(log, g)
        BY <2>1, <3>1 DEF RevertersOf
      <3> QED  BY <1>4, <3>2
    <2>2. CASE i \notin DOMAIN log[b]
      <3>1. /\ plan[w].outcome = "accepted"
            /\ RowFor(log'[b][i], plan[w].legs, HoldRead(w), LegsRead(w), req[w])
        BY <2>2, NewRow
      <3>2. req[w].cmd.kind = "Revert" /\ req[w].cmd.transfer = g
        BY <1>5, <1>6, <3>1 DEF RowFor
      <3>3. /\ Accepting(w) /\ orig[w] # {}
            /\ LegsFor(plan[w].legs, HoldRead(w), LegsRead(w), req[w])
        BY <1>1, <3>1, <3>2, CommitPlan
      <3>4. orig[w] = MovementLegs(log, g) /\ orig[x] = MovementLegs(log, g)
        BY <1>2, <3>2, <3>3 DEF RInv, Exact, LegsCurrent
      <3>5. LegsRead(w) = orig[w] /\ LegsRead(x) = orig[x]
        BY <3>2 DEF LegsRead, SetFor
      <3>6. /\ DOMAIN plan[w].legs = {y.account : y \in LegsRead(w)}
            /\ DOMAIN plan[x].legs = {y.account : y \in LegsRead(x)}
            /\ a \in DOMAIN plan[x].legs
        BY <1>2, <3>2, <3>3 DEF LegsFor
      <3> QED  BY <1>3, <3>4, <3>5, <3>6
    <2> QED  BY <2>1, <2>2
  <1> QED  BY <1>6 DEF RevertersOf

(* Hence the other workers' decisions stay exact.                            *)
LEMMA ExactBeside ==
  ASSUME IInv, RInv, NEW w \in Worker, CommitWrites(w), NEW x \in Worker, Same(x),
         others'[x] = others[x], at'[x] = at[x]
  PROVE  Exact(x)'
  <1>1. Exact(x)
    BY DEF RInv
  <1>2. Accepting(x)' <=> Accepting(x)
    BY DEF Accepting, Same
  <1>3. Staged(x)' /\ Anchored(x)'
    BY <1>1, <1>2 DEF Exact, Same, Staged, Anchored
  <1>4. Decided(x)'
    BY <1>1, <1>2 DEF Exact, Same, Decided, HoldRead, LegsRead
  <1>5. HoldCurrent(x)'
    <2> SUFFICES ASSUME pc[x] = "others" \/ Accepting(x), req[x].cmd.kind \in HoldKinds,
                        AtHead(x, req[x].cmd.account)'
                 PROVE  hold[x] = OpenHold(log'[req[x].cmd.account], req[x].cmd.hold)
      BY <1>2 DEF HoldCurrent, Same
    <2>1. req[x].cmd.account \in Account
      BY RequestOK DEF Accepting
    <2>2. /\ log'[req[x].cmd.account] = log[req[x].cmd.account]
          /\ AtHead(x, req[x].cmd.account)
      BY <2>1, StillAtHead DEF Same, AtHead
    <2>3. hold[x] = OpenHold(log[req[x].cmd.account], req[x].cmd.hold)
      BY <1>1, <2>2 DEF Exact, HoldCurrent
    <2> QED  BY <2>2, <2>3
  <1>6. LegsCurrent(x)'
    <2> SUFFICES ASSUME pc[x] \in {"others", "reverted"} \/ Accepting(x),
                        req[x].cmd.kind = "Revert", orig[x] # {}
                 PROVE  orig[x] = MovementLegs(log', req[x].cmd.transfer)
      BY <1>2 DEF LegsCurrent, Same
    <2>1. req[x].cmd.transfer \in CommandId
      BY RequestOK, Kinds DEF Accepting
    <2>2. orig[x] = MovementLegs(log, req[x].cmd.transfer)
      BY <1>1 DEF Exact, LegsCurrent
    <2> QED  BY <2>1, <2>2, MovementStable
  <1>7. Unreverted(x)'
    BY <1>2, UnrevertedBeside DEF Unreverted, Same
  <1> QED  BY <1>3, <1>4, <1>5, <1>6, <1>7 DEF Exact

(* A commit, whether or not its answer arrives.                              *)
LEMMA RCommit ==
  ASSUME IInv, RInv, NEW w \in Worker, CommitWrites(w), Leave(w)
  PROVE  RInv'
  <1>1. now' = now /\ log' = [a \in Account |-> log'[a]]
    BY DEF CommitWrites
  <1>2. GroupsNamed' /\ HoldsCaptured'
    BY GroupsNamedCommit, HoldsCapturedCommit
  <1>3. pc'[w] = "idle" /\ taken'[w] = {} /\ \A x \in Worker \ {w} : Same(x)
    BY LeaveOK
  <1>4. /\ DOMAIN others' = Worker /\ at'[w] = 0
        /\ \A x \in Worker \ {w} : others'[x] = others[x] /\ at'[x] = at[x]
    BY DEF Leave, Forget, RInv, IInv, Counters
  <1>5. \A x \in Worker : Exact(x)'
    BY <1>3, <1>4, ExactEarly, ExactBeside
  <1>6. \A x \in Worker : at'[x] <= now'
    <2>1. 0 <= now
      BY UowAssumption DEF IInv, Counters
    <2> QED  BY <1>1, <1>4, <2>1 DEF RInv
  <1> QED  BY <1>1, <1>2, <1>4, <1>5, <1>6 DEF RInv

-----------------------------------------------------------------------------
(* The invariant of the refinement holds *)

(* Nothing has been read, and the deposits of the genesis have no group.     *)
LEMMA RInit == Init => RInv
  <1> SUFFICES ASSUME Init PROVE RInv
    OBVIOUS
  <1> DEFINE e(a) == Atomic!Event("Deposited", Genesis[a], NoId)
  <1>1. log = [a \in Account |-> IF Genesis[a] = 0 THEN Atomic!EmptyStream ELSE <<e(a)>>]
    BY DEF Init, Atomic!Init
  <1>2. \A a : e(a).group = NoId /\ e(a).type = "Deposited"
    BY DEF Atomic!Event
  <1> HIDE DEF e
  <1>3. DOMAIN Atomic!EmptyStream = {}
    BY DEF Atomic!EmptyStream
  <1>4. ASSUME NEW a \in Account, NEW i \in DOMAIN log[a]
        PROVE  log[a][i].group = NoId /\ log[a][i].type = "Deposited"
    <2>1. log[a] = IF Genesis[a] = 0 THEN Atomic!EmptyStream ELSE <<e(a)>>
      BY <1>1
    <2>2. log[a] = <<e(a)>>
      BY <1>3, <2>1
    <2>3. log[a][i] = e(a)
      BY <2>2, OneEvent
    <2> QED  BY <1>2, <2>3
  <1>5. log = [a \in Account |-> log[a]]
    BY <1>1
  <1>6. GroupsNamed
    BY <1>4 DEF GroupsNamed
  <1>7. HoldsCaptured
    BY <1>4 DEF HoldsCaptured
  <1>8. DOMAIN others = Worker /\ now = 0
    BY DEF Init, Atomic!Init
  <1>9. ASSUME NEW w \in Worker PROVE at[w] <= now /\ Exact(w)
    <2>1. pc[w] = "idle" /\ taken[w] = {} /\ at[w] = 0
      BY DEF Init
    <2>2. Exact(w)
      BY <2>1 DEF Exact, Staged, Anchored, HoldCurrent, LegsCurrent, Unreverted, Decided,
                  Accepting
    <2> QED  BY <1>8, <2>1, <2>2
  <1> QED  BY <1>5, <1>6, <1>7, <1>8, <1>9 DEF RInv

(* Time passing and stuttering change nothing that was read.                 *)
LEMMA RTick ==
  ASSUME IInv, RInv, Tick \/ UNCHANGED vars
  PROVE  RInv'
  <1>1. UNCHANGED <<log, results, pc, req, at, folds, hold, orig, others, plan, taken>>
    BY DEF Tick, vars, db, reads
  <1>2. now \in Nat /\ (now' = now \/ now' = now + 1)
    BY UowAssumption DEF Tick, vars, db, IInv, Counters
  <1>3. ASSUME NEW x \in Worker PROVE at'[x] <= now' /\ Exact(x)'
    <2>1. Same(x) /\ Exact(x) /\ at[x] <= now /\ at[x] \in Nat
      BY <1>1, UowAssumption DEF Same, RInv, IInv, Counters
    <2>2. Exact(x)'
      BY <1>1, <2>1, ExactFrame
    <2> QED  BY <1>1, <1>2, <2>1, <2>2
  <1>4. GroupsNamed' /\ HoldsCaptured' /\ log' = [a \in Account |-> log'[a]]
    <2>1. log = [a \in Account |-> log[a]] /\ GroupsNamed /\ HoldsCaptured
      BY DEF RInv
    <2> QED  BY <1>1, <2>1 DEF GroupsNamed, HoldsCaptured
  <1>5. DOMAIN others' = Worker
    BY <1>1 DEF RInv
  <1> QED  BY <1>3, <1>4, <1>5 DEF RInv

(* Every step of execute() preserves it.                                     *)
LEMMA RWork ==
  ASSUME IInv, RInv, NEW w \in Worker, Work(w)
  PROVE  RInv'
  <1>1. CASE Replay(w) \/ IdConflict(w) \/ GiveUpRace(w) \/ AppendFails(w)
    BY <1>1, RLeave DEF Replay, IdConflict, GiveUpRace, AppendFails
  <1>2. CASE Commit(w)
    BY <1>2, RCommit DEF Commit
  <1> QED
    BY <1>1, <1>2, RBegin, RFoldAnchor, RReadOpenHold, RReadLegs, RFoldOther,
       RReadRevertedBy, RWrite, RRetry DEF Work

(* What a worker has read stays true of the log up to its commit.            *)
THEOREM ReadsStayTrue == Spec => [](IInv /\ RInv)
  <1>1. IInv /\ RInv /\ [Next]_vars => RInv'
    <2> SUFFICES ASSUME IInv, RInv, [Next]_vars PROVE RInv'
      OBVIOUS
    <2>1. CASE Tick \/ UNCHANGED vars
      BY <2>1, RTick
    <2>2. ASSUME NEW w \in Worker, NEW r \in Requests, Submit(w, r) PROVE RInv'
      BY <2>2, RBegin
    <2>3. ASSUME NEW w \in Worker, Work(w) PROVE RInv'
      BY <2>3, RWork
    <2>4. ASSUME NEW w \in Worker, LoseConnection(w) PROVE RInv'
      BY <2>4, RLeave DEF LoseConnection
    <2>5. ASSUME NEW w \in Worker, LoseAnswer(w) PROVE RInv'
      BY <2>5, RCommit DEF LoseAnswer
    <2> QED  BY <2>1, <2>2, <2>3, <2>4, <2>5 DEF Next
  <1> QED  BY <1>1, RInit, Invariance, PTL DEF Spec

-----------------------------------------------------------------------------
(* The refinement, step by step *)

(* The committer's folds are the present states of the streams it writes to. *)
LEMMA FoldsCurrent ==
  ASSUME IInv, RInv, NEW w \in Worker, pc[w] = "commit", plan[w].outcome = "accepted",
         NEW a \in DOMAIN plan[w].legs
  PROVE  /\ a \in Account
         /\ folds[w][a] = Fold(log[a])
         /\ folds[w][a].version = Version(log[a])
         /\ folds[w][a] = Atomic!States[a]
         /\ folds[w][a].version = Atomic!Version(log[a])
  <1>1. a \in Account /\ AtHead(w, a) /\ LogOK /\ FoldsOK(w)
    BY CommitPlan DEF IInv, WorkerOK
  <1>2. folds[w][a] = Fold(log[a])
    BY <1>1, FoldAtHead DEF AtHead
  <1>3. folds[w][a].version = Version(log[a])
    <2>1. Fold(log[a]).version = Version(log[a])
      BY Zenon DEF Fold
    <2> QED  BY <1>2, <2>1
  <1>4. Atomic!States[a] = Atomic!Fold(log[a])
    BY <1>1, Zenon DEF Atomic!States
  <1> QED  BY <1>1, <1>2, <1>3, <1>4, SameFold, SameVersion, Zenon

(* What it read is what the atomic execution reads at the commit.            *)
LEMMA ReadsCurrent ==
  ASSUME IInv, RInv, NEW w \in Worker, pc[w] = "commit", plan[w].outcome = "accepted",
         NEW c, c = req[w].cmd
  PROVE  /\ c.kind \in HoldKinds => hold[w] = OpenHold(log[c.account], c.hold)
         /\ c.kind = "Revert" =>
              /\ orig[w] = MovementLegs(log, c.transfer)
              /\ RevertersOf(log, c.transfer) = {}
  <1>1. /\ Accepting(w) /\ AtHead(w, c.account)
        /\ c.kind = "Revert" => orig[w] # {}
    BY CommitPlan DEF LegsFor
  <1>2. HoldCurrent(w) /\ LegsCurrent(w) /\ Unreverted(w)
    BY DEF RInv, Exact
  <1> QED  BY <1>1, <1>2 DEF HoldCurrent, LegsCurrent, Unreverted

(* A decision that accepts is the same on states that agree with it.         *)
LEMMA DecidedAgain ==
  ASSUME NEW r \in Requests, NEW s, NEW s2, NEW h, NEW l, NEW rv, NEW t, Known(l)
  PROVE  \A d : d = DecideLegs(s, h, l, rv, r, t) =>
           (d.outcome = "accepted" /\ Agree(s, s2, d.legs) =>
              DecideLegs(s2, h, l, FALSE, r, t) = d)
  BY DecideLegsFor

(* An acceptance rests on any states that agree with the ones it was made on. *)
LEMMA RestsOnAgreeing ==
  ASSUME NEW r \in Requests, NEW s, NEW s2, NEW h, NEW l, NEW t, Known(l),
         NEW d, RestsOn(d, s, h, l, r, t), d.outcome = "accepted", Agree(s, s2, d.legs)
  PROVE  RestsOn(d, s2, h, l, r, t)
  <1> DEFINE hr == HoldFor(h, r)
             lr == SetFor(l, r)
  <1>1. Known(lr)
    BY DEF Known, SetFor
  <1> HIDE DEF hr, lr
  <1>2. ASSUME NEW rv
        PROVE  \A y : y = DecideLegs(s, hr, lr, rv, r, t) =>
                 (y.outcome = "accepted" /\ Agree(s, s2, y.legs) =>
                    DecideLegs(s2, hr, lr, FALSE, r, t) = y)
    BY <1>1, DecidedAgain, Zenon
  <1>3. d = DecideLegs(s, hr, lr, FALSE, r, t)
    BY Zenon DEF RestsOn, hr, lr
  <1>4. DecideLegs(s2, hr, lr, FALSE, r, t) = d
    BY <1>2, <1>3, Zenon
  <1> QED  BY <1>4, Zenon DEF RestsOn, hr, lr

(* So the atomic execution decides the same.                                 *)
LEMMA SameDecision ==
  ASSUME IInv, RInv, NEW w \in Worker, pc[w] = "commit", plan[w].outcome = "accepted"
  PROVE  Atomic!Decision(req[w], at[w]) = plan[w]
  <1> DEFINE r == req[w]
             c == r.cmd
             h == HoldRead(w)
             l == LegsRead(w)
             s == folds[w]
             s2 == Atomic!States
  <1>1. r \in Requests /\ Known(orig[w])
    BY CommitPlan DEF Known, IInv, WorkerOK, ReadsOK
  <1>2. plan[w] = DecideLegs(s, h, l, FALSE, r, at[w])
    BY CommitPlan DEF RInv, Exact, Decided
  <1>3. Agree(s, s2, plan[w].legs)
    BY FoldsCurrent DEF Agree
  <1>4. DecideLegs(s2, h, l, FALSE, r, at[w]) = plan[w]
    <2>1. RestsOn(plan[w], s, hold[w], orig[w], r, at[w])
      BY <1>2, Zenon DEF RestsOn, HoldRead, LegsRead
    <2> HIDE DEF s, s2, r
    <2>2. RestsOn(plan[w], s2, hold[w], orig[w], r, at[w])
      BY <1>1, <1>3, <2>1, RestsOnAgreeing
    <2> QED  BY <2>2, Zenon DEF RestsOn, HoldRead, LegsRead, r
  <1>5. h = IF c.kind \in HoldKinds THEN OpenHold(log[c.account], c.hold) ELSE NoHold
    BY ReadsCurrent DEF HoldRead, HoldFor
  <1>6. l = IF c.kind = "Revert" THEN MovementLegs(log, c.transfer) ELSE {}
    BY ReadsCurrent DEF LegsRead, SetFor
  <1>7. (c.kind = "Revert" /\ RevertersOf(log, c.transfer) # {}) = FALSE
    BY ReadsCurrent
  <1> DEFINE ah == IF c.kind \in {"PostHold", "VoidHold", "ExpireHold"}
                   THEN Atomic!OpenHold(log[c.account], c.hold) ELSE Atomic!NoHold
             al == IF c.kind = "Revert" THEN Atomic!MovementLegs(log, c.transfer) ELSE {}
             av == c.kind = "Revert" /\ Atomic!RevertersOf(log, c.transfer) # {}
  <1>8. Atomic!Decision(r, at[w]) = Atomic!DecideLegs(Atomic!States, ah, al, av, r, at[w])
    BY Zenon DEF Atomic!Decision
  <1>9. ah = h /\ al = l /\ av = FALSE
    <2>1. ah = h
      BY <1>5, SameOpenHold, SameNoHold DEF HoldKinds
    <2>2. al = l
      BY <1>6, SameMovementLegs
    <2>3. av = FALSE
      BY <1>7, SameRevertersOf
    <2> QED  BY <2>1, <2>2, <2>3
  <1> HIDE DEF ah, al, av, h, l, s2, r
  <1>10. Atomic!Decision(r, at[w]) = Atomic!DecideLegs(s2, h, l, FALSE, r, at[w])
    BY <1>8, <1>9, Zenon DEF s2
  <1> QED  BY <1>4, <1>10, SameDecideLegs, Zenon DEF r

(* None of the planned appends raises on the present states.                 *)
LEMMA NoAppendRaises ==
  ASSUME IInv, RInv, NEW w \in Worker, pc[w] = "commit", plan[w].outcome = "accepted",
         NEW a \in DOMAIN plan[w].legs
  PROVE  ~Atomic!AppendRaises(Atomic!States[a], plan[w].legs[a])
  <1> DEFINE s == plan[w].legs[a]
             last == <<a, Len(s)>>
  <1>1. OneOrTwo(s) /\ \A k \in DOMAIN s : <<a, k>> \in taken[w]
    BY CommitPlan DEF LegsFor
  <1>2. Len(s) \in DOMAIN s /\ SubSeq(s, 1, Len(s)) = s
    <2>1. PICK n \in {1, 2} : DOMAIN s = 1..n /\ Len(s) = n
      BY <1>1, PlannedSequence
    <2> QED  BY <1>1, <2>1, PlannedSequence
  <1>3. last \in taken[w] /\ last[1] = a /\ last[2] = Len(s)
    BY <1>1, <1>2
  <1> HIDE DEF last
  <1>4. ~AppendRaises(folds[w][last[1]], SubSeq(plan[w].legs[last[1]], 1, last[2]))
    BY <1>3 DEF RInv, Exact, Decided
  <1>5. ~AppendRaises(folds[w][a], s)
    BY <1>2, <1>3, <1>4
  <1> HIDE DEF s
  <1> QED  BY <1>5, FoldsCurrent, SameAppendRaises DEF s

(* An accepted commit is the atomic execution of its command.                *)
LEMMA CommitAccepts ==
  ASSUME IInv, RInv, NEW w \in Worker, CommitWrites(w), plan[w].outcome = "accepted"
  PROVE  Atomic!Accept(req[w], at[w])
  <1> DEFINE r == req[w]
             c == r.cmd
             d == plan[w]
  <1>1. pc[w] = "commit"
    BY DEF CommitWrites
  <1>2. results[r.id] = Atomic!NoResult
    BY <1>1 DEF IInv, ResultsOK
  <1>3. c.account \in DOMAIN d.legs
    BY <1>1, CommitPlan DEF LegsFor
  <1>4. Atomic!VersionMatches(r)
    <2>1. folds[w][c.account].version = c.expected
      BY <1>1, CommitPlan DEF RInv, Exact, Anchored
    <2>2. folds[w][c.account].version = Atomic!Version(log[c.account])
      BY <1>1, <1>3, FoldsCurrent
    <2> QED  BY <2>1, <2>2 DEF Atomic!VersionMatches
  <1>5. \A a \in DOMAIN d.legs : ~Atomic!AppendRaises(Atomic!States[a], d.legs[a])
    BY <1>1, NoAppendRaises
  <1>6. log' = [a \in Account |->
                  IF a \in DOMAIN d.legs
                  THEN Atomic!InsertRows(log[a], Atomic!Version(log[a]), d.legs[a])
                  ELSE log[a]]
    <2>1. \A a \in DOMAIN d.legs : folds[w][a].version = Atomic!Version(log[a])
      BY <1>1, FoldsCurrent
    <2>2. log' = [a \in Account |->
                    IF a \in DOMAIN d.legs
                    THEN Atomic!InsertRows(log[a], folds[w][a].version, d.legs[a])
                    ELSE log[a]]
      BY Zenon DEF CommitWrites
    <2> HIDE DEF d
    <2> QED  BY <2>1, <2>2
  <1>7. results' = [results EXCEPT ![r.id] =
                      Atomic!Result(r, "accepted", c.expected,
                                    c.expected + Len(d.legs[c.account]))]
    <2>1. results' = [results EXCEPT ![r.id] = ResultOf(w)]
      BY Zenon DEF CommitWrites
    <2>2. ResultOf(w) = Atomic!Result(r, "accepted", c.expected,
                                      c.expected + Len(d.legs[c.account]))
      BY Zenon DEF ResultOf
    <2> QED  BY <2>1, <2>2, Zenon
  <1>8. now' = now
    BY DEF CommitWrites
  <1>9. Atomic!AppendAll(r, d)
    BY <1>5, <1>6, <1>7, <1>8, Zenon DEF Atomic!AppendAll, Atomic!Persist
  <1>10. Atomic!Decision(r, at[w]) = d
    BY <1>1, SameDecision
  <1>11. Atomic!Decision(r, at[w]).outcome = "accepted"
         /\ Atomic!AppendAll(r, Atomic!Decision(r, at[w]))
    BY <1>9, <1>10, Zenon
  <1> QED  BY <1>2, <1>4, <1>11, Zenon DEF Atomic!Accept

(* A rejected one appends nothing and reports a version the anchor had.      *)
LEMMA CommitRejects ==
  ASSUME IInv, RInv, NEW w \in Worker, CommitWrites(w), plan[w].outcome # "accepted"
  PROVE  Atomic!RejectOnSomeReads(req[w])
  <1> DEFINE r == req[w]
             c == r.cmd
             o == plan[w].outcome
             v == folds[w][c.account].version
             n == Atomic!Version(log[c.account])
  <1>1. pc[w] = "commit" /\ now' = now
    BY DEF CommitWrites
  <1>2. results[r.id] = Atomic!NoResult
    BY <1>1 DEF IInv, ResultsOK
  <1>3. DOMAIN plan[w].legs = {} /\ o \in Outcomes
    BY <1>1, CommitPlan
  <1>4. o \in Atomic!Rejections
    BY <1>3 DEF Outcomes, Atomic!Rejections
  <1>5. log' = log
    <2>1. log = [a \in Account |-> log[a]]
      BY DEF RInv
    <2>2. log' = [a \in Account |-> log[a]]
      BY <1>3 DEF CommitWrites
    <2> QED  BY <2>1, <2>2, Zenon
  <1>6. v \in 0..n
    <2>1. c.account \in Account
      BY <1>1, RequestOK
    <2>2. PICK m \in Nat : DOMAIN log[c.account] = 1..m
      BY <2>1 DEF IInv, LogOK
    <2>3. n = m
      <3>1. Fold(log[c.account]).version = m
        BY <2>2, FoldVersion
      <3>2. Fold(log[c.account]).version = Version(log[c.account])
        BY Zenon DEF Fold
      <3> QED  BY <3>1, <3>2, SameVersion, Zenon
    <2>4. v \in Nat /\ 1..v \subseteq 1..m
      BY <2>1, <2>2 DEF IInv, WorkerOK, FoldsOK
    <2> HIDE DEF v, n
    <2>5. v = 0 \/ v \in 1..v
      BY <2>4
    <2> QED  BY <2>3, <2>4, <2>5
  <1>7. results' = [results EXCEPT ![r.id] = Atomic!Result(r, o, v, 0)]
    <2>1. results' = [results EXCEPT ![r.id] = ResultOf(w)]
      BY Zenon DEF CommitWrites
    <2>2. ResultOf(w) = Atomic!Result(r, o, v, 0)
      BY Zenon DEF ResultOf
    <2> QED  BY <2>1, <2>2, Zenon
  <1>8. Atomic!Persist(r, Atomic!Result(r, o, v, 0))
    BY <1>7, Zenon DEF Atomic!Persist
  <1> HIDE DEF o, v, n, r
  <1>9. \E outcome \in Atomic!Rejections, u \in 0..n :
          Atomic!Persist(r, Atomic!Result(r, outcome, u, 0))
    BY <1>4, <1>6, <1>8
  <1> QED  BY <1>1, <1>2, <1>5, <1>9, Zenon DEF Atomic!RejectOnSomeReads, n, r

(* Either way a commit is a step of the atomic specification.                *)
LEMMA CommitImplements ==
  ASSUME IInv, RInv, NEW w \in Worker, CommitWrites(w)
  PROVE  Atomic!ConcurrentNext
  <1>1. req[w] \in Requests
    BY RequestOK DEF CommitWrites
  <1>2. CASE plan[w].outcome = "accepted"
    <2>1. Atomic!Accept(req[w], at[w])
      BY <1>2, CommitAccepts
    <2>2. at[w] \in 0..now
      BY UowAssumption DEF RInv, IInv, Counters
    <2> QED  BY <1>1, <2>1, <2>2, Zenon DEF Atomic!ConcurrentNext
  <1>3. CASE plan[w].outcome # "accepted"
    <2>1. Atomic!RejectOnSomeReads(req[w])
      BY <1>3, CommitRejects
    <2> QED  BY <1>1, <2>1, Zenon DEF Atomic!ConcurrentNext
  <1> QED  BY <1>2, <1>3

(* The SQL transactions implement atomic execution: every commit is one      *)
(* accepted command, decided on the very log it commits to, or a rejection   *)
(* that appends nothing; all other statements leave the database as it is.   *)
THEOREM Refinement == Spec => ImplementsLedger
  <1>1. Init => Atomic!Init
    BY DEF Init
  <1>2. IInv /\ RInv /\ [Next]_vars => [Atomic!ConcurrentNext]_(Atomic!vars)
    <2> SUFFICES ASSUME IInv, RInv, [Next]_vars
                 PROVE  Atomic!ConcurrentNext \/ UNCHANGED Atomic!vars
      OBVIOUS
    <2>1. CASE Tick
      BY <2>1, Zenon DEF Tick, Atomic!ConcurrentNext, Atomic!Tick
    <2>2. ASSUME NEW w \in Worker, CommitWrites(w) PROVE Atomic!ConcurrentNext
      BY <2>2, CommitImplements
    <2>3. CASE UNCHANGED db
      BY <2>3 DEF db, Atomic!vars
    <2>4. ASSUME NEW w \in Worker, Work(w) PROVE CommitWrites(w) \/ UNCHANGED db
      BY <2>4 DEF Work, FindNoResult, Replay, IdConflict, FoldAnchor, ReadOpenHold,
                  ReadLegs, ReadRevertedBy, FoldOther, AppendEvent, PersistResult,
                  Commit, RetryRace, GiveUpRace, AppendFails
    <2>5. ASSUME NEW w \in Worker, LoseAnswer(w) PROVE CommitWrites(w)
      BY <2>5 DEF LoseAnswer
    <2>6. ASSUME NEW w \in Worker, LoseConnection(w) \/ \E r \in Requests : Submit(w, r)
          PROVE  UNCHANGED db
      BY <2>6 DEF LoseConnection, Submit
    <2>7. CASE UNCHANGED vars
      BY <2>7, <2>3 DEF vars
    <2> QED  BY <2>1, <2>2, <2>3, <2>4, <2>5, <2>6, <2>7 DEF Next
  <1> QED
    BY <1>1, <1>2, ReadsStayTrue, PTL DEF Spec, ImplementsLedger, Atomic!ConcurrentSpec
=============================================================================
