---------------------------- MODULE AccountDomain ----------------------------
(***************************************************************************)
(* The pure Account aggregate: events and what each does to a balance,     *)
(* commands and when they are well formed, the fold of a stream, and the   *)
(* decision functions.  Nothing here reads or writes storage: a decision   *)
(* takes folded states, an open hold or a posting set as arguments and     *)
(* yields an outcome with the events to append, or a rejection.            *)
(*                                                                         *)
(* A stream is a function from the sequence numbers its rows carry (the    *)
(* `seq` column) to events; that one key holds one row is the table's      *)
(* UNIQUE (stream, seq).  Account identifiers are numbers because the code *)
(* sorts by them.                                                          *)
(***************************************************************************)
EXTENDS Integers, Sequences, FiniteSets, SequencesExt

CONSTANTS
  Account,     \* account identifiers, one stream each
  CommandId,   \* command, hold and transfer identifiers share one id space
  NoId,        \* the NULL of an identifier column
  MaxBigint,   \* MAX_SIGNED_BIGINT as it bounds amounts and balances
  MaxVersion   \* MAX_SIGNED_BIGINT as it bounds stream versions

ASSUME DomainAssumption ==
  /\ Account \subseteq Nat \ {0}
  /\ NoId \notin CommandId
  /\ MaxBigint \in Nat \ {0}
  /\ MaxVersion \in Nat \ {0}

NoAccount == 0

-----------------------------------------------------------------------------
(* Events *)

EventType == {"Deposited", "Withdrawn", "TransferDebited", "TransferCredited",
              "HoldPlaced", "HoldReleased", "HoldPosted",
              "ReversalDebited", "ReversalCredited"}

BalanceSign(type) ==
  CASE type \in {"Deposited", "TransferCredited", "ReversalCredited"} -> 1
    [] type \in {"Withdrawn", "TransferDebited", "HoldPosted", "ReversalDebited"} -> -1
    [] OTHER -> 0

HeldSign(type) ==
  CASE type = "HoldPlaced" -> 1
    [] type \in {"HoldReleased", "HoldPosted"} -> -1
    [] OTHER -> 0

(* `group` is the transfer_id column (a hold's id included), `cmd` the      *)
(* envelope's command_id; a column the event does not use is NULL.          *)
Event(type, amount, cmd) ==
  [type |-> type, amount |-> amount, cmd |-> cmd, group |-> NoId,
   counterparty |-> NoAccount, expires |-> 0, reason |-> "none", reverts |-> NoId]

GroupedEvent(type, amount, cmd, group, counterparty) ==
  [Event(type, amount, cmd) EXCEPT !.group = group, !.counterparty = counterparty]

ValidAmount(n) == n \in 1..MaxBigint

(* What the constructors of the events insist on: the group's id, another     *)
(* account as the counterparty, and that nothing reverts itself.              *)
ValidTransferLeg(account, e) ==
  e.group \in CommandId /\ e.counterparty \in Account \ {account}

ValidHoldEvent(account, e) ==
  /\ e.group \in CommandId
  /\ IF e.type = "HoldReleased" THEN e.reason \in {"voided", "expired", "partial"}
     ELSE e.counterparty \in Account \ {account}

ValidReversalLeg(account, e) ==
  ValidTransferLeg(account, e) /\ e.reverts \in CommandId \ {e.group}

ValidEvent(account, e) ==
  /\ account \in Account /\ e.type \in EventType /\ ValidAmount(e.amount)
  /\ e.type \in {"TransferDebited", "TransferCredited"} => ValidTransferLeg(account, e)
  /\ e.type \in {"HoldPlaced", "HoldReleased", "HoldPosted"} => ValidHoldEvent(account, e)
  /\ e.type \in {"ReversalDebited", "ReversalCredited"} => ValidReversalLeg(account, e)

-----------------------------------------------------------------------------
(* The fold.  Deltas commute, so the fold of the rows is a sum; that no     *)
(* prefix of a stream makes `apply` raise is the invariant Foldable.        *)

EmptyStream == [i \in {} |-> NoId]

BalanceDelta(e) == BalanceSign(e.type) * e.amount
HeldDelta(e)    == HeldSign(e.type) * e.amount

Version(stream) == Cardinality(DOMAIN stream)

Fold(stream) ==
  [balance |-> SumFunction([i \in DOMAIN stream |-> BalanceDelta(stream[i])]),
   held    |-> SumFunction([i \in DOMAIN stream |-> HeldDelta(stream[i])]),
   version |-> Version(stream)]

Available(state) == state.balance - state.held

(* Where `apply` raises, and what it returns where it does not.             *)
ApplyRaises(state, e) ==
  \/ state.version = MaxVersion
  \/ BalanceDelta(e) > MaxBigint - state.balance
  \/ state.balance + BalanceDelta(e) < 0
  \/ state.held + HeldDelta(e) < 0
  \/ state.held + HeldDelta(e) > state.balance + BalanceDelta(e)

Apply(state, e) ==
  [balance |-> state.balance + BalanceDelta(e),
   held    |-> state.held + HeldDelta(e),
   version |-> state.version + 1]

(* The tracker's `after_append` applies each new event to the folded state:  *)
(* does it raise on any of the events, appended in this order?               *)
AppendRaises(state, events) ==
  \E k \in DOMAIN events :
    ApplyRaises(FoldLeft(Apply, state, SubSeq(events, 1, k - 1)), events[k])

-----------------------------------------------------------------------------
(* Commands, as their constructors let them through *)

Leg(account, amount, direction) ==
  [account |-> account, amount |-> amount, direction |-> direction]

LegsOf(c) ==
  IF c.kind = "Transfer"
  THEN <<Leg(c.account, c.amount, "debit"), Leg(c.target, c.amount, "credit")>>
  ELSE c.postings

LegTotal(legs, direction) ==
  SumFunctionOnSet([i \in DOMAIN legs |-> legs[i].amount],
                   {i \in DOMAIN legs : legs[i].direction = direction})

ValidLeg(leg) ==
  leg.account \in Account /\ ValidAmount(leg.amount) /\ leg.direction \in {"debit", "credit"}

MaxLegs == 16

ValidPostings(c) ==
  /\ Len(c.postings) \in 2..MaxLegs /\ DOMAIN c.postings = 1..Len(c.postings)
  /\ \A i \in DOMAIN c.postings :
       /\ ValidLeg(c.postings[i])
       /\ \A j \in DOMAIN c.postings :
            c.postings[i].account = c.postings[j].account => i = j
  /\ LegTotal(c.postings, "debit") = LegTotal(c.postings, "credit")
  /\ \E i \in DOMAIN c.postings :
       /\ c.postings[i].account = c.account
       /\ c.postings[i].direction = "debit"

(* The commands that name a hold or a set to revert; a capture without an     *)
(* amount is one of 0.                                                        *)
ValidFollowUp(c) ==
  \/ c.kind = "PostHold" /\ c.hold \in CommandId /\ (c.amount = 0 \/ ValidAmount(c.amount))
  \/ c.kind \in {"VoidHold", "ExpireHold"} /\ c.hold \in CommandId
  \/ c.kind = "Revert" /\ c.transfer \in CommandId

ValidCommand(c) ==
  /\ c.account \in Account
  /\ c.expected \in 0..MaxVersion
  /\ \/ c.kind \in {"Deposit", "Withdraw"} /\ ValidAmount(c.amount)
     \/ c.kind = "Transfer" /\ ValidAmount(c.amount) /\ c.target \in Account \ {c.account}
     \/ c.kind = "Post" /\ ValidPostings(c)
     \/ /\ c.kind = "Hold" /\ ValidAmount(c.amount) /\ c.target \in Account \ {c.account}
        /\ c.ttl \in Nat \ {0}
     \/ ValidFollowUp(c)

-----------------------------------------------------------------------------
(* What a decision derives from the log *)

HoldEvents(stream, h) ==
  {i \in DOMAIN stream :
     /\ stream[i].group = h
     /\ stream[i].type \in {"HoldPlaced", "HoldReleased", "HoldPosted"}}

(* Mutant: a release does not close the hold.                               *)
ClosesHoldPosted(e) == e.type = "HoldPosted"

ClosesHold(e) ==
  e.type = "HoldPosted" \/ (e.type = "HoldReleased" /\ e.reason # "partial")

NoHold == [amount |-> 0, counterparty |-> NoAccount, expires |-> 0]

(* open_hold_from_events: the last placement, unless any event closed it.   *)
OpenHold(stream, h) ==
  LET rows   == HoldEvents(stream, h)
      placed == {i \in rows : stream[i].type = "HoldPlaced"}
      e      == stream[Max(placed)]
  IN  IF placed = {} \/ \E i \in rows : ClosesHold(stream[i])
      THEN NoHold
      ELSE [amount |-> e.amount, counterparty |-> e.counterparty, expires |-> e.expires]

MovementTypes == {"TransferDebited", "TransferCredited", "HoldPosted",
                  "ReversalDebited", "ReversalCredited"}

(* The movement legs of the posting set g, each with its account.           *)
MovementLegs(streams, g) ==
  UNION {{[account |-> a, event |-> streams[a][i]] :
            i \in {j \in DOMAIN streams[a] :
                     streams[a][j].group = g /\ streams[a][j].type \in MovementTypes}} :
         a \in Account}

(* The reversals that name g.                                               *)
RevertersOf(streams, g) ==
  UNION {{streams[a][i].group :
            i \in {j \in DOMAIN streams[a] : streams[a][j].reverts = g}} : a \in Account}

-----------------------------------------------------------------------------
(* Decisions: an outcome, and per account the events to append in order     *)

NoLegs == [a \in {} |-> <<>>]

Rejected(outcome) == [outcome |-> outcome, legs |-> NoLegs]
Accepted(legs)    == [outcome |-> "accepted", legs |-> legs]

(* Mutant: no funds check.                                                  *)
DebitErrorNoFunds(state, amount) ==
  IF state.version = MaxVersion THEN "domain_rejected" ELSE "none"

DebitError(state, amount) ==
  IF state.version = MaxVersion THEN "domain_rejected"
  ELSE IF amount > Available(state) THEN "insufficient_funds"
  ELSE "none"

CreditError(state, amount) ==
  IF state.version = MaxVersion \/ amount > MaxBigint - state.balance
  THEN "domain_rejected" ELSE "none"

Decide(state, c, id) ==
  LET error == IF c.kind = "Deposit" THEN CreditError(state, c.amount)
                                     ELSE DebitError(state, c.amount)
      type  == IF c.kind = "Deposit" THEN "Deposited" ELSE "Withdrawn"
  IN  IF error # "none" THEN Rejected(error)
      ELSE Accepted([a \in {c.account} |-> <<Event(type, c.amount, id)>>])

(* counterparty_for: the other account of two, else the payer; the payer's  *)
(* own leg names the first of the largest credits.                          *)
CounterpartyFor(c, legs, i) ==
  LET credits == {j \in DOMAIN legs : legs[j].direction = "credit"}
      largest == {j \in credits : \A k \in credits : legs[k].amount <= legs[j].amount}
  IN  IF Len(legs) = 2 THEN legs[3 - i].account
      ELSE IF legs[i].account # c.account THEN c.account
      ELSE legs[Min(largest)].account

DecidePostings(states, c, id) ==
  LET legs     == LegsOf(c)
      Error(i) == IF legs[i].direction = "debit"
                  THEN DebitError(states[legs[i].account], legs[i].amount)
                  ELSE CreditError(states[legs[i].account], legs[i].amount)
      bad      == {i \in DOMAIN legs : Error(i) # "none"}
      At(a)    == CHOOSE i \in DOMAIN legs : legs[i].account = a
      EventOf(i) ==
        GroupedEvent(IF legs[i].direction = "debit"
                     THEN "TransferDebited" ELSE "TransferCredited",
                     legs[i].amount, id, id, CounterpartyFor(c, legs, i))
  IN  IF bad # {} THEN Rejected(Error(Min(bad)))
      ELSE Accepted([a \in {legs[i].account : i \in DOMAIN legs} |-> <<EventOf(At(a))>>])

DecideHold(state, c, id, now) ==
  LET error == DebitError(state, c.amount)
      placed == [GroupedEvent("HoldPlaced", c.amount, id, id, c.target)
                   EXCEPT !.expires = now + c.ttl]
  IN  IF error # "none" THEN Rejected(error)
      ELSE Accepted([a \in {c.account} |-> <<placed>>])

(* Mutant: a partial capture keeps the rest reserved.                       *)
DecidePostHoldNoRest(states, hold, c, id, now) ==
  LET amount == IF c.amount = 0 THEN hold.amount ELSE c.amount
  IN  IF hold = NoHold \/ now >= hold.expires \/ hold.amount > states[c.account].held
      THEN Rejected("domain_rejected")
      ELSE Accepted([a \in {c.account, hold.counterparty} |->
                       IF a = c.account
                       THEN <<GroupedEvent("HoldPosted", amount, id, c.hold, hold.counterparty)>>
                       ELSE <<GroupedEvent("TransferCredited", amount, id, c.hold, c.account)>>])

(* Mutant: a partial capture credits the whole hold.                        *)
DecidePostHoldFullCredit(states, hold, c, id, now) ==
  LET amount == IF c.amount = 0 THEN hold.amount ELSE c.amount
  IN  IF hold = NoHold \/ now >= hold.expires \/ hold.amount > states[c.account].held
      THEN Rejected("domain_rejected")
      ELSE Accepted([a \in {c.account, hold.counterparty} |->
                       IF a = c.account
                       THEN <<GroupedEvent("HoldPosted", amount, id, c.hold, hold.counterparty)>>
                       ELSE <<GroupedEvent("TransferCredited", hold.amount, id, c.hold,
                                           c.account)>>])

DecidePostHold(states, hold, c, id, now) ==
  LET source == states[c.account]
      target == states[hold.counterparty]
      amount == IF c.amount = 0 THEN hold.amount ELSE c.amount
      posted == GroupedEvent("HoldPosted", amount, id, c.hold, hold.counterparty)
      rest   == [GroupedEvent("HoldReleased", hold.amount - amount, id, c.hold, NoAccount)
                   EXCEPT !.reason = "partial"]
      credit == GroupedEvent("TransferCredited", amount, id, c.hold, c.account)
  IN  IF \/ hold = NoHold
         \/ now >= hold.expires
         \/ amount > hold.amount
         \/ source.version = MaxVersion
         \/ hold.amount > source.held
         \/ hold.amount > source.balance
         \/ CreditError(target, amount) # "none"
      THEN Rejected("domain_rejected")
      ELSE Accepted([a \in {c.account, hold.counterparty} |->
                       IF a # c.account THEN <<credit>>
                       ELSE IF amount < hold.amount THEN <<posted, rest>>
                       ELSE <<posted>>])

DecideReleaseHold(state, hold, c, id, now) ==
  LET reason == IF c.kind = "VoidHold" THEN "voided" ELSE "expired"
      released == [GroupedEvent("HoldReleased", hold.amount, id, c.hold, NoAccount)
                     EXCEPT !.reason = reason]
  IN  IF \/ hold = NoHold
         \/ c.kind = "ExpireHold" /\ now < hold.expires
         \/ state.version = MaxVersion
         \/ hold.amount > state.held
      THEN Rejected("domain_rejected")
      ELSE Accepted([a \in {c.account} |-> <<released>>])

(* Mutant: a set already reverted is reverted again.                        *)
DecideRevertAgain(states, legs, c, id, reverted) ==
  LET accounts == {l.account : l \in legs}
      Original(a) == (CHOOSE l \in legs : l.account = a).event
      Received(a) == BalanceSign(Original(a).type) > 0
      Error(a) == IF Received(a) THEN DebitError(states[a], Original(a).amount)
                                 ELSE CreditError(states[a], Original(a).amount)
      bad == {a \in accounts : Error(a) # "none"}
      Mirror(a) ==
        [GroupedEvent(IF Received(a) THEN "ReversalDebited" ELSE "ReversalCredited",
                      Original(a).amount, id, id, Original(a).counterparty)
           EXCEPT !.reverts = c.transfer]
  IN  IF legs = {} \/ c.account \notin accounts \/ Received(c.account)
      THEN Rejected("domain_rejected")
      ELSE IF bad # {} THEN Rejected(Error(Min(bad)))
      ELSE Accepted([a \in accounts |-> <<Mirror(a)>>])

(* `_mirror_leg` on each leg in log order; the log holds a set's legs by     *)
(* ascending account, and one leg per account, so that is the order here.    *)
DecideRevert(states, legs, c, id, reverted) ==
  LET accounts == {l.account : l \in legs}
      Original(a) == (CHOOSE l \in legs : l.account = a).event
      Received(a) == BalanceSign(Original(a).type) > 0
      Error(a) == IF Received(a) THEN DebitError(states[a], Original(a).amount)
                                 ELSE CreditError(states[a], Original(a).amount)
      bad == {a \in accounts : Error(a) # "none"}
      Mirror(a) ==
        [GroupedEvent(IF Received(a) THEN "ReversalDebited" ELSE "ReversalCredited",
                      Original(a).amount, id, id, Original(a).counterparty)
           EXCEPT !.reverts = c.transfer]
  IN  IF legs = {} \/ reverted \/ c.account \notin accounts \/ Received(c.account)
      THEN Rejected("domain_rejected")
      ELSE IF bad # {} THEN Rejected(Error(Min(bad)))
      ELSE Accepted([a \in accounts |-> <<Mirror(a)>>])

-----------------------------------------------------------------------------
(* _decide_legs: the reads it was given are the arguments.                   *)
DecideLegs(states, hold, legs, reverted, r, now) ==
  LET c == r.cmd
  IN  CASE c.kind \in {"Transfer", "Post"} -> DecidePostings(states, c, r.id)
        [] c.kind = "Hold" -> DecideHold(states[c.account], c, r.id, now)
        [] c.kind = "PostHold" -> DecidePostHold(states, hold, c, r.id, now)
        [] c.kind \in {"VoidHold", "ExpireHold"} ->
             DecideReleaseHold(states[c.account], hold, c, r.id, now)
        [] c.kind = "Revert" -> DecideRevert(states, legs, c, r.id, reverted)
        [] OTHER -> Decide(states[c.account], c, r.id)
=============================================================================
