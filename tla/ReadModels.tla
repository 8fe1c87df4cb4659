------------------------------ MODULE ReadModels ------------------------------
(***************************************************************************)
(* What one row of the feed does to the read models: balances, holds,      *)
(* transfers and transfer_legs.  A table is a function from the keys it    *)
(* holds to rows, so an UPDATE of a key that is not there changes nothing. *)
(* Both tiers run the same statements; those of the SQLite store are       *)
(* mapped.                                                                 *)
(***************************************************************************)
EXTENDS AccountDomain

Row(account, event) == [account |-> account, event |-> event]

EmptyTable  == [k \in {} |-> NoId]
EmptyTables == [balances |-> EmptyTable, holds |-> EmptyTable,
                transfers |-> EmptyTable, legs |-> EmptyTable]

Put(table, key, row) == [k \in DOMAIN table \cup {key} |-> IF k = key THEN row ELSE table[k]]

InsertOrIgnore(table, key, row) == IF key \in DOMAIN table THEN table ELSE Put(table, key, row)

(* INSERT OR IGNORE of a zero row, then the deltas: the sums of `apply`, but  *)
(* without its checks.                                                        *)
BalancesAfter(table, r) ==
  LET zero == [balance |-> 0, held |-> 0, version |-> 0]
  IN  Put(table, r.account,
          Apply(InsertOrIgnore(table, r.account, zero)[r.account], r.event))

(* Mutant: only a release ends a hold's row.                                  *)
HoldsPostedOpen(table, r) ==
  LET e == r.event
  IN  IF e.type = "HoldPlaced"
      THEN InsertOrIgnore(table, e.group,
             [source |-> r.account, target |-> e.counterparty, amount |-> e.amount,
              expires |-> e.expires, state |-> "open"])
      ELSE IF e.type = "HoldReleased" /\ e.reason # "partial" /\ e.group \in DOMAIN table
      THEN Put(table, e.group, [table[e.group] EXCEPT !.state = e.reason])
      ELSE table

HoldsAfter(table, r) ==
  LET e == r.event
      Close(state) == IF e.group \in DOMAIN table
                      THEN Put(table, e.group, [table[e.group] EXCEPT !.state = state])
                      ELSE table
  IN  CASE e.type = "HoldPlaced" ->
             InsertOrIgnore(table, e.group,
               [source |-> r.account, target |-> e.counterparty, amount |-> e.amount,
                expires |-> e.expires, state |-> "open"])
        [] e.type = "HoldPosted" -> Close("posted")
        [] e.type = "HoldReleased" /\ e.reason # "partial" -> Close(e.reason)
        [] OTHER -> table

-----------------------------------------------------------------------------
(* transfers and transfer_legs *)

Kind(type) ==
  CASE type \in {"TransferDebited", "TransferCredited"} -> "transfer"
    [] type = "HoldPosted" -> "hold_posting"
    [] type \in {"ReversalDebited", "ReversalCredited"} -> "reversal"
    [] OTHER -> "none"

HasTransferRow(r) == Kind(r.event.type) # "none" /\ r.event.group # NoId

Direction(type) == IF BalanceSign(type) < 0 THEN "debit" ELSE "credit"

(* Mutant: the last leg to arrive decides the kind of the set.                *)
LastKind(current, incoming) == incoming

(* A row's kind is only ever upgraded.                                        *)
StrongerKind(current, incoming) ==
  IF incoming = "reversal" \/ (incoming = "hold_posting" /\ current = "transfer")
  THEN incoming ELSE current

(* The set's row, then the mark on the set that a reversal mirrors: the first *)
(* mark stays, and a set whose row is not there yet gets none.                *)
TransfersAfter(table, r) ==
  LET e      == r.event
      new    == [kind |-> Kind(e.type), reverts |-> e.reverts, revertedBy |-> NoId]
      old    == InsertOrIgnore(table, e.group, new)[e.group]
      rows   == Put(table, e.group, [old EXCEPT !.kind = StrongerKind(@, new.kind)])
      mirror == e.reverts
  IN  IF ~HasTransferRow(r) THEN table
      ELSE IF mirror \in DOMAIN rows /\ rows[mirror].revertedBy = NoId
      THEN Put(rows, mirror, [rows[mirror] EXCEPT !.revertedBy = e.group])
      ELSE rows

LegsAfter(table, r) ==
  IF HasTransferRow(r)
  THEN InsertOrIgnore(table, <<r.event.group, r.account>>,
         [amount |-> r.event.amount, direction |-> Direction(r.event.type)])
  ELSE table

ApplyRow(tables, r) ==
  [balances  |-> BalancesAfter(tables.balances, r),
   holds     |-> HoldsAfter(tables.holds, r),
   transfers |-> TransfersAfter(tables.transfers, r),
   legs      |-> LegsAfter(tables.legs, r)]

(* The read models of a feed applied in order, each row once.                 *)
ProjectFeed(rows) == FoldLeft(ApplyRow, EmptyTables, rows)

-----------------------------------------------------------------------------
(* Queries *)

(* The balances row, or zeroes; BalanceView refuses what no fold of a whole   *)
(* stream can be.                                                             *)
BalanceView(tables, account) ==
  IF account \in DOMAIN tables.balances THEN tables.balances[account]
  ELSE [balance |-> 0, held |-> 0, version |-> 0]

ValidView(view) ==
  view.balance \in 0..MaxBigint /\ view.held >= 0 /\ view.version \in 0..MaxVersion

(* The kind `transfer` shows: a set of more than two legs is a posting.       *)
ShownKind(tables, id) ==
  LET kind == tables.transfers[id].kind
      legs == {k \in DOMAIN tables.legs : k[1] = id}
  IN  IF kind = "transfer" /\ Cardinality(legs) > 2 THEN "posting" ELSE kind

OpenHoldIds(tables) == {h \in DOMAIN tables.holds : tables.holds[h].state = "open"}

(* restore_drill: holds placed and not closed, read from the log alone.       *)
OpenHoldsInLog(rows) ==
  LET Ids(types) == {rows[i].event.group : i \in {j \in DOMAIN rows : rows[j].event.type \in types}}
  IN  Ids({"HoldPlaced"}) \ Ids({"HoldPosted", "HoldReleased"})
=============================================================================
