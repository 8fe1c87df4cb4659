----------------------------- MODULE MCCommandUow -----------------------------
(* Instances of CommandUow.  Contended: crossing transfers with a deposit     *)
(* racing for the target stream, a hold captured, voided and expired at once  *)
(* or captured in part at the last version but one, and command ids reused    *)
(* for other requests.  Reverts: reversals of one posting set with different  *)
(* anchors.                                                                   *)
EXTENDS CommandUow

CONSTANTS c1, c2, c3, c4

Req(id, c) == [id |-> id, cmd |-> c]

TransferCmd(a, b, e, n) ==
  [kind |-> "Transfer", account |-> a, expected |-> e, target |-> b, amount |-> n]
DepositCmd(a, e, n) == [kind |-> "Deposit", account |-> a, expected |-> e, amount |-> n]
ReleaseCmd(kind)    == [kind |-> kind, account |-> 2, expected |-> 2, hold |-> c4]

CaptureCmd(e) ==
  [kind |-> "PostHold", account |-> 2, expected |-> e, hold |-> c4, amount |-> 1]

ContendedRequests ==
  {Req(c1, TransferCmd(1, 2, 1, 2)), Req(c2, TransferCmd(2, 1, 1, 2)),
   Req(c3, DepositCmd(2, 1, 1)),
   Req(c4, [kind |-> "Hold", account |-> 2, expected |-> 1, target |-> 1,
            amount |-> 2, ttl |-> 1]),
   Req(c2, CaptureCmd(2)), Req(c3, CaptureCmd(3)),
   Req(c3, ReleaseCmd("VoidHold")), Req(c3, ReleaseCmd("ExpireHold"))}
ContendedAccount == {1, 2}
ContendedGenesis == [a \in ContendedAccount |-> 2]

SplitCmd == [kind |-> "Post", account |-> 1, expected |-> 1,
             postings |-> <<Leg(1, 1, "debit"), Leg(3, 2, "credit"), Leg(2, 1, "debit")>>]
RevertCmd(a, g, e) == [kind |-> "Revert", account |-> a, expected |-> e, transfer |-> g]
RevertRequests ==
  {Req(c1, SplitCmd), Req(c2, RevertCmd(1, c1, 2)), Req(c3, RevertCmd(2, c1, 2)),
   Req(c4, RevertCmd(1, c1, 3))}
RevertAccount == {1, 2, 3}
RevertGenesis == [a \in RevertAccount |-> IF a = 3 THEN 2 ELSE 1]

WorkerSymmetry == Permutations(Worker)
=============================================================================
