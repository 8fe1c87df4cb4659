------------------------------- MODULE MCLedger -------------------------------
(* A small instance of Ledger: two parties and a third payee.  One command id *)
(* starts a hold, a transfer or a three-leg set, a second and a third settle  *)
(* or revert it, or revert the reversal, and a fourth spends what moved, each *)
(* at every version its stream can reach and past the last version number.    *)
EXTENDS Ledger

CONSTANTS start, first, second, spend

MCAccount  == {1, 2, 3}
MCGenesis  == [a \in MCAccount |-> IF a = 1 THEN 3 ELSE 0]

(* c at every version from the one its account starts with.                   *)
At(id, c) ==
  {[id |-> id, cmd |-> [c EXCEPT !.expected = e]] : e \in (IF c.account = 1 THEN 1 ELSE 0)..4}

HoldCmd     == [kind |-> "Hold", account |-> 1, expected |-> 0,
                target |-> 2, amount |-> 2, ttl |-> 1]
TransferCmd == [kind |-> "Transfer", account |-> 1, expected |-> 0, target |-> 2, amount |-> 2]
SplitCmd    == [kind |-> "Post", account |-> 1, expected |-> 0,
                postings |-> <<Leg(1, 3, "debit"), Leg(2, 1, "credit"), Leg(3, 2, "credit")>>]

CaptureCmd(n)    == [kind |-> "PostHold", account |-> 1, expected |-> 0,
                     hold |-> start, amount |-> n]
ReleaseCmd(kind) == [kind |-> kind, account |-> 1, expected |-> 0, hold |-> start]
RevertCmd(id, a) == [kind |-> "Revert", account |-> a, expected |-> 0, transfer |-> id]

WithdrawCmd(a)   == [kind |-> "Withdraw", account |-> a, expected |-> 0, amount |-> 1]
DepositCmd       == [kind |-> "Deposit", account |-> 2, expected |-> 0, amount |-> 4]

MCRequests ==
  UNION {At(start, HoldCmd), At(start, TransferCmd), At(start, SplitCmd),
         At(first, CaptureCmd(1)), At(first, CaptureCmd(0)), At(first, RevertCmd(start, 1)),
         At(second, ReleaseCmd("VoidHold")), At(second, ReleaseCmd("ExpireHold")),
         At(second, RevertCmd(start, 1)), At(second, RevertCmd(first, 2)),
         At(spend, WithdrawCmd(1)), At(spend, WithdrawCmd(2)), At(spend, DepositCmd)}
=============================================================================
