---------------------------- MODULE MCHoldSweeper ----------------------------
(* A hold that expires, a longer one beside it whose placement moves the      *)
(* payer's version, a void, and two sweepers.                                 *)
EXTENDS HoldSweeper

CONSTANTS h1, h2, void, x1

MCAccount  == {1, 2}
MCGenesis  == [a \in MCAccount |-> IF a = 1 THEN 4 ELSE 0]
MCExpiryId == [k \in {h1} |-> x1]

HoldCmd(e, ttl) == [kind |-> "Hold", account |-> 1, expected |-> e,
                    target |-> 2, amount |-> 2, ttl |-> ttl]

MCRequests ==
  {[id |-> h1, cmd |-> HoldCmd(1, 1)], [id |-> h2, cmd |-> HoldCmd(2, MaxNow + 1)],
   [id |-> void, cmd |-> [kind |-> "VoidHold", account |-> 1, expected |-> 3, hold |-> h1]]}
=============================================================================
