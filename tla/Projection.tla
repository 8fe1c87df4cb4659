------------------------------ MODULE Projection ------------------------------
(***************************************************************************)
(* What a projection of the feed promises, whatever the database under it: *)
(* each event is pending, in the read models once, or parked; it leaves    *)
(* `pending` once; only a redrive takes it out of the queue, into the read *)
(* models; and the offset never passes an event that is still pending.  A  *)
(* rebuild starts over.                                                    *)
(***************************************************************************)
EXTENDS Integers

CONSTANT Feed   \* positions of the feed

VARIABLES status, offset

vars == <<status, offset>>

Init ==
  /\ status = [e \in Feed |-> "pending"]
  /\ offset = 0

Covered(o, s) == \A e \in Feed : e <= o => s[e] # "pending"

(* Claim, effect or letter, and offset in one step; the offset alone for a    *)
(* redelivery.                                                                *)
Deliver(e) ==
  /\ \/ status[e] = "pending" /\ \E s \in {"applied", "parked"} : status' = [status EXCEPT ![e] = s]
     \/ UNCHANGED status
  /\ offset' \in {offset, e}
  /\ offset' >= offset
  /\ Covered(offset', status')

Redrive(e) ==
  /\ status[e] = "parked"
  /\ status' = [status EXCEPT ![e] = "applied"]
  /\ UNCHANGED offset

Rebuild ==
  /\ status' = [e \in Feed |-> "pending"]
  /\ offset' = 0

Next == Rebuild \/ \E e \in Feed : Deliver(e) \/ Redrive(e)

Spec == Init /\ [][Next]_vars
=============================================================================
