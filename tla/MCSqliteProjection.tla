-------------------------- MODULE MCSqliteProjection --------------------------
(* A feed in which a hold is partly captured and the posting set reverted:    *)
(* every kind of row, with events whose order matters to holds and transfers. *)
EXTENDS SqliteProjection

CONSTANTS hold, undo

MCAccount == {1, 2}

MCLog ==
  << Row(1, Event("Deposited", 2, NoId)),
     Row(1, [GroupedEvent("HoldPlaced", 2, hold, hold, 2) EXCEPT !.expires = 1]),
     Row(1, GroupedEvent("HoldPosted", 1, hold, hold, 2)),
     Row(1, [GroupedEvent("HoldReleased", 1, hold, hold, NoAccount) EXCEPT !.reason = "partial"]),
     Row(2, GroupedEvent("TransferCredited", 1, hold, hold, 1)),
     Row(2, [GroupedEvent("ReversalDebited", 1, undo, undo, 1) EXCEPT !.reverts = hold]),
     Row(1, [GroupedEvent("ReversalCredited", 1, undo, undo, 2) EXCEPT !.reverts = hold]) >>
=============================================================================
