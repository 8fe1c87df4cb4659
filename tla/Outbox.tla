-------------------------------- MODULE Outbox --------------------------------
(***************************************************************************)
(* The transactional outbox: concurrent writers commit event rows in any   *)
(* order, relays give the committed rows gapless positions.                *)
(*                                                                         *)
(* A writer reads the heads of the streams it will write, then inserts one *)
(* row per stream and commits; `append` is the case of one stream.  An     *)
(* INSERT draws its id from the IDENTITY sequence before it meets UNIQUE   *)
(* (stream, seq), so it may wait with the id in hand, and an id drawn by a *)
(* transaction that rolls back is never used.  A relay is one transaction  *)
(* under an advisory lock; what it writes is visible when it commits.      *)
(***************************************************************************)
EXTENDS Integers, FiniteSets

CONSTANTS
  Stream, Writer, Relay,
  NoOne,      \* nobody holds the relay's lock
  MaxIds,     \* bound on ids drawn
  MaxLosses   \* bound on transactions rolled back by a lost connection

ASSUME OutboxAssumption ==
  /\ NoOne \notin Relay
  /\ MaxIds \in Nat
  /\ MaxLosses \in Nat

VARIABLES
  rows,       \* committed events, by id
  published,  \* ids whose row says published
  position,   \* the outbox: per event id in it, its position
  lastId,     \* the IDENTITY sequence
  pc,         \* per writer: idle, reading, inserting or waiting for its key
  heads,      \* per writer, the next seq of each stream it has read
  read,       \* per writer, the committed ids its reads returned
  drawn,      \* per writer, the id of the INSERT under way
  target,     \* per writer, the stream of the INSERT under way
  mine,       \* per writer, the uncommitted rows of its transaction, by id
  rpc,        \* per relay: idle, locked, selected or ready
  pending,    \* per relay, the ids it selected
  base,       \* per relay, the outbox head it read
  lock,       \* who holds the advisory lock
  losses

writerVars == <<pc, heads, read, drawn, target, mine>>
relayVars  == <<rpc, pending, base, lock>>
tables     == <<rows, published, position>>
vars       == <<tables, lastId, writerVars, relayVars, losses>>

Id == 1..MaxIds
NoRows == [i \in {} |-> 0]
Unread == [s \in Stream |-> 0]

(* A row: its key and what its writer had read.                               *)
Row(s, seq, basis) == [stream |-> s, seq |-> seq, basis |-> basis]

RowsOf(s) == {i \in DOMAIN rows : rows[i].stream = s}

Init ==
  /\ rows = NoRows
  /\ published = {}
  /\ position = NoRows
  /\ lastId = 0
  /\ pc = [w \in Writer |-> "idle"]
  /\ heads = [w \in Writer |-> Unread]
  /\ read = [w \in Writer |-> {}]
  /\ drawn = [w \in Writer |-> 0]
  /\ target = [w \in Writer |-> NoOne]
  /\ mine = [w \in Writer |-> NoRows]
  /\ rpc = [r \in Relay |-> "idle"]
  /\ pending = [r \in Relay |-> {}]
  /\ base = [r \in Relay |-> 0]
  /\ lock = NoOne
  /\ losses = 0

-----------------------------------------------------------------------------
(* Writers *)

(* MAX(seq) + 1, or a fold: the writer now depends on what it read.           *)
ReadHead(w, s) ==
  /\ pc[w] \in {"idle", "reading"}
  /\ heads[w][s] = 0
  /\ heads' = [heads EXCEPT ![w][s] = Cardinality(RowsOf(s)) + 1]
  /\ read' = [read EXCEPT ![w] = @ \cup RowsOf(s)]
  /\ pc' = [pc EXCEPT ![w] = "reading"]
  /\ UNCHANGED <<tables, lastId, drawn, target, mine, relayVars, losses>>

Written(w, s) == \E i \in DOMAIN mine[w] : mine[w][i].stream = s

(* The INSERT draws its id.                                                   *)
DrawId(w, s) ==
  /\ pc[w] \in {"reading", "inserting"}
  /\ heads[w][s] # 0
  /\ ~Written(w, s)
  /\ lastId < MaxIds
  /\ lastId' = lastId + 1
  /\ drawn' = [drawn EXCEPT ![w] = lastId + 1]
  /\ target' = [target EXCEPT ![w] = s]
  /\ pc' = [pc EXCEPT ![w] = "keying"]
  /\ UNCHANGED <<tables, heads, read, mine, relayVars, losses>>

Committed(s, seq) == \E i \in RowsOf(s) : rows[i].seq = seq

HeldByOther(w, s, seq) ==
  \E x \in Writer \ {w} : \E i \in DOMAIN mine[x] :
    mine[x][i].stream = s /\ mine[x][i].seq = seq

(* The row's key is free: it is inserted, not yet committed.                  *)
InsertRow(w) ==
  LET s == target[w]
      n == heads[w][s]
  IN  /\ pc[w] = "keying"
      /\ ~Committed(s, n)
      /\ ~HeldByOther(w, s, n)
      /\ mine' = [mine EXCEPT ![w] = [i \in DOMAIN @ \cup {drawn[w]} |->
                                        IF i = drawn[w] THEN Row(s, n, read[w]) ELSE @[i]]]
      /\ pc' = [pc EXCEPT ![w] = "inserting"]
      /\ UNCHANGED <<tables, lastId, heads, read, drawn, target, relayVars, losses>>

Leave(w) ==
  /\ pc' = [pc EXCEPT ![w] = "idle"]
  /\ heads' = [heads EXCEPT ![w] = Unread]
  /\ read' = [read EXCEPT ![w] = {}]
  /\ drawn' = [drawn EXCEPT ![w] = 0]
  /\ target' = [target EXCEPT ![w] = NoOne]
  /\ mine' = [mine EXCEPT ![w] = NoRows]

(* UniqueViolation: rolled back, the id is lost.                              *)
Conflict(w) ==
  /\ pc[w] = "keying"
  /\ Committed(target[w], heads[w][target[w]])
  /\ Leave(w)
  /\ UNCHANGED <<tables, lastId, relayVars, losses>>

(* All rows of the transaction become visible at once.                        *)
Commit(w) ==
  /\ pc[w] = "inserting"
  /\ rows' = [i \in DOMAIN rows \cup DOMAIN mine[w] |->
                IF i \in DOMAIN rows THEN rows[i] ELSE mine[w][i]]
  /\ Leave(w)
  /\ UNCHANGED <<published, position, lastId, relayVars, losses>>

LoseWriter(w) ==
  /\ losses < MaxLosses
  /\ pc[w] # "idle"
  /\ losses' = losses + 1
  /\ Leave(w)
  /\ UNCHANGED <<tables, lastId, relayVars>>

-----------------------------------------------------------------------------
(* relay_outbox *)

Lock(r) ==
  /\ rpc[r] = "idle"
  /\ lock = NoOne
  /\ lock' = r
  /\ rpc' = [rpc EXCEPT ![r] = "locked"]
  /\ UNCHANGED <<tables, lastId, writerVars, pending, base, losses>>

Unlock(r) ==
  /\ lock' = IF lock = r THEN NoOne ELSE lock
  /\ rpc' = [rpc EXCEPT ![r] = "idle"]
  /\ pending' = [pending EXCEPT ![r] = {}]
  /\ base' = [base EXCEPT ![r] = 0]

SelectPending(r) ==
  /\ rpc[r] = "locked"
  /\ DOMAIN rows # published
  /\ pending' = [pending EXCEPT ![r] = DOMAIN rows \ published]
  /\ rpc' = [rpc EXCEPT ![r] = "selected"]
  /\ UNCHANGED <<tables, lastId, writerVars, base, lock, losses>>

NothingPending(r) ==
  /\ rpc[r] = "locked"
  /\ DOMAIN rows = published
  /\ Unlock(r)
  /\ UNCHANGED <<tables, lastId, writerVars, losses>>

OutboxHead == IF DOMAIN position = {} THEN 0
              ELSE CHOOSE p \in {position[i] : i \in DOMAIN position} :
                     \A i \in DOMAIN position : position[i] <= p

ReadOutboxHead(r) ==
  /\ rpc[r] = "selected"
  /\ base' = [base EXCEPT ![r] = OutboxHead]
  /\ rpc' = [rpc EXCEPT ![r] = "ready"]
  /\ UNCHANGED <<tables, lastId, writerVars, pending, lock, losses>>

(* Mutant: ORDER BY id DESC.                                                  *)
RankDescending(i, ids) == Cardinality({j \in ids : j >= i})

(* ORDER BY id: how many of the selected ids come no later than i.            *)
Rank(i, ids) == Cardinality({j \in ids : j <= i})

(* Mutant: every unpublished row is flagged, also one committed since the     *)
(* SELECT.                                                                    *)
PublishMarksAll(r) ==
  /\ rpc[r] = "ready"
  /\ position' = [i \in DOMAIN position \cup pending[r] |->
                    IF i \in DOMAIN position THEN position[i]
                    ELSE base[r] + Rank(i, pending[r])]
  /\ published' = DOMAIN rows
  /\ Unlock(r)
  /\ UNCHANGED <<rows, lastId, writerVars, losses>>

(* Mutant: the id is the position.                                            *)
PublishAtId(r) ==
  /\ rpc[r] = "ready"
  /\ position' = [i \in DOMAIN position \cup pending[r] |->
                    IF i \in DOMAIN position THEN position[i] ELSE i]
  /\ published' = published \cup pending[r]
  /\ Unlock(r)
  /\ UNCHANGED <<rows, lastId, writerVars, losses>>

(* The positions and the published flags commit together.                     *)
Publish(r) ==
  /\ rpc[r] = "ready"
  /\ position' = [i \in DOMAIN position \cup pending[r] |->
                    IF i \in DOMAIN position THEN position[i]
                    ELSE base[r] + Rank(i, pending[r])]
  /\ published' = published \cup pending[r]
  /\ Unlock(r)
  /\ UNCHANGED <<rows, lastId, writerVars, losses>>

LoseRelay(r) ==
  /\ losses < MaxLosses
  /\ rpc[r] # "idle"
  /\ losses' = losses + 1
  /\ Unlock(r)
  /\ UNCHANGED <<tables, lastId, writerVars>>

RelayStep(r) ==
  \/ Lock(r) \/ SelectPending(r) \/ NothingPending(r) \/ ReadOutboxHead(r) \/ Publish(r)

WriterStep(w) ==
  \/ \E s \in Stream : ReadHead(w, s) \/ DrawId(w, s)
  \/ InsertRow(w) \/ Conflict(w) \/ Commit(w) \/ LoseWriter(w)

Next ==
  \/ \E w \in Writer : WriterStep(w)
  \/ \E r \in Relay : RelayStep(r) \/ LoseRelay(r)

Spec == Init /\ [][Next]_vars

(* Every read of the feed relays first and consumers poll for ever; writers   *)
(* owe nothing.                                                               *)
FairSpec == Spec /\ \A r \in Relay : WF_vars(RelayStep(r))

-----------------------------------------------------------------------------
(* Properties *)

(* Positions run 1..n without a gap or a duplicate, and an event has one      *)
(* exactly when its row says published, although relays crash between reading *)
(* and writing and ids are drawn with gaps and committed out of order.        *)
Gapless ==
  /\ published = DOMAIN position
  /\ {position[i] : i \in DOMAIN position} = 1..Cardinality(DOMAIN position)

(* A consumer never has to look back: positions never change, and a new one   *)
(* is above every old one, also for an event with a small id whose            *)
(* transaction committed late.                                                *)
OnlyAhead ==
  [][/\ \A i \in DOMAIN position : i \in DOMAIN position' /\ position'[i] = position[i]
     /\ \A i \in DOMAIN position' \ DOMAIN position, j \in DOMAIN position :
          position'[i] > position[j]]_vars

(* Effects follow causes: an event is published only after every event its    *)
(* transaction had read, its predecessor in the stream among them.  A         *)
(* projection sees a hold before its settlement and a transfer before its     *)
(* reversal.                                                                  *)
CausesFirst ==
  \A i \in DOMAIN position : \A j \in rows[i].basis :
    j \in DOMAIN position /\ position[j] < position[i]

(* Every committed event is eventually published.                             *)
EverythingPublished == \A i \in Id : i \in DOMAIN rows ~> i \in DOMAIN position
=============================================================================
