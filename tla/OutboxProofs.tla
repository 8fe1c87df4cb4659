----------------------------- MODULE OutboxProofs -----------------------------
(***************************************************************************)
(* Proofs about the outbox relay, for any number of streams, writers,      *)
(* relays, ids and lost connections.                                       *)
(***************************************************************************)
EXTENDS Outbox, FiniteSetTheorems, TLAPS

-----------------------------------------------------------------------------
(* Facts about the operators *)

(* ORDER BY id numbers n selected ids 1..n, smaller ids first.               *)
LEMMA RankOrders ==
  ASSUME NEW P, IsFiniteSet(P), P \subseteq Nat
  PROVE  /\ \A i \in P : Rank(i, P) \in 1..Cardinality(P)
         /\ \A i, j \in P : i < j => Rank(i, P) < Rank(j, P)
  <1> DEFINE Below(i) == {j \in P : j <= i}
  <1>1. ASSUME NEW i \in P
        PROVE  IsFiniteSet(Below(i)) /\ Cardinality(Below(i)) \in 1..Cardinality(P)
    <2>1. Below(i) \in SUBSET P
      OBVIOUS
    <2>2. IsFiniteSet(Below(i)) /\ Cardinality(Below(i)) <= Cardinality(P)
      BY <2>1, FS_Subset
    <2>3. Cardinality(Below(i)) \in Nat /\ Cardinality(P) \in Nat
      BY <2>2, FS_CardinalityType
    <2>4. i \in Below(i)
      OBVIOUS
    <2>5. Cardinality(Below(i)) # 0
      BY <2>2, <2>4, FS_EmptySet
    <2> HIDE DEF Below
    <2> QED  BY <2>2, <2>3, <2>5
  <1>2. ASSUME NEW i \in P, NEW j \in P, i < j
        PROVE  Cardinality(Below(i)) < Cardinality(Below(j))
    <2>1. Below(i) \in SUBSET Below(j)
      <3>1. i \in Nat /\ j \in Nat /\ \A k \in P : k \in Nat
        OBVIOUS
      <3>2. \A k \in P : k <= i => k <= j
        BY <1>2, <3>1
      <3> QED  BY <3>2
    <2>2. j \in Below(j) /\ j \notin Below(i)
      BY <1>2
    <2>3. IsFiniteSet(Below(j)) /\ Cardinality(Below(i)) \in Nat /\ Cardinality(Below(j)) \in Nat
      BY <1>1
    <2> HIDE DEF Below
    <2>4. Cardinality(Below(i)) <= Cardinality(Below(j))
      BY <2>1, <2>3, FS_Subset
    <2>5. Cardinality(Below(i)) # Cardinality(Below(j))
      BY <2>1, <2>2, <2>3, FS_Subset
    <2> QED  BY <2>3, <2>4, <2>5
  <1> QED  BY <1>1, <1>2 DEF Rank

(* So every number up to n is given out.                                     *)
LEMMA RankOnto ==
  ASSUME NEW P, IsFiniteSet(P), P \subseteq Nat
  PROVE  \A k \in 1..Cardinality(P) : \E i \in P : Rank(i, P) = k
  <1> DEFINE n == Cardinality(P)
             f == [i \in P |-> Rank(i, P)]
  <1>1. n \in Nat
    BY FS_CardinalityType
  <1>2. /\ \A i \in P : Rank(i, P) \in 1..n
        /\ \A i, j \in P : i < j => Rank(i, P) < Rank(j, P)
    BY RankOrders
  <1>3. f \in [P -> 1..n]
    BY <1>2
  <1>4. ASSUME NEW i \in P, NEW j \in P, f[i] = f[j] PROVE i = j
    <2>1. i \in Nat /\ j \in Nat /\ Rank(i, P) = Rank(j, P) /\ Rank(i, P) \in Nat
      BY <1>2, <1>4
    <2> QED  BY <1>2, <2>1
  <1>5. f \in Injection(P, 1..n)
    BY <1>3, <1>4 DEF Injection, IsInjective
  <1>6. IsFiniteSet(1..n) /\ Cardinality(1..n) = n
    BY <1>1, FS_Interval
  <1>7. f \in Surjection(P, 1..n)
    BY <1>5, <1>6, FS_Injection
  <1>8. \A k \in 1..n : \E i \in P : f[i] = k
    BY <1>7 DEF Surjection
  <1> QED  BY <1>8

-----------------------------------------------------------------------------
(* The inductive invariant *)

(* Ids are numbers given out so far; a relay is inside its transaction as    *)
(* long as it holds the lock.                                                *)
Kinds ==
  /\ lastId \in 0..MaxIds
  /\ DOMAIN rows \subseteq 1..lastId
  /\ pc \in [Writer -> {"idle", "reading", "keying", "inserting"}]
  /\ read \in [Writer -> SUBSET DOMAIN rows]
  /\ drawn \in [Writer -> 0..lastId]
  /\ mine = [w \in Writer |-> mine[w]]

Mutex ==
  /\ lock \in Relay \cup {NoOne}
  /\ rpc \in [Relay -> {"idle", "locked", "selected", "ready"}]
  /\ pending \in [Relay -> SUBSET DOMAIN rows]
  /\ base \in [Relay -> Nat]
  /\ \A r \in Relay : rpc[r] # "idle" => lock = r

(* A writer reads before it draws an id, so what a row rests on has smaller  *)
(* ids and is committed.                                                     *)
Causal(w) ==
  /\ pc[w] = "keying" => drawn[w] # 0 /\ \A j \in read[w] : j < drawn[w]
  /\ DOMAIN mine[w] \subseteq 1..lastId
  /\ \A i \in DOMAIN mine[w] : \A j \in mine[w][i].basis : j \in DOMAIN rows /\ j < i

RowsCausal == \A i \in DOMAIN rows : \A j \in rows[i].basis : j \in DOMAIN rows /\ j < i

(* What a relay has selected is unpublished and rests on published rows or   *)
(* on rows it has selected too; the head it read is the head.                *)
Selection(r) ==
  /\ rpc[r] \in {"selected", "ready"} =>
       /\ pending[r] \cap published = {}
       /\ \A i \in pending[r] : rows[i].basis \subseteq published \cup pending[r]
  /\ rpc[r] = "ready" => base[r] = Cardinality(DOMAIN position)

Feed ==
  /\ published \subseteq DOMAIN rows
  /\ Gapless
  /\ CausesFirst

IInv ==
  /\ Kinds
  /\ Mutex
  /\ \A w \in Writer : Causal(w)
  /\ RowsCausal
  /\ \A r \in Relay : Selection(r)
  /\ Feed

-----------------------------------------------------------------------------
(* Steps *)

(* The ids there are.                                                        *)
LEMMA IdsFinite ==
  ASSUME Kinds, NEW S \in SUBSET DOMAIN rows
  PROVE  IsFiniteSet(S) /\ S \subseteq Nat /\ Cardinality(S) \in Nat
  <1>1. lastId \in Nat /\ S \subseteq 1..lastId /\ S \in SUBSET (1..lastId)
    BY OutboxAssumption DEF Kinds
  <1>2. IsFiniteSet(1..lastId)
    BY <1>1, FS_Interval
  <1>3. IsFiniteSet(S)
    BY <1>1, <1>2, FS_Subset
  <1> QED  BY <1>1, <1>3, FS_CardinalityType

(* The outbox is empty.                                                      *)
LEMMA InitOK ==
  ASSUME Init  PROVE IInv
  <1>1. DOMAIN rows = {} /\ DOMAIN position = {}
    BY DEF Init, NoRows
  <1>2. Kinds
    BY <1>1, OutboxAssumption DEF Init, Kinds
  <1>3. Mutex
    BY OutboxAssumption DEF Init, Mutex
  <1>4. ASSUME NEW w \in Writer PROVE Causal(w)
    BY DEF Init, Causal, NoRows
  <1>5. Cardinality(DOMAIN position) = 0
    BY <1>1, FS_EmptySet
  <1>6. Feed
    <2>1. {position[i] : i \in DOMAIN position} = {} /\ 1..0 = {}
      BY <1>1
    <2>2. published = DOMAIN position
      BY <1>1 DEF Init
    <2> QED  BY <1>1, <1>5, <2>1, <2>2 DEF Feed, Gapless, CausesFirst
  <1>7. RowsCausal /\ \A r \in Relay : Selection(r)
    BY <1>1 DEF Init, RowsCausal, Selection
  <1> QED  BY <1>2, <1>3, <1>4, <1>6, <1>7 DEF IInv

(* What writers do to the tables: rows are added, never changed.             *)
RowsKept ==
  /\ DOMAIN rows \subseteq DOMAIN rows'
  /\ \A i \in DOMAIN rows : rows'[i] = rows[i]

(* The relays and the outbox do not mind new rows.                           *)
LEMMA RelaysUndisturbed ==
  ASSUME IInv, RowsKept, UNCHANGED <<published, position, relayVars>>
  PROVE  Mutex' /\ (\A r \in Relay : Selection(r)') /\ Feed'
  <1>1. Mutex'
    BY DEF IInv, Mutex, RowsKept, relayVars
  <1>2. ASSUME NEW r \in Relay PROVE Selection(r)'
    <2>1. pending[r] \subseteq DOMAIN rows
      BY DEF IInv, Mutex
    <2>2. \A i \in pending[r] : rows'[i] = rows[i]
      BY <2>1 DEF RowsKept
    <2> QED  BY <2>2 DEF IInv, Selection, relayVars
  <1>3. Feed'
    <2>1. \A i \in DOMAIN position : rows'[i] = rows[i]
      BY DEF IInv, Feed, Gapless, RowsKept
    <2>2. published' \subseteq DOMAIN rows'
      BY DEF IInv, Feed, RowsKept
    <2> QED  BY <2>1, <2>2 DEF IInv, Feed, Gapless, CausesFirst
  <1> QED  BY <1>1, <1>2, <1>3

(* Another writer's reads stay committed and its rows stay sound.            *)
LEMMA WriterUndisturbed ==
  ASSUME IInv, RowsKept, NEW x \in Writer, lastId' \in Nat, lastId <= lastId',
         pc'[x] = pc[x], read'[x] = read[x], drawn'[x] = drawn[x], mine'[x] = mine[x]
  PROVE  Causal(x)'
  <1>1. lastId \in Nat
    BY OutboxAssumption DEF IInv, Kinds
  <1>2. 1..lastId \subseteq 1..lastId'
    BY <1>1
  <1> QED  BY <1>2 DEF IInv, Causal, RowsKept

(* A transaction that ends leaves nothing behind but its rows.               *)
LEMMA LeaveOK ==
  ASSUME IInv, RowsKept, NEW w \in Writer, Leave(w), lastId' = lastId,
         DOMAIN rows' \subseteq 1..lastId
  PROVE  Kinds' /\ \A x \in Writer : Causal(x)'
  <1>1. lastId \in Nat
    BY OutboxAssumption DEF IInv, Kinds
  <1>2. Kinds'
    <2>1. lastId' \in 0..MaxIds /\ DOMAIN rows' \subseteq 1..lastId'
      BY DEF IInv, Kinds
    <2>2. pc' \in [Writer -> {"idle", "reading", "keying", "inserting"}]
      BY DEF IInv, Kinds, Leave
    <2>3. read' \in [Writer -> SUBSET DOMAIN rows']
      BY DEF IInv, Kinds, Leave, RowsKept
    <2>4. drawn' \in [Writer -> 0..lastId']
      BY <1>1 DEF IInv, Kinds, Leave
    <2>5. mine' = [x \in Writer |-> mine'[x]]
      BY DEF IInv, Kinds, Leave
    <2> QED  BY <2>1, <2>2, <2>3, <2>4, <2>5 DEF Kinds
  <1>3. ASSUME NEW x \in Writer PROVE Causal(x)'
    <2>1. CASE x = w
      <3>1. pc'[w] = "idle" /\ mine'[w] = NoRows
        BY DEF IInv, Kinds, Leave
      <3> QED  BY <2>1, <3>1 DEF Causal, NoRows
    <2>2. CASE x # w
      <3>1. pc'[x] = pc[x] /\ read'[x] = read[x] /\ drawn'[x] = drawn[x] /\ mine'[x] = mine[x]
        BY <2>2 DEF IInv, Kinds, Leave
      <3> QED  BY <1>1, <3>1, WriterUndisturbed
    <2> QED  BY <2>1, <2>2
  <1> QED  BY <1>2, <1>3

(* Reading a stream's head.                                                  *)
LEMMA ReadHeadOK ==
  ASSUME IInv, NEW w \in Writer, NEW s \in Stream, ReadHead(w, s)
  PROVE  IInv'
  <1>1. RowsKept /\ UNCHANGED <<published, position, relayVars, rows, lastId>>
    BY DEF ReadHead, tables, RowsKept
  <1>2. lastId \in Nat
    BY OutboxAssumption DEF IInv, Kinds
  <1>3. Kinds'
    BY <1>1 DEF IInv, Kinds, ReadHead, RowsOf
  <1>4. ASSUME NEW x \in Writer PROVE Causal(x)'
    <2>1. CASE x = w
      <3>1. pc'[w] = "reading" /\ mine'[w] = mine[w]
        BY DEF IInv, Kinds, ReadHead
      <3> QED  BY <1>1, <2>1, <3>1 DEF IInv, Causal
    <2>2. CASE x # w
      <3>1. pc'[x] = pc[x] /\ read'[x] = read[x] /\ drawn'[x] = drawn[x] /\ mine'[x] = mine[x]
        BY <2>2 DEF IInv, Kinds, ReadHead
      <3> QED  BY <1>1, <1>2, <3>1, WriterUndisturbed
    <2> QED  BY <2>1, <2>2
  <1>5. RowsCausal'
    BY <1>1 DEF IInv, RowsCausal
  <1> QED  BY <1>1, <1>3, <1>4, <1>5, RelaysUndisturbed DEF IInv

(* Drawing an id: it is above everything that was ever read.                 *)
LEMMA DrawIdOK ==
  ASSUME IInv, NEW w \in Writer, NEW s \in Stream, DrawId(w, s)
  PROVE  IInv'
  <1>1. RowsKept /\ UNCHANGED <<published, position, relayVars, rows, read, mine>>
    BY DEF DrawId, tables, RowsKept
  <1>2. lastId \in Nat /\ lastId' = lastId + 1 /\ lastId' \in 0..MaxIds
    BY OutboxAssumption DEF IInv, Kinds, DrawId
  <1>3. Kinds'
    <2>1. DOMAIN rows' \subseteq 1..lastId'
      BY <1>1, <1>2 DEF IInv, Kinds
    <2>2. drawn' \in [Writer -> 0..lastId']
      BY <1>2 DEF IInv, Kinds, DrawId
    <2> QED  BY <1>1, <1>2, <2>1, <2>2 DEF IInv, Kinds, DrawId
  <1>4. ASSUME NEW x \in Writer PROVE Causal(x)'
    <2>1. CASE x = w
      <3>1. drawn'[w] = lastId + 1 /\ mine'[w] = mine[w] /\ read'[w] = read[w]
        BY <1>1 DEF IInv, Kinds, DrawId
      <3>2. \A j \in read[w] : j \in 1..lastId
        BY DEF IInv, Kinds
      <3>3. DOMAIN mine[w] \subseteq 1..lastId'
        BY <1>2 DEF IInv, Causal
      <3> QED  BY <1>1, <1>2, <2>1, <3>1, <3>2, <3>3 DEF IInv, Causal
    <2>2. CASE x # w
      <3>1. pc'[x] = pc[x] /\ read'[x] = read[x] /\ drawn'[x] = drawn[x] /\ mine'[x] = mine[x]
        BY <2>2 DEF IInv, Kinds, DrawId
      <3> QED  BY <1>1, <1>2, <3>1, WriterUndisturbed
    <2> QED  BY <2>1, <2>2
  <1>5. RowsCausal'
    BY <1>1 DEF IInv, RowsCausal
  <1> QED  BY <1>1, <1>3, <1>4, <1>5, RelaysUndisturbed DEF IInv

(* A row is inserted under an id above everything it rests on.               *)
LEMMA InsertRowOK ==
  ASSUME IInv, NEW w \in Writer, InsertRow(w)
  PROVE  IInv'
  <1>1. RowsKept /\ UNCHANGED <<published, position, relayVars, rows, lastId, read, drawn>>
    BY DEF InsertRow, tables, RowsKept
  <1>2. lastId \in Nat
    BY OutboxAssumption DEF IInv, Kinds
  <1>3. /\ mine' = [mine EXCEPT ![w] = mine'[w]]
        /\ DOMAIN mine'[w] = DOMAIN mine[w] \cup {drawn[w]}
        /\ \A i \in DOMAIN mine'[w] :
             mine'[w][i].basis = IF i = drawn[w] THEN read[w] ELSE mine[w][i].basis
    BY DEF IInv, Kinds, InsertRow, Row
  <1>4. /\ pc' = [pc EXCEPT ![w] = "inserting"] /\ pc[w] = "keying"
        /\ drawn[w] \in 1..lastId /\ \A j \in read[w] : j < drawn[w]
        /\ read[w] \subseteq DOMAIN rows
    BY <1>2 DEF IInv, Kinds, Causal, InsertRow
  <1>5. Kinds'
    BY <1>1, <1>3, <1>4 DEF IInv, Kinds
  <1>6. ASSUME NEW x \in Writer PROVE Causal(x)'
    <2>1. CASE x = w
      <3>1. pc'[w] = "inserting"
        BY <1>4 DEF IInv, Kinds
      <3>2. DOMAIN mine'[w] \subseteq 1..lastId'
        BY <1>1, <1>3, <1>4 DEF IInv, Causal
      <3>3. ASSUME NEW i \in DOMAIN mine'[w], NEW j \in mine'[w][i].basis
            PROVE  j \in DOMAIN rows' /\ j < i
        <4>1. CASE i = drawn[w]
          BY <1>1, <1>3, <1>4, <3>3, <4>1
        <4>2. CASE i # drawn[w]
          BY <1>1, <1>3, <3>3, <4>2 DEF IInv, Causal
        <4> QED  BY <4>1, <4>2
      <3> QED  BY <2>1, <3>1, <3>2, <3>3 DEF Causal
    <2>2. CASE x # w
      <3>1. pc'[x] = pc[x] /\ read'[x] = read[x] /\ drawn'[x] = drawn[x]
        BY <1>1, <1>4, <2>2 DEF IInv, Kinds
      <3>2. mine'[x] = mine[x]
        BY <1>3, <2>2 DEF IInv, Kinds
      <3> QED  BY <1>1, <1>2, <3>1, <3>2, WriterUndisturbed
    <2> QED  BY <2>1, <2>2
  <1>7. RowsCausal'
    BY <1>1 DEF IInv, RowsCausal
  <1> QED  BY <1>1, <1>5, <1>6, <1>7, RelaysUndisturbed DEF IInv

(* A transaction that is rolled back.                                        *)
LEMMA RolledBackOK ==
  ASSUME IInv, NEW w \in Writer, Conflict(w) \/ LoseWriter(w)
  PROVE  IInv'
  <1>1. /\ RowsKept /\ Leave(w)
        /\ UNCHANGED <<published, position, relayVars, rows, lastId>>
    BY DEF Conflict, LoseWriter, tables, RowsKept
  <1>2. DOMAIN rows' \subseteq 1..lastId
    BY <1>1 DEF IInv, Kinds
  <1>3. RowsCausal'
    BY <1>1 DEF IInv, RowsCausal
  <1> QED  BY <1>1, <1>2, <1>3, LeaveOK, RelaysUndisturbed DEF IInv

(* A transaction that commits: its rows rest on rows committed before.       *)
LEMMA CommitOK ==
  ASSUME IInv, NEW w \in Writer, Commit(w)
  PROVE  IInv'
  <1>1. /\ DOMAIN rows' = DOMAIN rows \cup DOMAIN mine[w]
        /\ \A i \in DOMAIN rows' : rows'[i] = IF i \in DOMAIN rows THEN rows[i] ELSE mine[w][i]
        /\ Leave(w) /\ UNCHANGED <<published, position, relayVars, lastId>>
    BY DEF Commit
  <1>2. RowsKept
    BY <1>1 DEF RowsKept
  <1>3. DOMAIN rows' \subseteq 1..lastId
    BY <1>1 DEF IInv, Kinds, Causal
  <1>4. RowsCausal'
    <2>1. ASSUME NEW i \in DOMAIN rows', NEW j \in rows'[i].basis
          PROVE  j \in DOMAIN rows' /\ j < i
      <3>1. CASE i \in DOMAIN rows
        BY <1>1, <2>1, <3>1 DEF IInv, RowsCausal
      <3>2. CASE i \notin DOMAIN rows
        <4>1. i \in DOMAIN mine[w] /\ j \in mine[w][i].basis
          BY <1>1, <2>1, <3>2
        <4> QED  BY <1>1, <4>1 DEF IInv, Causal
      <3> QED  BY <3>1, <3>2
    <2> QED  BY <2>1 DEF RowsCausal
  <1> QED  BY <1>1, <1>2, <1>3, <1>4, LeaveOK, RelaysUndisturbed DEF IInv

-----------------------------------------------------------------------------
(* The relays *)

(* A relay's step leaves the writers alone.                                  *)
LEMMA WritersUndisturbed ==
  ASSUME IInv, UNCHANGED <<rows, lastId, writerVars>>
  PROVE  Kinds' /\ RowsCausal' /\ \A w \in Writer : Causal(w)'
  BY DEF IInv, Kinds, RowsCausal, Causal, writerVars

(* The greatest position is their number.                                    *)
LEMMA HeadIs ==
  ASSUME IInv  PROVE OutboxHead = Cardinality(DOMAIN position)
  <1> DEFINE n == Cardinality(DOMAIN position)
  <1>1. n \in Nat /\ IsFiniteSet(DOMAIN position)
    BY IdsFinite DEF IInv, Feed, Gapless
  <1>2. {position[i] : i \in DOMAIN position} = 1..n
    BY DEF IInv, Feed, Gapless
  <1>3. CASE DOMAIN position = {}
    BY <1>3, FS_EmptySet DEF OutboxHead
  <1>4. CASE DOMAIN position # {}
    <2>1. n # 0
      BY <1>1, <1>4, FS_EmptySet
    <2> HIDE DEF n
    <2>2. n \in {position[i] : i \in DOMAIN position}
      BY <1>1, <1>2, <2>1
    <2>3. \A i \in DOMAIN position : position[i] \in 1..n
      BY <1>2
    <2>4. \A i \in DOMAIN position : position[i] <= n
      BY <1>1, <2>3
    <2>5. ASSUME NEW p \in 1..n, \A i \in DOMAIN position : position[i] <= p
          PROVE  p = n
      <3>1. PICK i \in DOMAIN position : position[i] = n
        BY <2>2
      <3> QED  BY <1>1, <2>5, <3>1
    <2>6. OutboxHead = CHOOSE p \in 1..n : \A i \in DOMAIN position : position[i] <= p
      BY <1>2, <1>4 DEF OutboxHead
    <2>7. OutboxHead \in 1..n /\ \A i \in DOMAIN position : position[i] <= OutboxHead
      <3>1. \E p \in 1..n : \A i \in DOMAIN position : position[i] <= p
        BY <1>2, <2>2, <2>4
      <3> QED  BY <2>6, <3>1, Zenon
    <2>8. OutboxHead = n
      BY <2>5, <2>7
    <2> QED  BY <2>8 DEF n
  <1> QED  BY <1>3, <1>4

(* The steps of a relay before it writes, and its end without a write.       *)
LEMMA RelayReadsOK ==
  ASSUME IInv, NEW r \in Relay,
         Lock(r) \/ SelectPending(r) \/ NothingPending(r) \/ ReadOutboxHead(r) \/ LoseRelay(r)
  PROVE  IInv'
  <1>1. UNCHANGED <<rows, published, position, lastId, writerVars>>
    BY DEF Lock, SelectPending, NothingPending, ReadOutboxHead, LoseRelay, tables
  <1>2. Kinds' /\ RowsCausal' /\ \A w \in Writer : Causal(w)'
    BY <1>1, WritersUndisturbed
  <1>3. Feed'
    BY <1>1 DEF IInv, Feed, Gapless, CausesFirst
  <1>4. \A x \in Relay : rpc[x] # "idle" => lock = x
    BY DEF IInv, Mutex
  <1>5. NoOne \notin Relay
    BY OutboxAssumption
  <1>6. CASE Lock(r)
    <2>1. Mutex'
      BY <1>1, <1>4, <1>5, <1>6 DEF IInv, Mutex, Lock
    <2>2. \A x \in Relay : Selection(x)'
      BY <1>1, <1>6 DEF IInv, Mutex, Selection, Lock
    <2> QED  BY <1>2, <1>3, <2>1, <2>2 DEF IInv
  <1>7. CASE SelectPending(r)
    <2>1. Mutex'
      BY <1>1, <1>7 DEF IInv, Mutex, SelectPending
    <2>2. pending'[r] = DOMAIN rows \ published /\ rpc'[r] = "selected"
      BY <1>7 DEF IInv, Mutex, SelectPending
    <2>3. Selection(r)'
      <3>1. ASSUME NEW i \in pending'[r] PROVE rows[i].basis \subseteq published \cup pending'[r]
        BY <2>2, <3>1 DEF IInv, RowsCausal
      <3> QED  BY <1>1, <2>2, <3>1 DEF Selection
    <2>4. ASSUME NEW x \in Relay, x # r PROVE Selection(x)'
      BY <1>1, <1>7, <2>4 DEF IInv, Mutex, Selection, SelectPending
    <2> QED  BY <1>2, <1>3, <2>1, <2>3, <2>4 DEF IInv
  <1>8. CASE NothingPending(r) \/ LoseRelay(r)
    <2>1. Unlock(r) /\ rpc[r] # "idle"
      BY <1>8 DEF NothingPending, LoseRelay
    <2>2. Mutex'
      BY <1>1, <1>4, <2>1 DEF IInv, Mutex, Unlock
    <2>3. \A x \in Relay : Selection(x)'
      BY <1>1, <2>1 DEF IInv, Mutex, Selection, Unlock
    <2> QED  BY <1>2, <1>3, <2>2, <2>3 DEF IInv
  <1>9. CASE ReadOutboxHead(r)
    <2>1. OutboxHead = Cardinality(DOMAIN position) /\ OutboxHead \in Nat
      BY HeadIs, IdsFinite DEF IInv, Feed, Gapless
    <2>2. Mutex'
      BY <1>1, <1>9, <2>1 DEF IInv, Mutex, ReadOutboxHead
    <2>3. \A x \in Relay : Selection(x)'
      BY <1>1, <1>9, <2>1 DEF IInv, Mutex, Selection, ReadOutboxHead
    <2> QED  BY <1>2, <1>3, <2>2, <2>3 DEF IInv
  <1> QED  BY <1>6, <1>7, <1>8, <1>9

(* What a relay that publishes makes of the outbox: the old positions stay,  *)
(* the selected rows follow them, in the order of their ids.                 *)
LEMMA PublishExtends ==
  ASSUME IInv, NEW r \in Relay, Publish(r)
  PROVE  LET n == Cardinality(DOMAIN position)
             P == pending[r]
         IN  /\ n \in Nat /\ IsFiniteSet(P) /\ P \subseteq Nat
             /\ P \cap DOMAIN position = {}
             /\ DOMAIN position' = DOMAIN position \cup P
             /\ \A i \in DOMAIN position : position'[i] = position[i] /\ position[i] \in 1..n
             /\ \A i \in P : position'[i] = n + Rank(i, P) /\ Rank(i, P) \in 1..Cardinality(P)
  <1> DEFINE n == Cardinality(DOMAIN position)
             P == pending[r]
  <1>1. P \subseteq DOMAIN rows /\ P \cap published = {} /\ base[r] = n
    BY DEF IInv, Mutex, Selection, Publish
  <1>2. IsFiniteSet(P) /\ P \subseteq Nat
    BY <1>1, IdsFinite DEF IInv
  <1>3. n \in Nat
    BY IdsFinite DEF IInv, Feed, Gapless
  <1>4. DOMAIN position = published /\ \A i \in DOMAIN position : position[i] \in 1..n
    BY DEF IInv, Feed, Gapless
  <1>5. \A i \in P : Rank(i, P) \in 1..Cardinality(P)
    BY <1>2, RankOrders
  <1>6. /\ DOMAIN position' = DOMAIN position \cup P
        /\ \A i \in DOMAIN position' :
             position'[i] = IF i \in DOMAIN position THEN position[i] ELSE n + Rank(i, P)
    BY <1>1 DEF Publish
  <1> QED  BY <1>1, <1>2, <1>3, <1>4, <1>5, <1>6

(* Publishing keeps positions gapless and causes before effects.             *)
LEMMA PublishOK ==
  ASSUME IInv, NEW r \in Relay, Publish(r)
  PROVE  IInv'
  <1> DEFINE n == Cardinality(DOMAIN position)
             P == pending[r]
             m == Cardinality(P)
  <1>1. /\ n \in Nat /\ IsFiniteSet(P) /\ P \subseteq Nat
        /\ P \cap DOMAIN position = {}
        /\ DOMAIN position' = DOMAIN position \cup P
        /\ \A i \in DOMAIN position : position'[i] = position[i] /\ position[i] \in 1..n
        /\ \A i \in P : position'[i] = n + Rank(i, P) /\ Rank(i, P) \in 1..m
    BY PublishExtends
  <1>2. UNCHANGED <<rows, lastId, writerVars>> /\ published' = published \cup P /\ Unlock(r)
    BY DEF Publish
  <1>3. Kinds' /\ RowsCausal' /\ \A w \in Writer : Causal(w)'
    BY <1>2, WritersUndisturbed
  <1>4. \A x \in Relay : rpc[x] # "idle" => lock = x
    BY DEF IInv, Mutex
  <1>5. lock = r
    BY <1>4 DEF Publish
  <1>6. Mutex'
    BY <1>2, <1>4, OutboxAssumption DEF IInv, Mutex, Unlock
  <1>7. ASSUME NEW x \in Relay PROVE Selection(x)'
    <2>1. rpc'[x] = "idle"
      BY <1>2, <1>4, <1>5 DEF IInv, Mutex, Unlock
    <2> QED  BY <2>1 DEF Selection
  <1>8. published = DOMAIN position /\ P \subseteq DOMAIN rows
    BY DEF IInv, Feed, Gapless, Mutex
  <1>9. m \in Nat
    BY <1>1, FS_CardinalityType
  <1>10. Cardinality(DOMAIN position') = n + m
    <2>1. IsFiniteSet(DOMAIN position)
      BY IdsFinite DEF IInv, Feed, Gapless
    <2>2. DOMAIN position \cap P = {}
      BY <1>1
    <2>3. Cardinality(DOMAIN position \cap P) = 0
      BY <2>2, FS_EmptySet
    <2>4. Cardinality(DOMAIN position \cup P) = n + m - 0
      BY <1>1, <2>1, <2>3, FS_Union
    <2> QED  BY <1>1, <1>9, <2>4
  <1>11. Gapless'
    <2>1. ASSUME NEW i \in DOMAIN position' PROVE position'[i] \in 1..(n + m)
      <3> HIDE DEF n, m, P
      <3>1. CASE i \in DOMAIN position
        BY <1>1, <1>9, <3>1
      <3>2. CASE i \in P
        <4>1. position'[i] = n + Rank(i, P) /\ Rank(i, P) \in 1..m
          BY <1>1, <3>2
        <4> QED  BY <1>1, <1>9, <4>1
      <3> QED  BY <1>1, <3>1, <3>2
    <2>2. ASSUME NEW k \in 1..(n + m) PROVE \E i \in DOMAIN position' : position'[i] = k
      <3>1. CASE k <= n
        <4>1. k \in 1..n
          BY <1>1, <1>9, <3>1
        <4>2. PICK i \in DOMAIN position : position[i] = k
          BY <4>1 DEF IInv, Feed, Gapless
        <4> QED  BY <1>1, <4>2
      <3>2. CASE k > n
        <4>1. k - n \in 1..m
          BY <1>1, <1>9, <3>2
        <4>2. PICK i \in P : Rank(i, P) = k - n
          BY <1>1, <4>1, RankOnto
        <4>3. n + (k - n) = k
          BY <1>1
        <4> QED  BY <1>1, <4>2, <4>3
      <3> QED  BY <1>1, <3>1, <3>2
    <2>3. {position'[i] : i \in DOMAIN position'} = 1..(n + m)
      BY <2>1, <2>2
    <2> QED  BY <1>1, <1>2, <1>8, <1>10, <2>3 DEF Gapless
  <1>12. CausesFirst'
    <2>1. ASSUME NEW i \in DOMAIN position', NEW j \in rows'[i].basis
          PROVE  j \in DOMAIN position' /\ position'[j] < position'[i]
      <3>1. rows'[i].basis = rows[i].basis /\ j \in rows[i].basis
        BY <1>2, <2>1
      <3>2. CASE i \in DOMAIN position
        BY <1>1, <3>1, <3>2 DEF IInv, Feed, CausesFirst
      <3>3. CASE i \in P
        <4>1. j \in published \cup P
          BY <3>1, <3>3 DEF IInv, Selection, Publish
        <4>2. j < i
          BY <1>8, <3>1, <3>3 DEF IInv, RowsCausal
        <4> HIDE DEF n, m, P
        <4>3. CASE j \in DOMAIN position
          <5>1. position'[j] \in 1..n /\ position'[i] = n + Rank(i, P) /\ Rank(i, P) \in 1..m
            BY <1>1, <3>3, <4>3
          <5> QED  BY <1>1, <1>9, <4>3, <5>1
        <4>4. CASE j \in P
          <5>1. Rank(j, P) < Rank(i, P)
            BY <1>1, <3>3, <4>2, <4>4, RankOrders
          <5>2. position'[j] = n + Rank(j, P) /\ position'[i] = n + Rank(i, P)
                /\ Rank(j, P) \in 1..m /\ Rank(i, P) \in 1..m
            BY <1>1, <3>3, <4>4
          <5> QED  BY <1>1, <1>9, <4>4, <5>1, <5>2
        <4> QED  BY <1>8, <4>1, <4>3, <4>4
      <3> QED  BY <1>1, <3>2, <3>3
    <2> QED  BY <2>1 DEF CausesFirst
  <1>13. Feed'
    BY <1>2, <1>8, <1>11, <1>12 DEF IInv, Feed
  <1> QED  BY <1>3, <1>6, <1>7, <1>13 DEF IInv

-----------------------------------------------------------------------------
(* Theorems *)

(* The invariant holds in every reachable state.                             *)
THEOREM Invariance == Spec => []IInv
  <1>1. Init => IInv
    BY InitOK
  <1>2. IInv /\ [Next]_vars => IInv'
    <2> SUFFICES ASSUME IInv, [Next]_vars PROVE IInv'
      OBVIOUS
    <2>1. ASSUME NEW w \in Writer, WriterStep(w) PROVE IInv'
      BY <2>1, ReadHeadOK, DrawIdOK, InsertRowOK, RolledBackOK, CommitOK DEF WriterStep
    <2>2. ASSUME NEW r \in Relay, RelayStep(r) \/ LoseRelay(r) PROVE IInv'
      BY <2>2, RelayReadsOK, PublishOK DEF RelayStep
    <2>3. CASE UNCHANGED vars
      <3>1. UNCHANGED <<rows, published, position, lastId, writerVars, relayVars>>
        BY <2>3 DEF vars, tables
      <3>2. RowsKept
        BY <3>1 DEF RowsKept
      <3> QED  BY <3>1, <3>2, WritersUndisturbed, RelaysUndisturbed DEF IInv
    <2> QED  BY <2>1, <2>2, <2>3 DEF Next
  <1> QED  BY <1>1, <1>2, PTL DEF Spec

(* Positions run 1..n without a gap or a duplicate, and exactly the rows     *)
(* that say published have one, whatever ids were lost or committed late and *)
(* wherever a relay's connection died.                                       *)
THEOREM PositionsGapless == Spec => []Gapless
  <1>1. IInv => Gapless
    BY DEF IInv, Feed
  <1> QED  BY <1>1, Invariance, PTL

(* An event is published after every event its transaction had read.         *)
THEOREM CausesPublishedFirst == Spec => []CausesFirst
  <1>1. IInv => CausesFirst
    BY DEF IInv, Feed
  <1> QED  BY <1>1, Invariance, PTL

(* A consumer that has read up to a position has missed nothing below it:    *)
(* positions never change and new ones are above all old ones.               *)
THEOREM FeedOnlyGrows == Spec => OnlyAhead
  <1> DEFINE Ahead ==
        /\ \A i \in DOMAIN position : i \in DOMAIN position' /\ position'[i] = position[i]
        /\ \A i \in DOMAIN position' \ DOMAIN position, j \in DOMAIN position :
             position'[i] > position[j]
  <1>1. IInv /\ [Next]_vars => [Ahead]_vars
    <2> SUFFICES ASSUME IInv, Next PROVE Ahead
      OBVIOUS
    <2>1. ASSUME NEW r \in Relay, Publish(r) PROVE Ahead
      <3> DEFINE n == Cardinality(DOMAIN position)
                 P == pending[r]
      <3>1. /\ n \in Nat
            /\ DOMAIN position' = DOMAIN position \cup P
            /\ \A i \in DOMAIN position : position'[i] = position[i] /\ position[i] \in 1..n
            /\ \A i \in P : position'[i] = n + Rank(i, P) /\ Rank(i, P) \in 1..Cardinality(P)
            /\ IsFiniteSet(P)
        BY <2>1, PublishExtends
      <3>2. Cardinality(P) \in Nat
        BY <3>1, FS_CardinalityType
      <3>3. ASSUME NEW i \in P, NEW j \in DOMAIN position PROVE position'[i] > position[j]
        <4>1. position[j] \in 1..n /\ Rank(i, P) \in 1..Cardinality(P)
              /\ position'[i] = n + Rank(i, P)
          BY <3>1, <3>3
        <4> HIDE DEF n, P
        <4> QED  BY <3>1, <3>2, <4>1
      <3> QED  BY <3>1, <3>3
    <2>2. CASE UNCHANGED position
      BY <2>2
    <2>3. ASSUME NEW w \in Writer, WriterStep(w) PROVE UNCHANGED position
      BY <2>3 DEF WriterStep, ReadHead, DrawId, InsertRow, Conflict, Commit, LoseWriter, tables
    <2>4. ASSUME NEW r \in Relay,
                 Lock(r) \/ SelectPending(r) \/ NothingPending(r) \/ ReadOutboxHead(r)
                   \/ LoseRelay(r)
          PROVE  UNCHANGED position
      BY <2>4 DEF Lock, SelectPending, NothingPending, ReadOutboxHead, LoseRelay, tables
    <2> QED  BY <2>1, <2>2, <2>3, <2>4 DEF Next, RelayStep
  <1> QED  BY <1>1, Invariance, PTL DEF Spec, OnlyAhead
=============================================================================
