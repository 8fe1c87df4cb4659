--------------------------- MODULE FoldCachesProofs ---------------------------
(***************************************************************************)
(* Proofs about snapshots and memos, for any number of workers, handlers   *)
(* and builds, any snapshot_every, and any number of drops and restores.   *)
(***************************************************************************)
EXTENDS FoldCaches, SequenceTheorems, TLAPS

Stamp == Build \cup {0}
Cell  == Nat \X Stamp
Row   == [seq : Nat, state : Seq(Cell), version : Stamp, anchor : Nat]

-----------------------------------------------------------------------------
(* The inductive invariant *)

TrackerKind(t) ==
  /\ DOMAIN t = {"pc", "build", "seen", "state", "base", "rows", "due", "tries"}
  /\ t.pc \in {"idle", "tail", "all", "append"}
  /\ t.build \in Stamp /\ t.base \in Nat
  /\ t.seen \in Row /\ t.due \in Row
  /\ t.state \in Seq(Cell) /\ t.rows \in Seq(Nat)

Kinds ==
  /\ tier \in {"postgres", "sqlite"}
  /\ log \in Seq(Nat) /\ fresh \in Nat /\ drops \in Nat /\ restores \in Nat
  /\ snap \in Row
  /\ tx = [w \in Worker |-> tx[w]] /\ \A w \in Worker : TrackerKind(tx[w])
  /\ memo \in [Handler -> Seq(Cell)]
  /\ handling \in [Handler -> {"idle", "decided", "numbered"}]
  /\ wanted \in [Handler -> Nat]

(* If the anchor is where the snapshot says, all of the log before it is what *)
(* the snapshot has folded.                                                   *)
Genuine(s, l) ==
  /\ s # NoSnap => s.seq >= 1
  /\ s.seq \in DOMAIN l /\ l[s.seq] = s.anchor =>
       Len(s.state) = s.seq /\ \A i \in 1..s.seq : s.state[i] = <<l[i], s.version>>

(* How much of the log a transaction has folded.                              *)
Read(t) == Len(t.state) - Len(t.rows)

(* A transaction that has inserted rows has folded all of the log.            *)
Exact(t, l) ==
  /\ Read(t) \in 0..Len(l)
  /\ \A i \in 1..Read(t) : t.state[i] = <<l[i], t.build>>
  /\ \A i \in DOMAIN t.rows : t.state[Read(t) + i] = <<t.rows[i], t.build>>
  /\ t.rows # <<>> => Read(t) = Len(l)

(* The snapshot a tracker has handed out is of its own state, and anchored at *)
(* a row of the same transaction.                                             *)
DueExact(t) ==
  t.due # NoSnap =>
    /\ t.due.seq \in 1..Len(t.state) /\ t.due.seq > Read(t)
    /\ Len(t.due.state) = t.due.seq
    /\ \A i \in 1..t.due.seq : t.due.state[i] = t.state[i]
    /\ t.due.version = t.build
    /\ <<t.due.anchor, t.build>> = t.state[t.due.seq]
    /\ t.base = t.due.seq

(* After an insertion fewer than SnapshotEvery events follow the base; unless *)
(* an operator has interfered that is a snapshot which is stored, or due.     *)
BaseBounded(t, dropped, seq) ==
  /\ SnapshotEvery > 0 /\ t.rows # <<>> => Len(t.state) - t.base < SnapshotEvery
  /\ dropped = 0 /\ t.due = NoSnap => t.base <= seq

(* What a transaction in each phase has read and done, in tier `kind`, if the *)
(* log is l and the stored snapshot has this seq.                             *)
Fit(t, kind, l, dropped, seq) ==
  /\ t.pc # "idle" => kind = "postgres"
  /\ t.pc # "append" => t.rows = <<>> /\ t.due = NoSnap
  /\ t.pc = "tail" =>
       /\ t.seen # NoSnap /\ Genuine(t.seen, l)
       /\ dropped = 0 => t.seen.seq <= seq
  /\ t.pc = "append" => Exact(t, l) /\ DueExact(t) /\ BaseBounded(t, dropped, seq)

Workers == \A w \in Worker : Fit(tx[w], tier, log, drops, snap.seq)

(* An event yet to be committed is younger than every anchor.                 *)
Later ==
  /\ snap.anchor <= fresh
  /\ \A v \in Worker : tx[v].seen.anchor <= fresh
  /\ \A w \in Worker : \A i \in DOMAIN tx[w].rows :
       /\ tx[w].rows[i] <= fresh
       /\ snap.anchor < tx[w].rows[i]
       /\ \A v \in Worker : tx[v].seen.anchor < tx[w].rows[i]

(* The key of (stream, seq): one transaction at a time has inserted rows.     *)
Sole == \A w, v \in Worker : tx[w].rows # <<>> /\ tx[v].rows # <<>> => w = v

MemoOK(h) ==
  /\ Len(memo[h]) <= Len(log)
  /\ \A i \in DOMAIN memo[h] : memo[h][i] = <<log[i], 0>>
  /\ handling[h] # "idle" => tier = "sqlite"
  /\ handling[h] = "numbered" => wanted[h] <= Len(log) + 1

Memos == \A h \in Handler : MemoOK(h)

IInv ==
  Kinds /\ Genuine(snap, log) /\ Workers /\ Later /\ Sole /\ Memos /\ NeverOrphaned /\ TailBounded

-----------------------------------------------------------------------------
(* Folds *)

LEMMA FoldByKind ==
  ASSUME NEW b \in Stamp, NEW l \in Seq(Nat)
  PROVE  /\ FoldBy(b, l) \in Seq(Cell) /\ Len(FoldBy(b, l)) = Len(l)
         /\ \A i \in 1..Len(l) : FoldBy(b, l)[i] = <<l[i], b>>
  BY DEF FoldBy, Cell

(* A sequence that agrees with the log event by event is its fold.            *)
LEMMA IsFold ==
  ASSUME NEW b \in Stamp, NEW l \in Seq(Nat), NEW s \in Seq(Cell), Len(s) = Len(l),
         \A i \in 1..Len(l) : s[i] = <<l[i], b>>
  PROVE  s = FoldBy(b, l)
  <1> DEFINE f == FoldBy(b, l)
  <1>1. f \in Seq(Cell) /\ Len(f) = Len(l) /\ \A i \in 1..Len(l) : f[i] = <<l[i], b>>
    BY FoldByKind
  <1> HIDE DEF f
  <1>2. Len(s) = Len(f) /\ \A i \in 1..Len(s) : s[i] = f[i]
    BY <1>1
  <1>3. s = f
    BY <1>1, <1>2, SeqEqual
  <1> QED  BY <1>3 DEF f

LEMMA NoSnapKind == NoSnap \in Row /\ NoSnap.seq = 0 /\ NoSnap.anchor = 0
  BY DEF NoSnap, Row, Stamp

LEMMA IdleKind ==
  /\ TrackerKind(Idle) /\ Idle.pc = "idle" /\ Idle.rows = <<>> /\ Idle.due = NoSnap
  /\ Idle.seen = NoSnap /\ Idle.base = 0
  BY NoSnapKind DEF Idle, TrackerKind, Stamp

LEMMA Glue ==
  ASSUME NEW S, NEW p \in Seq(S), NEW q \in Seq(S)
  PROVE  /\ p \o q \in Seq(S) /\ Len(p \o q) = Len(p) + Len(q)
         /\ \A i \in 1..Len(p) : (p \o q)[i] = p[i]
         /\ \A i \in 1..Len(q) : (p \o q)[Len(p) + i] = q[i]
  <1>1. /\ p \o q \in Seq(S) /\ Len(p \o q) = Len(p) + Len(q)
        /\ \A i \in 1..(Len(p) + Len(q)) : (p \o q)[i] = IF i <= Len(p) THEN p[i] ELSE q[i - Len(p)]
    BY ConcatProperties
  <1> DEFINE n == Len(p)
             m == Len(q)
  <1>2. n \in Nat /\ m \in Nat
    OBVIOUS
  <1> HIDE DEF n, m
  <1>3. \A i \in 1..(n + m) : (p \o q)[i] = IF i <= n THEN p[i] ELSE q[i - n]
    BY <1>1 DEF n, m
  <1>4. ASSUME NEW i \in 1..n PROVE (p \o q)[i] = p[i]
    <2>1. i \in 1..(n + m) /\ i <= n
      BY <1>2
    <2> QED  BY <1>3, <2>1
  <1>5. ASSUME NEW i \in 1..m PROVE (p \o q)[n + i] = q[i]
    <2>1. n + i \in 1..(n + m) /\ ~(n + i <= n) /\ (n + i) - n = i
      BY <1>2
    <2> QED  BY <1>3, <2>1
  <1> QED  BY <1>1, <1>4, <1>5 DEF n, m

(* An exact fold of a prefix is continued by the fold of the rest.            *)
LEMMA Extend ==
  ASSUME NEW b \in Stamp, NEW l \in Seq(Nat), NEW a \in Seq(Cell), Len(a) <= Len(l),
         \A i \in 1..Len(a) : a[i] = <<l[i], b>>
  PROVE  LET e == a \o FoldBy(b, SubSeq(l, Len(a) + 1, Len(l)))
         IN  /\ e \in Seq(Cell) /\ Len(e) = Len(l)
             /\ \A i \in 1..Len(l) : e[i] = <<l[i], b>>
  <1> DEFINE n == Len(a)
             m == Len(l) - n
             rest == SubSeq(l, n + 1, Len(l))
             f == FoldBy(b, rest)
  <1>1. n = Len(a) /\ n \in Nat /\ m \in Nat /\ Len(l) = n + m
    OBVIOUS
  <1>2. rest \in Seq(Nat) /\ Len(rest) = m /\ \A i \in 1..m : rest[i] = l[n + i]
    OBVIOUS
  <1> HIDE DEF n, m, rest
  <1>3. f \in Seq(Cell) /\ Len(f) = m /\ \A i \in 1..m : f[i] = <<rest[i], b>>
    BY <1>2, FoldByKind
  <1> HIDE DEF f
  <1>4. /\ a \o f \in Seq(Cell) /\ Len(a \o f) = n + m
        /\ \A i \in 1..n : (a \o f)[i] = a[i]
        /\ \A i \in 1..m : (a \o f)[n + i] = f[i]
    <2>1. /\ a \o f \in Seq(Cell) /\ Len(a \o f) = Len(a) + Len(f)
          /\ \A i \in 1..Len(a) : (a \o f)[i] = a[i]
          /\ \A i \in 1..Len(f) : (a \o f)[Len(a) + i] = f[i]
      BY <1>3, Glue
    <2> QED  BY <2>1, <1>1, <1>3
  <1>5. ASSUME NEW i \in 1..(n + m) PROVE (a \o f)[i] = <<l[i], b>>
    <2>1. CASE i \in 1..n
      BY <2>1, <1>1, <1>4
    <2>2. CASE i \notin 1..n
      <3> DEFINE j == i - n
      <3>1. j \in 1..m /\ i = n + j
        BY <2>2, <1>1
      <3> HIDE DEF j
      <3>2. (a \o f)[i] = <<rest[j], b>> /\ rest[j] = l[i]
        BY <3>1, <1>2, <1>3, <1>4
      <3> QED  BY <3>2
    <2> QED  BY <2>1, <2>2
  <1> QED  BY <1>1, <1>4, <1>5 DEF f, rest, n

(* A snapshot that is not rejected, and the rows after its anchor, are the    *)
(* fold of the log.                                                           *)
LEMMA TrustedFold ==
  ASSUME NEW b \in Stamp, NEW s \in Row, NEW l \in Seq(Nat), s # NoSnap, Genuine(s, l),
         ~SnapshotRejection(b, s, From(l, s.seq))
  PROVE  /\ s.seq \in 1..Len(l) /\ Len(s.state) = s.seq
         /\ \A i \in 1..s.seq : s.state[i] = <<l[i], b>>
         /\ FoldFromSnapshot(b, s, Tail(From(l, s.seq))) \in Seq(Cell)
         /\ Len(FoldFromSnapshot(b, s, Tail(From(l, s.seq)))) = Len(l)
         /\ \A i \in 1..Len(l) : FoldFromSnapshot(b, s, Tail(From(l, s.seq)))[i] = <<l[i], b>>
  <1> DEFINE n == s.seq
             rows == From(l, n)
             rest == SubSeq(l, n + 1, Len(l))
             a == s.state
  <1>1. n \in Nat /\ n >= 1 /\ a \in Seq(Cell) /\ Len(l) \in Nat
    BY DEF Row, Genuine
  <1>2. /\ rows # <<>> /\ Head(rows) = s.anchor /\ s.version = b /\ Len(a) = n
    BY DEF SnapshotRejection
  <1> HIDE DEF n
  <1>3. n <= Len(l)
    <2> SUFFICES ASSUME Len(l) < n PROVE FALSE
      BY <1>1
    <2> QED  BY <1>1, <1>2, SubSeqEmpty DEF From
  <1>4. Head(rows) = l[n] /\ Tail(rows) = rest
    <2>1. n \in 1..Len(l) /\ Len(l) \in n..Len(l)
      BY <1>1, <1>3
    <2> QED  BY <2>1, HeadTailOfSubSeq DEF From
  <1>5. \A i \in 1..n : a[i] = <<l[i], b>>
    <2>1. n \in DOMAIN l /\ l[n] = s.anchor
      BY <1>1, <1>2, <1>3, <1>4
    <2>2. \A i \in 1..n : a[i] = <<l[i], s.version>>
      BY <2>1 DEF Genuine, n
    <2> QED  BY <1>2, <2>2
  <1>6. FoldFromSnapshot(b, s, Tail(From(l, s.seq))) = a \o FoldBy(b, SubSeq(l, Len(a) + 1, Len(l)))
    BY <1>2, <1>4 DEF FoldFromSnapshot, n
  <1> HIDE DEF a
  <1>7. LET e == a \o FoldBy(b, SubSeq(l, Len(a) + 1, Len(l)))
        IN  /\ e \in Seq(Cell) /\ Len(e) = Len(l)
            /\ \A i \in 1..Len(l) : e[i] = <<l[i], b>>
    BY <1>1, <1>2, <1>3, <1>5, Extend
  <1>8. s.seq \in 1..Len(l) /\ Len(s.state) = s.seq /\ \A i \in 1..s.seq : s.state[i] = <<l[i], b>>
    BY <1>1, <1>2, <1>3, <1>5 DEF n, a
  <1> QED  BY <1>6, <1>7, <1>8

(* A longer log does not make a snapshot lie, if what is new is not its       *)
(* anchor; a shorter one neither.                                             *)
LEMMA GenuineGrows ==
  ASSUME NEW s \in Row, NEW l \in Seq(Nat), NEW m \in Seq(Nat), Genuine(s, l),
         \A i \in DOMAIN m : IF i \in DOMAIN l THEN m[i] = l[i] ELSE m[i] # s.anchor
  PROVE  Genuine(s, m)
  <1> SUFFICES ASSUME s.seq \in DOMAIN m, m[s.seq] = s.anchor
               PROVE  Len(s.state) = s.seq /\ \A i \in 1..s.seq : s.state[i] = <<m[i], s.version>>
    BY DEF Genuine
  <1>1. s.seq \in DOMAIN l /\ l[s.seq] = s.anchor
    OBVIOUS
  <1>2. Len(s.state) = s.seq /\ \A i \in 1..s.seq : s.state[i] = <<l[i], s.version>>
    BY <1>1 DEF Genuine
  <1>3. \A i \in 1..s.seq : i \in DOMAIN m /\ i \in DOMAIN l
    BY <1>1 DEF Row
  <1> QED  BY <1>2, <1>3

-----------------------------------------------------------------------------
(* Trackers *)

(* The tracker of a transaction once it has inserted one more row.            *)
Inserted(t, id) == [AfterAppend(t, id) EXCEPT !.rows = Append(@, id)]

(* Its fields.                                                                *)
Follows(u, t, id) ==
  /\ TrackerKind(u) /\ u.pc = t.pc /\ u.build = t.build /\ u.seen = t.seen
  /\ u.state = Append(t.state, <<id, t.build>>) /\ u.rows = Append(t.rows, id)
  /\ Due(Len(t.state) + 1, t.base) =>
       /\ u.base = Len(t.state) + 1
       /\ u.due = [seq |-> Len(t.state) + 1, state |-> u.state, version |-> t.build, anchor |-> id]
  /\ ~Due(Len(t.state) + 1, t.base) => u.base = t.base /\ u.due = t.due

LEMMA InsertedKind ==
  ASSUME NEW t, TrackerKind(t), NEW id \in Nat,
         NEW u, u = Inserted(t, id)
  PROVE  Follows(u, t, id)
  <1> USE DEF Follows
  <1> DEFINE n == Len(t.state) + 1
             state == Append(t.state, <<id, t.build>>)
             new == [seq |-> n, state |-> state, version |-> t.build, anchor |-> id]
  <1>1. /\ t.state \in Seq(Cell) /\ t.rows \in Seq(Nat) /\ t.build \in Stamp /\ n \in Nat
        /\ <<id, t.build>> \in Cell
    BY DEF TrackerKind, Cell
  <1>2. state \in Seq(Cell) /\ Append(t.rows, id) \in Seq(Nat)
    BY <1>1
  <1>3. new \in Row
    BY <1>1, <1>2 DEF Row
  <1>4. /\ u.pc = t.pc /\ u.build = t.build /\ u.seen = t.seen
        /\ u.state = state /\ u.rows = Append(t.rows, id)
        /\ u.base = IF Due(n, t.base) THEN n ELSE t.base
        /\ u.due = IF Due(n, t.base) THEN new ELSE t.due
        /\ DOMAIN u = DOMAIN t
    BY DEF Inserted, AfterAppend, TrackerKind
  <1> HIDE DEF state, new, n
  <1>5. TrackerKind(u)
    BY <1>1, <1>2, <1>3, <1>4 DEF TrackerKind
  <1> QED  BY <1>1, <1>4, <1>5 DEF state, new, n

(* The row follows the log, the fold stays exact, and the snapshot that is    *)
(* now due, if any, is one of it.                                             *)
LEMMA InsertedOK ==
  ASSUME NEW t, TrackerKind(t), NEW id \in Nat, NEW l \in Seq(Nat),
         Exact(t, l), DueExact(t), Len(t.state) >= Len(l), NEW u, u = Inserted(t, id)
  PROVE  /\ Exact(u, l) /\ DueExact(u) /\ u.rows # <<>>
         /\ SnapshotEvery > 0 => Len(u.state) - u.base < SnapshotEvery
         /\ u.due = NoSnap => t.due = NoSnap /\ u.base = t.base
  <1> DEFINE n == Len(t.state) + 1
             m == Len(t.rows)
             k == Len(l)
  <1>1. n = Len(t.state) + 1 /\ m = Len(t.rows) /\ k = Len(l)
    OBVIOUS
  <1> HIDE DEF n, m, k
  <1>2. /\ TrackerKind(u) /\ u.build = t.build
        /\ u.state = Append(t.state, <<id, t.build>>) /\ u.rows = Append(t.rows, id)
        /\ Due(n, t.base) => /\ u.base = n
                             /\ u.due = [seq |-> n, state |-> u.state, version |-> t.build, anchor |-> id]
        /\ ~Due(n, t.base) => u.base = t.base /\ u.due = t.due
    <2>1. Follows(u, t, id)
      BY InsertedKind
    <2> QED  BY <1>1, <2>1 DEF Follows
  <1>3. /\ t.state \in Seq(Cell) /\ t.rows \in Seq(Nat) /\ <<id, t.build>> \in Cell /\ t.base \in Nat
    BY DEF TrackerKind, Cell
  <1>4. m \in Nat /\ k \in Nat /\ n \in Nat /\ n >= 1 /\ n - 1 = Len(t.state)
    BY <1>1, <1>3
  <1>5. /\ Len(u.state) = n /\ \A i \in 1..(n - 1) : u.state[i] = t.state[i]
        /\ u.state[n] = <<id, t.build>>
    BY <1>1, <1>2, <1>3
  <1>6. /\ Len(u.rows) = m + 1 /\ \A i \in 1..m : u.rows[i] = t.rows[i]
        /\ u.rows[m + 1] = id /\ DOMAIN u.rows = 1..(m + 1) /\ DOMAIN t.rows = 1..m
    BY <1>1, <1>2, <1>3
  <1>7. u.rows # <<>>
    BY <1>6, <1>4
  <1>8. Read(t) = (n - 1) - m /\ Read(u) = n - (m + 1)
    BY <1>1, <1>4, <1>5, <1>6 DEF Read
  <1>9. (n - 1) - m = k
    <2>1. CASE t.rows = <<>>
      <3>1. m = 0
        BY <2>1, <1>1
      <3> QED  BY <3>1, <1>1, <1>4, <1>8 DEF Exact
    <2>2. CASE t.rows # <<>>
      BY <2>2, <1>1, <1>8 DEF Exact
    <2> QED  BY <2>1, <2>2
  <1>10. Read(u) = k /\ Read(t) = k
    BY <1>4, <1>8, <1>9
  <1>11. \A i \in 1..k : t.state[i] = <<l[i], t.build>> /\ u.state[i] = t.state[i]
    <2>1. \A i \in 1..k : i \in 1..(n - 1)
      BY <1>4, <1>9
    <2> QED  BY <2>1, <1>5, <1>10 DEF Exact
  <1>12. ASSUME NEW i \in 1..(m + 1) PROVE u.state[k + i] = <<u.rows[i], t.build>>
    <2>1. CASE i = m + 1
      <3>1. k + i = n
        BY <2>1, <1>4, <1>9
      <3> QED  BY <2>1, <3>1, <1>5, <1>6
    <2>2. CASE i # m + 1
      <3>1. i \in 1..m /\ k + i \in 1..(n - 1)
        BY <2>2, <1>4, <1>9
      <3>2. t.state[k + i] = <<t.rows[i], t.build>>
        BY <3>1, <1>6, <1>10 DEF Exact
      <3> QED  BY <3>1, <3>2, <1>5, <1>6
    <2> QED  BY <2>1, <2>2
  <1>13. Exact(u, l)
    <2>1. Read(u) \in 0..Len(l) /\ Read(u) = Len(l)
      BY <1>1, <1>4, <1>10
    <2>2. \A i \in 1..Read(u) : u.state[i] = <<l[i], u.build>>
      BY <1>2, <1>10, <1>11
    <2>3. \A i \in DOMAIN u.rows : u.state[Read(u) + i] = <<u.rows[i], u.build>>
      BY <1>2, <1>6, <1>10, <1>12
    <2> QED  BY <2>1, <2>2, <2>3 DEF Exact
  <1>14. CASE Due(n, t.base)
    <2>1. /\ u.base = n /\ u.due.seq = n /\ u.due.state = u.state /\ u.due.version = t.build
          /\ u.due.anchor = id
      BY <1>2, <1>14
    <2>2. u.due # NoSnap
      BY <2>1, <1>4 DEF NoSnap
    <2>3. DueExact(u)
      <3>1. n \in 1..Len(u.state) /\ n > Read(u)
        BY <1>4, <1>5, <1>9, <1>10
      <3>2. <<id, u.build>> = u.state[n] /\ Len(u.state) = n
        BY <1>2, <1>5
      <3> QED  BY <2>1, <3>1, <3>2, <1>2 DEF DueExact
    <2>4. SnapshotEvery > 0 => Len(u.state) - u.base < SnapshotEvery
      BY <2>1, <1>4, <1>5, FoldCachesAssumption
    <2> QED  BY <1>7, <1>13, <2>2, <2>3, <2>4
  <1>15. CASE ~Due(n, t.base)
    <2>1. u.base = t.base /\ u.due = t.due
      BY <1>2, <1>15
    <2>2. SnapshotEvery > 0 => Len(u.state) - u.base < SnapshotEvery
      BY <1>15, <2>1, <1>3, <1>4, <1>5, FoldCachesAssumption DEF Due
    <2>3. DueExact(u)
      <3> SUFFICES ASSUME t.due # NoSnap PROVE DueExact(u)
        BY <2>1 DEF DueExact
      <3>1. /\ t.due.seq \in 1..(n - 1) /\ t.due.seq > k
            /\ Len(t.due.state) = t.due.seq
            /\ \A i \in 1..t.due.seq : t.due.state[i] = t.state[i]
            /\ t.due.version = t.build
            /\ <<t.due.anchor, t.build>> = t.state[t.due.seq]
            /\ t.base = t.due.seq
        BY <1>4, <1>10 DEF DueExact
      <3>2. \A i \in 1..t.due.seq : i \in 1..(n - 1)
        BY <3>1, <1>4
      <3>3. t.due.seq \in 1..Len(u.state) /\ u.state[t.due.seq] = t.state[t.due.seq]
        <4> DEFINE d == t.due.seq
        <4>1. d \in 1..(n - 1)
          BY <3>1
        <4> HIDE DEF d
        <4>2. d \in 1..n /\ u.state[d] = t.state[d]
          BY <4>1, <1>4, <1>5
        <4> QED  BY <4>2, <1>5 DEF d
      <3>4. \A i \in 1..t.due.seq : t.due.state[i] = u.state[i]
        BY <3>1, <3>2, <1>5
      <3> QED  BY <3>1, <3>3, <3>4, <2>1, <1>2, <1>10 DEF DueExact
    <2> QED  BY <1>7, <1>13, <2>1, <2>2, <2>3
  <1> QED  BY <1>14, <1>15

(* What a commit of the transaction t leaves: the log l, now m, and the       *)
(* snapshot s, now q.                                                         *)
Committed(t, l, s, m, q) ==
  /\ m \in Seq(Nat) /\ \A i \in DOMAIN l : i \in DOMAIN m /\ m[i] = l[i]
  /\ Len(m) = Len(l) + Len(t.rows)
  /\ \A i \in DOMAIN m \ DOMAIN l : \E j \in DOMAIN t.rows : m[i] = t.rows[j]
  /\ q \in Row /\ Genuine(q, m) /\ q.seq >= s.seq /\ q.seq >= t.due.seq
  /\ q = s \/ (q = t.due /\ q # NoSnap)
  /\ q = t.due /\ q # NoSnap =>
       /\ q.seq \in DOMAIN m /\ m[q.seq] = q.anchor
       /\ \E i \in DOMAIN t.rows : q.anchor = t.rows[i]

(* COMMIT: the rows follow the log, and the snapshot that is then stored is   *)
(* genuine, the one that was there or the one that was due.                   *)
LEMMA CommitOK ==
  ASSUME NEW t, TrackerKind(t), NEW l \in Seq(Nat), Exact(t, l), DueExact(t),
         NEW s \in Row, Genuine(s, l), \A i \in DOMAIN t.rows : s.anchor < t.rows[i],
         NEW m, m = l \o t.rows, NEW q, q = Upsert(s, t.due)
  PROVE  Committed(t, l, s, m, q)
  <1> USE DEF Committed
  <1> DEFINE k == Len(l)
             r == Len(t.rows)
             d == t.due
  <1>1. k = Len(l) /\ r = Len(t.rows) /\ k \in Nat /\ r \in Nat
    BY DEF TrackerKind
  <1>2. DOMAIN l = 1..k /\ t.rows \in Seq(Nat) /\ DOMAIN t.rows = 1..r /\ t.state \in Seq(Cell)
        /\ Len(t.state) \in Nat
    BY DEF TrackerKind
  <1>3. d \in Row /\ d.seq \in Nat /\ d.anchor \in Nat /\ s.seq \in Nat
    BY DEF TrackerKind, Row
  <1> HIDE DEF k, r
  <1>4. /\ m \in Seq(Nat) /\ Len(m) = k + r
        /\ \A i \in 1..k : m[i] = l[i]
        /\ \A i \in 1..r : m[k + i] = t.rows[i]
    <2> DEFINE a == t.rows
    <2>1. a \in Seq(Nat)
      BY <1>2
    <2> HIDE DEF a
    <2>2. /\ l \o a \in Seq(Nat) /\ Len(l \o a) = Len(l) + Len(a)
          /\ \A i \in 1..Len(l) : (l \o a)[i] = l[i]
          /\ \A i \in 1..Len(a) : (l \o a)[Len(l) + i] = a[i]
      BY <2>1, Glue
    <2> QED  BY <2>2, <1>1 DEF a
  <1>5. DOMAIN m = 1..(k + r)
    BY <1>4
  <1>6. ASSUME NEW i \in 1..(k + r), i \notin 1..k
        PROVE  i - k \in 1..r /\ m[i] = t.rows[i - k]
    <2> DEFINE j == i - k
    <2>1. j \in 1..r /\ i = k + j
      BY <1>6, <1>1
    <2> HIDE DEF j
    <2>2. m[i] = t.rows[j]
      BY <2>1, <1>4
    <2> QED  BY <2>1, <2>2 DEF j
  <1>7. /\ \A i \in DOMAIN l : i \in DOMAIN m /\ m[i] = l[i]
        /\ Len(m) = Len(l) + Len(t.rows)
        /\ \A i \in DOMAIN m \ DOMAIN l : \E j \in DOMAIN t.rows : m[i] = t.rows[j]
    <2>1. \A i \in 1..k : i \in 1..(k + r)
      BY <1>1
    <2> QED  BY <2>1, <1>1, <1>2, <1>4, <1>5, <1>6
  <1>8. Genuine(s, m)
    <2>1. \A i \in DOMAIN m : IF i \in DOMAIN l THEN m[i] = l[i] ELSE m[i] # s.anchor
      <3> SUFFICES ASSUME NEW i \in DOMAIN m, i \notin DOMAIN l PROVE m[i] # s.anchor
        BY <1>7
      <3>1. PICK j \in DOMAIN t.rows : m[i] = t.rows[j]
        BY <1>7
      <3>2. s.anchor < t.rows[j]
        OBVIOUS
      <3>3. s.anchor \in Nat
        BY DEF Row
      <3> QED  BY <3>1, <3>2, <3>3
    <2> QED  BY <2>1, <1>4, GenuineGrows
  <1>9. ASSUME d # NoSnap
        PROVE  /\ d.seq \in DOMAIN m /\ m[d.seq] = d.anchor /\ d.seq >= 1
               /\ Len(d.state) = d.seq /\ \A i \in 1..d.seq : d.state[i] = <<m[i], d.version>>
               /\ \E i \in DOMAIN t.rows : d.anchor = t.rows[i]
    <2> DEFINE n == Len(t.state)
               e == d.seq
    <2>1. /\ e \in 1..n /\ e > Read(t) /\ Len(d.state) = e /\ d.version = t.build
          /\ \A i \in 1..e : d.state[i] = t.state[i]
          /\ <<d.anchor, t.build>> = t.state[e]
      BY <1>9 DEF DueExact
    <2>2. Read(t) = n - r /\ n \in Nat /\ e \in Nat
      BY <1>1, <1>2, <1>3 DEF Read
    <2> HIDE DEF n, e
    <2>3. r # 0
      BY <2>1, <2>2, <1>1
    <2>4. t.rows # <<>>
      BY <2>3, <1>1
    <2>5. Read(t) = k /\ n = k + r
      BY <2>2, <2>4, <1>1 DEF Exact
    <2>6. ASSUME NEW i \in 1..(k + r) PROVE t.state[i] = <<m[i], t.build>>
      <3>1. CASE i \in 1..k
        <4>1. t.state[i] = <<l[i], t.build>>
          BY <3>1, <2>5 DEF Exact
        <4> QED  BY <4>1, <3>1, <1>4
      <3>2. CASE i \notin 1..k
        <4> DEFINE j == i - k
        <4>1. j \in 1..r /\ m[i] = t.rows[j] /\ i = k + j
          BY <3>2, <1>6, <1>1
        <4> HIDE DEF j
        <4>2. t.state[k + j] = <<t.rows[j], t.build>>
          BY <4>1, <2>5, <1>2 DEF Exact
        <4> QED  BY <4>1, <4>2
      <3> QED  BY <3>1, <3>2
    <2>7. e \in 1..(k + r) /\ e >= 1 /\ e \notin 1..k /\ \A i \in 1..e : i \in 1..(k + r)
      BY <2>1, <2>2, <2>5, <1>1
    <2>8. m[e] = d.anchor
      <3>1. <<d.anchor, t.build>> = <<m[e], t.build>>
        BY <2>1, <2>6, <2>7
      <3> QED  BY <3>1
    <2>9. \A i \in 1..e : d.state[i] = <<m[i], d.version>>
      BY <2>1, <2>6, <2>7
    <2>10. \E i \in DOMAIN t.rows : d.anchor = t.rows[i]
      BY <2>7, <2>8, <1>2, <1>6
    <2> QED  BY <2>1, <2>7, <2>8, <2>9, <2>10, <1>5 DEF e
  <1>10. Genuine(d, m)
    <2>1. CASE d # NoSnap
      BY <2>1, <1>9 DEF Genuine
    <2>2. CASE d = NoSnap
      <3>1. d.seq \notin DOMAIN m
        BY <2>2, <1>5, NoSnapKind
      <3> QED  BY <2>2, <3>1 DEF Genuine
    <2> QED  BY <2>1, <2>2
  <1>11. CASE s.seq < d.seq
    <2>1. q = d
      BY <1>11 DEF Upsert
    <2>2. q # NoSnap
      BY <2>1, <1>3, <1>11, NoSnapKind
    <2>3. q.seq >= s.seq /\ q.seq >= d.seq
      BY <2>1, <1>3, <1>11
    <2> QED  BY <2>1, <2>2, <2>3, <1>3, <1>4, <1>7, <1>9, <1>10
  <1>12. CASE ~(s.seq < d.seq)
    <2>1. q = s
      BY <1>12 DEF Upsert
    <2>2. q.seq >= s.seq /\ q.seq >= d.seq
      BY <2>1, <1>3, <1>12
    <2>3. q = d /\ q # NoSnap =>
            /\ q.seq \in DOMAIN m /\ m[q.seq] = q.anchor
            /\ \E i \in DOMAIN t.rows : q.anchor = t.rows[i]
      BY <1>9
    <2> QED  BY <2>1, <2>2, <2>3, <1>3, <1>4, <1>7, <1>8
  <1> QED  BY <1>11, <1>12

-----------------------------------------------------------------------------
(* PostgreSQL *)

(* A transaction's phase fits a log that has grown under it.                  *)
LEMMA FitGrows ==
  ASSUME NEW t, TrackerKind(t), NEW kind, NEW l \in Seq(Nat), NEW m \in Seq(Nat), NEW dropped,
         NEW a \in Nat, NEW c \in Nat, a <= c, Fit(t, kind, l, dropped, a),
         \A i \in DOMAIN l : i \in DOMAIN m /\ m[i] = l[i],
         \A i \in DOMAIN m \ DOMAIN l : m[i] # t.seen.anchor,
         t.rows # <<>> => m = l
  PROVE  Fit(t, kind, m, dropped, c)
  <1>1. t.seen \in Row /\ t.base \in Nat /\ t.seen.seq \in Nat
    BY DEF TrackerKind, Row
  <1>2. Genuine(t.seen, l) => Genuine(t.seen, m)
    <2>1. \A i \in DOMAIN m : IF i \in DOMAIN l THEN m[i] = l[i] ELSE m[i] # t.seen.anchor
      OBVIOUS
    <2> QED  BY <1>1, <2>1, GenuineGrows
  <1>3. Exact(t, l) => Exact(t, m)
    <2> SUFFICES ASSUME Exact(t, l) PROVE Exact(t, m)
      OBVIOUS
    <2>1. CASE t.rows # <<>>
      BY <2>1
    <2>2. CASE t.rows = <<>>
      <3>1. Len(l) \in Nat /\ Len(m) \in Nat /\ Len(l) <= Len(m)
        <4> SUFFICES ASSUME Len(l) > Len(m) PROVE FALSE
          OBVIOUS
        <4>1. Len(l) \in DOMAIN l /\ Len(l) \notin DOMAIN m
          OBVIOUS
        <4> QED  BY <4>1
      <3>2. Read(t) \in 0..Len(l) /\ Read(t) \in 0..Len(m)
        BY <3>1 DEF Exact
      <3>3. \A i \in 1..Read(t) : i \in DOMAIN l
        BY <3>1, <3>2
      <3> QED  BY <2>2, <3>2, <3>3 DEF Exact
    <2> QED  BY <2>1, <2>2
  <1>4. BaseBounded(t, dropped, a) => BaseBounded(t, dropped, c)
    BY <1>1 DEF BaseBounded
  <1>5. dropped = 0 /\ t.seen.seq <= a => t.seen.seq <= c
    BY <1>1
  <1> QED  BY <1>2, <1>3, <1>4, <1>5 DEF Fit

(* A statement changes its own transaction only.                              *)
LEMMA TxStep ==
  ASSUME IInv, NEW w \in Worker, NEW t, TrackerKind(t), tx' = [tx EXCEPT ![w] = t],
         UNCHANGED <<tier, log, snap, memo, handling, wanted, drops, restores>>,
         fresh' \in Nat, fresh' >= fresh,
         Fit(t, tier, log, drops, snap.seq),
         t.seen.anchor <= fresh,
         \A v \in Worker : v # w =>
           \A i \in DOMAIN tx[v].rows : t.seen.anchor < tx[v].rows[i],
         \A i \in DOMAIN t.rows :
           /\ t.rows[i] <= fresh' /\ snap.anchor < t.rows[i] /\ t.seen.anchor < t.rows[i]
           /\ \A v \in Worker : tx[v].seen.anchor < t.rows[i],
         t.rows # <<>> => \A v \in Worker : v # w => tx[v].rows = <<>>
  PROVE  IInv'
  <1>1. tx' = [v \in Worker |-> IF v = w THEN t ELSE tx[v]]
    BY DEF IInv, Kinds
  <1>2. tx'[w] = t /\ \A v \in Worker : v # w => tx'[v] = tx[v]
    BY <1>1
  <1>3. tx' = [v \in Worker |-> tx'[v]] /\ \A v \in Worker : TrackerKind(tx'[v])
    <2>1. \A v \in Worker : TrackerKind(tx[v])
      BY DEF IInv, Kinds
    <2> QED  BY <1>1, <1>2, <2>1
  <1>4. Kinds'
    BY <1>3 DEF IInv, Kinds
  <1>5. Workers'
    <2>1. \A v \in Worker : Fit(tx'[v], tier, log, drops, snap.seq)
      BY <1>2 DEF IInv, Workers
    <2> QED  BY <2>1 DEF Workers
  <1>6. Sole'
    BY <1>2 DEF IInv, Sole
  <1>7. Later'
    <2>1. /\ fresh \in Nat /\ snap.anchor \in Nat /\ t.seen.anchor \in Nat
          /\ \A v \in Worker : tx[v].seen.anchor \in Nat /\ tx[v].rows \in Seq(Nat)
      BY DEF IInv, Kinds, TrackerKind, Row
    <2>2. /\ snap.anchor <= fresh
          /\ \A v \in Worker : tx[v].seen.anchor <= fresh
          /\ \A v \in Worker : \A i \in DOMAIN tx[v].rows :
               /\ tx[v].rows[i] <= fresh
               /\ snap.anchor < tx[v].rows[i]
               /\ \A x \in Worker : tx[x].seen.anchor < tx[v].rows[i]
      BY DEF IInv, Later
    <2>3. snap.anchor <= fresh'
      BY <2>1, <2>2
    <2>4. \A v \in Worker : tx'[v].seen.anchor <= fresh'
      BY <2>1, <2>2, <1>2
    <2>5. ASSUME NEW v \in Worker, NEW i \in DOMAIN tx'[v].rows
          PROVE  /\ tx'[v].rows[i] <= fresh' /\ snap.anchor < tx'[v].rows[i]
                 /\ \A x \in Worker : tx'[x].seen.anchor < tx'[v].rows[i]
      <3>1. CASE v = w
        BY <3>1, <1>2
      <3>2. CASE v # w
        <4>1. tx'[v] = tx[v] /\ i \in DOMAIN tx[v].rows /\ tx[v].rows[i] \in Nat
          BY <3>2, <1>2, <2>1
        <4>2. tx[v].rows[i] <= fresh'
          BY <4>1, <2>1, <2>2
        <4> QED  BY <3>2, <4>1, <4>2, <2>2, <1>2
      <3> QED  BY <3>1, <3>2
    <2> QED  BY <2>3, <2>4, <2>5 DEF Later
  <1>8. Genuine(snap, log)' /\ Memos' /\ NeverOrphaned' /\ TailBounded'
    BY DEF IInv, Memos, MemoOK, NeverOrphaned, TailBounded
  <1> QED  BY <1>4, <1>5, <1>6, <1>7, <1>8 DEF IInv

(* A statement that inserts nothing.                                          *)
LEMMA ReadStep ==
  ASSUME IInv, NEW w \in Worker, NEW t, TrackerKind(t), tx' = [tx EXCEPT ![w] = t],
         UNCHANGED <<tier, log, snap, fresh, memo, handling, wanted, drops, restores>>,
         Fit(t, tier, log, drops, snap.seq), t.rows = <<>>,
         t.seen \in {tx[w].seen, snap, NoSnap}
  PROVE  IInv'
  <1>1. /\ fresh \in Nat /\ snap.anchor \in Nat /\ tx[w].seen.anchor \in Nat
        /\ \A v \in Worker : tx[v].rows \in Seq(Nat)
    BY DEF IInv, Kinds, TrackerKind, Row
  <1>2. t.seen.anchor <= fresh
    BY <1>1, NoSnapKind DEF IInv, Later
  <1>3. ASSUME NEW v \in Worker, NEW i \in DOMAIN tx[v].rows PROVE t.seen.anchor < tx[v].rows[i]
    <2>1. /\ tx[v].rows[i] \in Nat /\ snap.anchor < tx[v].rows[i]
          /\ tx[w].seen.anchor < tx[v].rows[i]
      BY <1>1 DEF IInv, Later
    <2>2. 0 < tx[v].rows[i]
      BY <1>1, <2>1
    <2> QED  BY <2>1, <2>2, NoSnapKind
  <1>4. DOMAIN t.rows = {}
    OBVIOUS
  <1>5. fresh' \in Nat /\ fresh' >= fresh
    BY <1>1
  <1> QED  BY <1>2, <1>3, <1>4, <1>5, TxStep

(* The snapshot is read, at the start or after a lost race.                   *)
LEMMA BeginOK ==
  ASSUME IInv, NEW w \in Worker, NEW b \in Stamp, tier = "postgres", NEW t,
         DOMAIN t = DOMAIN Idle, t.pc = IF snap = NoSnap THEN "all" ELSE "tail",
         t.build = b, t.seen = snap, t.rows = Idle.rows, t.due = Idle.due,
         t.state = Idle.state, t.base = Idle.base,
         tx' = [tx EXCEPT ![w] = t],
         UNCHANGED <<tier, log, snap, fresh, memo, handling, wanted, drops, restores>>
  PROVE  IInv'
  <1>1. /\ DOMAIN t = DOMAIN Idle /\ t.pc = IF snap = NoSnap THEN "all" ELSE "tail"
        /\ t.build = b /\ t.seen = snap /\ t.rows = Idle.rows /\ t.due = Idle.due
        /\ t.state = Idle.state /\ t.base = Idle.base
    OBVIOUS
  <1>2. snap \in Row /\ snap.seq \in Nat /\ Genuine(snap, log)
    BY DEF IInv, Kinds, Row
  <1>3. TrackerKind(t)
    BY <1>1, <1>2, IdleKind DEF TrackerKind
  <1>4. Fit(t, tier, log, drops, snap.seq)
    BY <1>1, <1>2, IdleKind DEF Fit
  <1> QED  BY <1>1, <1>3, <1>4, IdleKind, ReadStep

LEMMA ReadTailOK ==
  ASSUME IInv, NEW w \in Worker, ReadTail(w)
  PROVE  IInv'
  <1> DEFINE t == tx[w]
             rows == From(log, t.seen.seq)
             f == FoldFromSnapshot(t.build, t.seen, Tail(rows))
             u == IF SnapshotRejection(t.build, t.seen, rows)
                  THEN [t EXCEPT !.pc = "all"]
                  ELSE [t EXCEPT !.pc = "append", !.base = t.seen.seq, !.state = f]
  <1>1. /\ t.pc = "tail" /\ tx' = [tx EXCEPT ![w] = u]
        /\ UNCHANGED <<tier, log, snap, fresh, memo, handling, wanted, drops, restores>>
    BY DEF ReadTail
  <1>2. TrackerKind(t) /\ log \in Seq(Nat) /\ Fit(t, tier, log, drops, snap.seq)
    BY DEF IInv, Kinds, Workers
  <1>3. /\ t.rows = <<>> /\ t.due = NoSnap /\ t.seen # NoSnap /\ Genuine(t.seen, log)
        /\ drops = 0 => t.seen.seq <= snap.seq
        /\ tier = "postgres"
    BY <1>1, <1>2 DEF Fit
  <1>4. CASE SnapshotRejection(t.build, t.seen, rows)
    <2>1. /\ DOMAIN u = DOMAIN t /\ u.pc = "all" /\ u.build = t.build /\ u.seen = t.seen
          /\ u.rows = t.rows /\ u.due = t.due /\ u.state = t.state /\ u.base = t.base
      BY <1>2, <1>4 DEF TrackerKind
    <2> HIDE DEF u, t
    <2>2. TrackerKind(u)
      BY <2>1, <1>2 DEF TrackerKind
    <2>3. Fit(u, tier, log, drops, snap.seq)
      BY <2>1, <1>3 DEF Fit
    <2>4. u.seen = tx[w].seen /\ u.rows = <<>>
      BY <2>1, <1>3 DEF t
    <2> QED  BY <2>2, <2>3, <2>4, <1>1, ReadStep
  <1>5. CASE ~SnapshotRejection(t.build, t.seen, rows)
    <2>1. /\ DOMAIN u = DOMAIN t /\ u.pc = "append" /\ u.build = t.build /\ u.seen = t.seen
          /\ u.rows = t.rows /\ u.due = t.due /\ u.state = f /\ u.base = t.seen.seq
      BY <1>2, <1>5 DEF TrackerKind
    <2>2. t.build \in Stamp /\ t.seen \in Row /\ t.seen.seq \in Nat
      BY <1>2 DEF TrackerKind, Row
    <2>3. f \in Seq(Cell) /\ Len(f) = Len(log) /\ \A i \in 1..Len(log) : f[i] = <<log[i], t.build>>
      <3> HIDE DEF t
      <3> QED  BY <2>2, <1>2, <1>3, <1>5, TrustedFold
    <2> HIDE DEF u, t, f
    <2>4. TrackerKind(u)
      BY <2>1, <2>2, <2>3, <1>2 DEF TrackerKind
    <2>5. Exact(u, log)
      <3>1. u.rows = <<>> /\ DOMAIN u.rows = {} /\ Len(u.rows) = 0
        BY <2>1, <1>3
      <3>2. Read(u) = Len(log) /\ Len(log) \in Nat
        BY <3>1, <2>1, <2>3, <1>2 DEF Read
      <3> QED  BY <3>1, <3>2, <2>1, <2>3 DEF Exact
    <2>6. DueExact(u) /\ BaseBounded(u, drops, snap.seq)
      BY <2>1, <1>3 DEF DueExact, BaseBounded
    <2>7. Fit(u, tier, log, drops, snap.seq)
      BY <2>1, <2>5, <2>6, <1>3 DEF Fit
    <2>8. u.seen = tx[w].seen /\ u.rows = <<>>
      BY <2>1, <1>3 DEF t
    <2> QED  BY <2>4, <2>7, <2>8, <1>1, ReadStep
  <1> QED  BY <1>4, <1>5

LEMMA ReadAllOK ==
  ASSUME IInv, NEW w \in Worker, ReadAll(w)
  PROVE  IInv'
  <1> DEFINE t == tx[w]
             f == FoldBy(t.build, log)
             u == [t EXCEPT !.pc = "append", !.base = 0, !.state = f]
  <1>1. /\ t.pc = "all" /\ tx' = [tx EXCEPT ![w] = u]
        /\ UNCHANGED <<tier, log, snap, fresh, memo, handling, wanted, drops, restores>>
    BY DEF ReadAll
  <1>2. TrackerKind(t) /\ log \in Seq(Nat) /\ Fit(t, tier, log, drops, snap.seq)
    BY DEF IInv, Kinds, Workers
  <1>3. t.rows = <<>> /\ t.due = NoSnap /\ tier = "postgres"
    BY <1>1, <1>2 DEF Fit
  <1>4. /\ DOMAIN u = DOMAIN t /\ u.pc = "append" /\ u.build = t.build /\ u.seen = t.seen
        /\ u.rows = t.rows /\ u.due = t.due /\ u.state = f /\ u.base = 0
    BY <1>2 DEF TrackerKind
  <1>5. t.build \in Stamp /\ snap.seq \in Nat
    BY <1>2 DEF TrackerKind, IInv, Kinds, Row
  <1>6. f \in Seq(Cell) /\ Len(f) = Len(log) /\ \A i \in 1..Len(log) : f[i] = <<log[i], t.build>>
    <2> HIDE DEF t
    <2> QED  BY <1>5, <1>2, FoldByKind
  <1> HIDE DEF u, t, f
  <1>7. TrackerKind(u)
    BY <1>2, <1>4, <1>5, <1>6 DEF TrackerKind
  <1>8. Exact(u, log)
    <2>1. u.rows = <<>> /\ DOMAIN u.rows = {} /\ Len(u.rows) = 0
      BY <1>3, <1>4
    <2>2. Read(u) = Len(log) /\ Len(log) \in Nat
      BY <2>1, <1>2, <1>4, <1>6 DEF Read
    <2> QED  BY <2>1, <2>2, <1>4, <1>6 DEF Exact
  <1>9. DueExact(u) /\ BaseBounded(u, drops, snap.seq)
    BY <1>3, <1>4, <1>5 DEF DueExact, BaseBounded
  <1>10. Fit(u, tier, log, drops, snap.seq)
    BY <1>3, <1>4, <1>8, <1>9 DEF Fit
  <1>11. u.seen = tx[w].seen /\ u.rows = <<>>
    BY <1>3, <1>4 DEF t
  <1> QED  BY <1>1, <1>7, <1>10, <1>11, ReadStep

(* The key of (stream, seq) keeps a second transaction from inserting.        *)
LEMMA AppendAlone ==
  ASSUME IInv, NEW w \in Worker, AppendEvent(w), NEW v \in Worker, v # w
  PROVE  tx[v].rows = <<>>
  <1> DEFINE t == tx[w]
             q == tx[v]
             n == Len(t.state)
             k == Len(log)
  <1>1. t.pc = "append" /\ n + 1 > k /\ ~KeyTaken(w, n + 1)
    BY DEF AppendEvent
  <1>2. /\ TrackerKind(t) /\ TrackerKind(q) /\ log \in Seq(Nat)
        /\ Fit(t, tier, log, drops, snap.seq) /\ Fit(q, tier, log, drops, snap.seq)
    BY DEF IInv, Kinds, Workers
  <1>3. CASE t.rows # <<>>
    BY <1>3 DEF IInv, Sole
  <1>4. CASE t.rows = <<>>
    <2> SUFFICES ASSUME q.rows # <<>> PROVE FALSE
      OBVIOUS
    <2>1. Exact(t, log) /\ Exact(q, log)
      BY <1>1, <1>2 DEF Fit
    <2>2. /\ t.state \in Seq(Cell) /\ q.state \in Seq(Cell) /\ q.rows \in Seq(Nat)
      BY <1>2 DEF TrackerKind
    <2>3. n \in Nat /\ k \in Nat /\ Len(q.state) \in Nat /\ Len(q.rows) \in Nat /\ Len(q.rows) # 0
      BY <1>2, <2>2
    <2>4. Read(t) = n /\ n <= k
      BY <1>4, <2>1, <2>3 DEF Read, Exact
    <2>5. Len(q.state) - Len(q.rows) = k
      BY <2>1 DEF Exact, Read
    <2>6. Len(q.state) - Len(q.rows) < n + 1 /\ n + 1 <= Len(q.state)
      <3> DEFINE s == Len(q.state)
                 r == Len(q.rows)
      <3>1. s \in Nat /\ r \in Nat /\ r # 0 /\ s - r = k /\ n + 1 > k
        BY <1>1, <2>3, <2>5
      <3> HIDE DEF n, k, s, r
      <3>2. s - r < n + 1 /\ n + 1 <= s
        BY <2>3, <2>4, <3>1
      <3> QED  BY <3>2 DEF s, r
    <2> QED  BY <1>1, <2>6 DEF KeyTaken
  <1> QED  BY <1>3, <1>4

LEMMA AppendEventOK ==
  ASSUME IInv, NEW w \in Worker, AppendEvent(w)
  PROVE  IInv'
  <1> DEFINE t == tx[w]
             id == fresh + 1
             u == Inserted(t, id)
  <1>1. /\ t.pc = "append" /\ Len(t.state) + 1 > Len(log)
        /\ tx' = [tx EXCEPT ![w] = u] /\ fresh' = id
        /\ UNCHANGED <<tier, log, snap, memo, handling, wanted, drops, restores>>
    BY DEF AppendEvent, Inserted
  <1>2. /\ TrackerKind(t) /\ log \in Seq(Nat) /\ fresh \in Nat /\ id \in Nat
        /\ Fit(t, tier, log, drops, snap.seq)
    BY DEF IInv, Kinds, Workers
  <1>3. /\ t.state \in Seq(Cell) /\ t.rows \in Seq(Nat) /\ Len(t.state) >= Len(log)
        /\ t.seen.anchor \in Nat /\ snap.anchor \in Nat
        /\ \A v \in Worker : tx[v].seen.anchor \in Nat
    <2>1. t.state \in Seq(Cell) /\ t.rows \in Seq(Nat)
      BY <1>2 DEF TrackerKind
    <2>2. \A v \in Worker : tx[v].seen.anchor \in Nat
      BY DEF IInv, Kinds, TrackerKind, Row
    <2>3. snap.anchor \in Nat
      BY DEF IInv, Kinds, Row
    <2> QED  BY <1>1, <1>2, <2>1, <2>2, <2>3
  <1>4. Exact(t, log) /\ DueExact(t) /\ BaseBounded(t, drops, snap.seq) /\ tier = "postgres"
    BY <1>1, <1>2 DEF Fit
  <1>5. \A v \in Worker : v # w => tx[v].rows = <<>>
    BY AppendAlone
  <1>6. \A v \in Worker : v # w => DOMAIN tx[v].rows = {}
    BY <1>5
  <1> HIDE DEF u, id
  <1>7. /\ TrackerKind(u) /\ u.pc = t.pc /\ u.build = t.build /\ u.seen = t.seen
        /\ u.rows = Append(t.rows, id)
    <2>1. u = Inserted(t, id)
      BY DEF u
    <2>2. TrackerKind(t) /\ id \in Nat
      BY <1>2
    <2> HIDE DEF t
    <2>3. Follows(u, t, id)
      BY <2>1, <2>2, InsertedKind
    <2> QED  BY <2>3 DEF Follows
  <1>8. /\ Exact(u, log) /\ DueExact(u) /\ u.rows # <<>>
        /\ SnapshotEvery > 0 => Len(u.state) - u.base < SnapshotEvery
        /\ u.due = NoSnap => t.due = NoSnap /\ u.base = t.base
    <2>1. u = Inserted(t, id)
      BY DEF u
    <2> HIDE DEF t
    <2> QED  BY <2>1, <1>2, <1>3, <1>4, InsertedOK
  <1>9. Fit(u, tier, log, drops, snap.seq)
    <2>1. BaseBounded(u, drops, snap.seq)
      BY <1>4, <1>8 DEF BaseBounded
    <2> QED  BY <2>1, <1>1, <1>4, <1>7, <1>8 DEF Fit
  <1>10. u.seen.anchor <= fresh
    BY <1>7 DEF IInv, Later
  <1>11. ASSUME NEW i \in DOMAIN u.rows
         PROVE  /\ u.rows[i] <= fresh' /\ snap.anchor < u.rows[i] /\ u.seen.anchor < u.rows[i]
                /\ \A v \in Worker : tx[v].seen.anchor < u.rows[i]
    <2>1. (i \in DOMAIN t.rows /\ u.rows[i] = t.rows[i]) \/ u.rows[i] = id
      BY <1>2, <1>3, <1>7
    <2>2. CASE u.rows[i] = id
      BY <2>2, <1>1, <1>2, <1>3, <1>7 DEF IInv, Later, id
    <2>3. CASE i \in DOMAIN t.rows /\ u.rows[i] = t.rows[i]
      <3>1. t.rows[i] <= fresh /\ t.rows[i] \in Nat
        BY <2>3, <1>3 DEF IInv, Later
      <3> QED  BY <2>3, <3>1, <1>1, <1>2, <1>7 DEF IInv, Later, id
    <2> QED  BY <2>1, <2>2, <2>3
  <1>12. fresh' \in Nat /\ fresh' >= fresh
    BY <1>1, <1>2 DEF id
  <1> HIDE DEF t
  <1> QED  BY <1>1, <1>5, <1>6, <1>7, <1>9, <1>10, <1>11, <1>12, TxStep

LEMMA LosesRaceOK ==
  ASSUME IInv, NEW w \in Worker, LosesRace(w)
  PROVE  IInv'
  <1> DEFINE t == tx[w]
             u == [Idle EXCEPT !.pc = IF snap = NoSnap THEN "all" ELSE "tail",
                               !.build = t.build, !.seen = snap, !.tries = t.tries + 1]
  <1>1. /\ t.pc = "append" /\ TrackerKind(t)
        /\ UNCHANGED <<tier, log, snap, fresh, memo, handling, wanted, drops, restores>>
    BY DEF LosesRace, IInv, Kinds
  <1>2. tier = "postgres" /\ t.build \in Stamp
    BY <1>1 DEF IInv, Workers, Fit, TrackerKind
  <1>3. CASE tx' = [tx EXCEPT ![w] = u]
    <2>1. /\ DOMAIN u = DOMAIN Idle /\ u.pc = IF snap = NoSnap THEN "all" ELSE "tail"
          /\ u.build = t.build /\ u.seen = snap /\ u.rows = Idle.rows /\ u.due = Idle.due
          /\ u.state = Idle.state /\ u.base = Idle.base
      BY DEF Idle
    <2> HIDE DEF u
    <2> QED  BY <2>1, <1>1, <1>2, <1>3, BeginOK
  <1>4. CASE tx' = [tx EXCEPT ![w] = Idle]
    <2>1. Fit(Idle, tier, log, drops, snap.seq)
      BY IdleKind DEF Fit
    <2> QED  BY <1>1, <1>4, <2>1, IdleKind, ReadStep
  <1>5. tx' = [tx EXCEPT ![w] = u] \/ tx' = [tx EXCEPT ![w] = Idle]
    BY DEF LosesRace
  <1> QED  BY <1>3, <1>4, <1>5

LEMMA ReadSnapshotOK ==
  ASSUME IInv, NEW w \in Worker, NEW b \in Build, ReadSnapshot(w, b)
  PROVE  IInv'
  <1> DEFINE t == [Idle EXCEPT !.pc = IF snap = NoSnap THEN "all" ELSE "tail",
                               !.build = b, !.seen = snap]
  <1>1. /\ tier = "postgres" /\ tx' = [tx EXCEPT ![w] = t]
        /\ UNCHANGED <<tier, log, snap, fresh, memo, handling, wanted, drops, restores>>
    BY DEF ReadSnapshot
  <1>2. /\ DOMAIN t = DOMAIN Idle /\ t.pc = IF snap = NoSnap THEN "all" ELSE "tail"
        /\ t.build = b /\ t.seen = snap /\ t.rows = Idle.rows /\ t.due = Idle.due
        /\ t.state = Idle.state /\ t.base = Idle.base
    BY DEF Idle
  <1>3. b \in Stamp
    BY DEF Stamp
  <1> HIDE DEF t
  <1> QED  BY <1>1, <1>2, <1>3, BeginOK

(* The memos of handlers stay exact when the log grows.                       *)
LEMMA MemosGrow ==
  ASSUME Kinds, Memos, UNCHANGED <<tier, memo, handling, wanted>>, log' \in Seq(Nat),
         Len(log) <= Len(log'), \A i \in DOMAIN log : log'[i] = log[i]
  PROVE  Memos'
  <1> SUFFICES ASSUME NEW h \in Handler PROVE MemoOK(h)'
    BY DEF Memos
  <1> DEFINE j == Len(log)
             k == Len(log')
  <1>1. MemoOK(h) /\ memo[h] \in Seq(Cell) /\ wanted[h] \in Nat /\ log \in Seq(Nat)
    BY DEF Memos, Kinds
  <1>2. j \in Nat /\ k \in Nat /\ j <= k /\ Len(memo[h]) \in Nat /\ Len(memo[h]) <= j
    BY <1>1 DEF MemoOK
  <1>3. \A i \in DOMAIN memo[h] : i \in DOMAIN log
    BY <1>1, <1>2
  <1>4. \A i \in DOMAIN memo[h] : memo[h][i] = <<log'[i], 0>>
    BY <1>1, <1>3 DEF MemoOK
  <1>5. handling[h] = "numbered" => wanted[h] <= j + 1
    BY <1>1 DEF MemoOK
  <1> HIDE DEF j, k
  <1>6. Len(memo[h]) <= k /\ (handling[h] = "numbered" => wanted[h] <= k + 1)
    BY <1>1, <1>2, <1>5
  <1>7. Len(memo[h]) <= Len(log') /\ (handling[h] = "numbered" => wanted[h] <= Len(log') + 1)
    BY <1>6 DEF k
  <1> QED  BY <1>1, <1>4, <1>7 DEF MemoOK

LEMMA PgCommitOK ==
  ASSUME IInv, NEW w \in Worker, Commit(w)
  PROVE  IInv'
  <1> DEFINE t == tx[w]
             m == log \o t.rows
             q == Upsert(snap, t.due)
  <1>1. /\ t.pc = "append" /\ log' = m /\ snap' = q /\ tx' = [tx EXCEPT ![w] = Idle]
        /\ UNCHANGED <<tier, fresh, memo, handling, wanted, drops, restores>>
    BY DEF Commit
  <1>2. /\ TrackerKind(t) /\ log \in Seq(Nat) /\ fresh \in Nat /\ snap \in Row /\ Genuine(snap, log)
        /\ Fit(t, tier, log, drops, snap.seq)
    BY DEF IInv, Kinds, Workers
  <1>3. Exact(t, log) /\ DueExact(t) /\ BaseBounded(t, drops, snap.seq)
    BY <1>1, <1>2 DEF Fit
  <1>4. \A i \in DOMAIN t.rows : snap.anchor < t.rows[i] /\ t.rows[i] <= fresh
    BY DEF IInv, Later
  <1> HIDE DEF m, q
  <1>5. /\ m \in Seq(Nat) /\ \A i \in DOMAIN log : i \in DOMAIN m /\ m[i] = log[i]
        /\ Len(m) = Len(log) + Len(t.rows)
        /\ \A i \in DOMAIN m \ DOMAIN log : \E j \in DOMAIN t.rows : m[i] = t.rows[j]
        /\ q \in Row /\ Genuine(q, m) /\ q.seq >= snap.seq /\ q.seq >= t.due.seq
        /\ q = snap \/ (q = t.due /\ q # NoSnap)
        /\ q = t.due /\ q # NoSnap =>
             /\ q.seq \in DOMAIN m /\ m[q.seq] = q.anchor
             /\ \E i \in DOMAIN t.rows : q.anchor = t.rows[i]
    <2>1. m = log \o t.rows /\ q = Upsert(snap, t.due)
      BY DEF m, q
    <2>2. \A i \in DOMAIN t.rows : snap.anchor < t.rows[i]
      BY <1>4
    <2>3. Committed(t, log, snap, m, q)
      <3> HIDE DEF t
      <3> QED  BY <2>1, <2>2, <1>2, <1>3, CommitOK
    <2> QED  BY <2>3 DEF Committed
  <1>6. tx' = [v \in Worker |-> IF v = w THEN Idle ELSE tx[v]]
    BY <1>1 DEF IInv, Kinds
  <1>7. tx'[w] = Idle /\ \A v \in Worker : v # w => tx'[v] = tx[v]
    BY <1>6
  <1>8. /\ \A v \in Worker : TrackerKind(tx[v])
        /\ snap.seq \in Nat /\ q.seq \in Nat /\ q.anchor \in Nat /\ snap.anchor \in Nat
        /\ \A v \in Worker : tx[v].seen.anchor \in Nat /\ tx[v].rows \in Seq(Nat)
    BY <1>2, <1>5 DEF IInv, Kinds, TrackerKind, Row
  <1>9. Kinds'
    <2>1. tx' = [v \in Worker |-> tx'[v]] /\ \A v \in Worker : TrackerKind(tx'[v])
      BY <1>6, <1>7, <1>8, IdleKind
    <2> QED  BY <2>1, <1>1, <1>5 DEF IInv, Kinds
  <1>10. t.rows = <<>> => m = log
    BY <1>2 DEF m
  <1>11. Workers'
    <2> SUFFICES ASSUME NEW v \in Worker PROVE Fit(tx'[v], tier, m, drops, q.seq)
      BY <1>1 DEF Workers
    <2>1. CASE v = w
      BY <2>1, <1>7, IdleKind DEF Fit
    <2>2. CASE v # w
      <3> DEFINE x == tx[v]
      <3>1. x.rows # <<>> => m = log
        BY <2>2, <1>10 DEF IInv, Sole
      <3>2. \A i \in DOMAIN m \ DOMAIN log : m[i] # x.seen.anchor
        <4> SUFFICES ASSUME NEW i \in DOMAIN m \ DOMAIN log PROVE m[i] # x.seen.anchor
          OBVIOUS
        <4>1. PICK j \in DOMAIN t.rows : m[i] = t.rows[j]
          BY <1>5
        <4>2. x.seen.anchor < t.rows[j] /\ x.seen.anchor \in Nat
          BY <1>8 DEF IInv, Later
        <4> QED  BY <4>1, <4>2
      <3>3. Fit(x, tier, log, drops, snap.seq) /\ TrackerKind(x)
        BY <1>8 DEF IInv, Workers
      <3> HIDE DEF x
      <3>4. snap.seq <= q.seq
        BY <1>5, <1>8
      <3>5. Fit(x, tier, m, drops, q.seq)
        BY <3>1, <3>2, <3>3, <3>4, <1>2, <1>5, <1>8, FitGrows
      <3> QED  BY <2>2, <3>5, <1>7 DEF x
    <2> QED  BY <2>1, <2>2
  <1>12. Sole'
    BY <1>7, IdleKind DEF IInv, Sole
  <1>13. Later'
    <2>1. q.anchor <= fresh
      BY <1>2, <1>4, <1>5, <1>8 DEF IInv, Later
    <2>2. \A v \in Worker : tx'[v].seen.anchor <= fresh
      BY <1>2, <1>7, IdleKind, NoSnapKind DEF IInv, Later
    <2>3. ASSUME NEW v \in Worker, NEW i \in DOMAIN tx'[v].rows
          PROVE  /\ tx'[v].rows[i] <= fresh /\ q.anchor < tx'[v].rows[i]
                 /\ \A x \in Worker : tx'[x].seen.anchor < tx'[v].rows[i]
      <3>1. v # w
        BY <1>7, IdleKind
      <3>2. tx'[v] = tx[v] /\ i \in DOMAIN tx[v].rows /\ tx[v].rows[i] \in Nat /\ tx[v].rows # <<>>
        BY <3>1, <1>7, <1>8
      <3>3. t.rows = <<>>
        BY <3>1, <3>2 DEF IInv, Sole
      <3>4. q = snap
        BY <3>3, <1>5
      <3>5. /\ tx[v].rows[i] <= fresh /\ snap.anchor < tx[v].rows[i]
            /\ \A x \in Worker : tx[x].seen.anchor < tx[v].rows[i]
        BY <3>2 DEF IInv, Later
      <3>6. 0 < tx[v].rows[i]
        BY <3>2, <3>5, <1>8
      <3>7. \A x \in Worker : tx'[x].seen.anchor < tx[v].rows[i]
        BY <3>5, <3>6, <1>7, IdleKind, NoSnapKind
      <3> QED  BY <3>2, <3>4, <3>5, <3>7
    <2> QED  BY <2>1, <2>2, <2>3, <1>1 DEF Later
  <1>14. Len(log) \in Nat /\ Len(m) \in Nat /\ Len(log) <= Len(m) /\ Len(t.rows) \in Nat
    <2> DEFINE k == Len(t.rows)
               j == Len(log)
    <2>1. k \in Nat /\ j \in Nat /\ Len(m) = j + k
      BY <1>2, <1>5, <1>8
    <2> HIDE DEF k, j
    <2>2. j <= j + k /\ j + k \in Nat
      BY <2>1
    <2> QED  BY <2>1, <2>2 DEF k, j
  <1>15. Memos'
    BY <1>1, <1>5, <1>14, MemosGrow DEF IInv
  <1>16. NeverOrphaned'
    <2> SUFFICES ASSUME restores = 0, q # NoSnap PROVE q.seq <= Len(m) /\ m[q.seq] = q.anchor
      BY <1>1 DEF NeverOrphaned
    <2>1. CASE q = t.due
      BY <2>1, <1>5, <1>8
    <2>2. CASE q = snap
      <3>1. snap.seq <= Len(log) /\ log[snap.seq] = snap.anchor /\ snap.seq >= 1
        BY <2>2, <1>2 DEF IInv, NeverOrphaned, Genuine
      <3>2. snap.seq \in DOMAIN log
        BY <3>1, <1>2, <1>8
      <3> QED  BY <2>2, <3>1, <3>2, <1>5, <1>8, <1>14
    <2> QED  BY <2>1, <2>2, <1>5
  <1>17. TailBounded'
    <2> SUFFICES ASSUME SnapshotEvery > 0, tier = "postgres", drops = 0, restores = 0
                 PROVE  Len(m) - q.seq < SnapshotEvery
      BY <1>1 DEF TailBounded
    <2>1. CASE t.rows = <<>>
      <3>1. Len(log) - snap.seq < SnapshotEvery /\ m = log
        BY <2>1, <1>10 DEF IInv, TailBounded
      <3> DEFINE j == Len(log)
      <3>2. j \in Nat /\ Len(m) = j /\ j - snap.seq < SnapshotEvery
        BY <3>1, <1>14
      <3> HIDE DEF j
      <3>3. j - q.seq < SnapshotEvery
        BY <3>2, <1>5, <1>8, FoldCachesAssumption
      <3> QED  BY <3>2, <3>3
    <2>2. CASE t.rows # <<>>
      <3> DEFINE n == Len(t.state)
                 a == t.base
                 k == Len(t.rows)
                 j == Len(log)
      <3>1. n - a < SnapshotEvery /\ (t.due = NoSnap => a <= snap.seq)
        BY <2>2, <1>3 DEF BaseBounded
      <3>2. n - k = j
        BY <2>2, <1>3 DEF Exact, Read
      <3>3. n \in Nat /\ k \in Nat /\ j \in Nat /\ a \in Nat
        BY <1>2, <1>14 DEF TrackerKind
      <3>4. t.due # NoSnap => a = t.due.seq
        BY <1>3 DEF DueExact
      <3>5. a <= q.seq
        BY <3>1, <3>3, <3>4, <1>5, <1>8
      <3>6. Len(m) = j + k
        BY <1>5
      <3> HIDE DEF n, a, k, j
      <3> QED  BY <3>1, <3>2, <3>3, <3>5, <3>6, <1>8, FoldCachesAssumption
    <2> QED  BY <2>1, <2>2
  <1>18. Genuine(snap, log)'
    BY <1>1, <1>5
  <1> QED  BY <1>9, <1>11, <1>12, <1>13, <1>15, <1>16, <1>17, <1>18 DEF IInv

-----------------------------------------------------------------------------
(* SQLite *)

(* No PostgreSQL transaction is under way.                                    *)
LEMMA SqliteIdle ==
  ASSUME IInv, tier = "sqlite", NEW w \in Worker
  PROVE  tx[w].pc = "idle" /\ tx[w].rows = <<>> /\ tx[w].due = NoSnap
  <1>1. Fit(tx[w], tier, log, drops, snap.seq) /\ tx[w].pc \in {"idle", "tail", "all", "append"}
    BY DEF IInv, Workers, Kinds, TrackerKind
  <1> QED  BY <1>1 DEF Fit

(* A step of the SQLite tier.                                                 *)
LEMMA SqliteStep ==
  ASSUME IInv, tier = "sqlite", UNCHANGED <<tier, tx, drops, restores>>,
         log' \in Seq(Nat), snap' \in Row, Genuine(snap', log'),
         fresh' \in Nat, fresh' >= fresh, snap'.anchor <= fresh',
         memo' \in [Handler -> Seq(Cell)],
         handling' \in [Handler -> {"idle", "decided", "numbered"}],
         wanted' \in [Handler -> Nat],
         Memos', NeverOrphaned'
  PROVE  IInv'
  <1>1. \A w \in Worker : tx[w].pc = "idle" /\ tx[w].rows = <<>> /\ tx[w].due = NoSnap
    BY SqliteIdle
  <1>2. Kinds'
    BY DEF IInv, Kinds
  <1>3. Workers'
    <2>1. \A w \in Worker : Fit(tx[w], tier, log', drops, snap'.seq)
      BY <1>1 DEF Fit
    <2> QED  BY <2>1 DEF Workers
  <1>4. Sole' /\ TailBounded'
    BY DEF IInv, Sole, TailBounded
  <1>5. Later'
    <2>1. \A w \in Worker : DOMAIN tx[w].rows = {}
      BY <1>1
    <2>2. \A v \in Worker : tx[v].seen.anchor <= fresh'
      <3>1. \A v \in Worker : tx[v].seen.anchor \in Nat /\ tx[v].seen.anchor <= fresh
        BY DEF IInv, Kinds, TrackerKind, Row, Later
      <3>2. fresh \in Nat
        BY DEF IInv, Kinds
      <3> QED  BY <3>1, <3>2
    <2> QED  BY <2>1, <2>2 DEF Later
  <1> QED  BY <1>2, <1>3, <1>4, <1>5 DEF IInv

(* fold_stream: the fold of all of the log, from the snapshot or from scratch.*)
LEMMA SqliteFold ==
  ASSUME IInv, NEW b \in Build, NEW t, t = SqliteFoldStream(b)
  PROVE  /\ TrackerKind(t) /\ t.rows = <<>> /\ Exact(t, log) /\ DueExact(t)
         /\ Len(t.state) = Len(log) /\ t.build = b
  <1> DEFINE rows == From(log, snap.seq)
             f == FoldBy(b, log)
             g == FoldFromSnapshot(b, snap, Tail(rows))
  <1>1. b \in Stamp /\ log \in Seq(Nat) /\ snap \in Row /\ snap.seq \in Nat /\ Genuine(snap, log)
    BY DEF IInv, Kinds, Row, Stamp
  <1>2. /\ DOMAIN t = DOMAIN Idle /\ t.pc = Idle.pc /\ t.build = b /\ t.seen = Idle.seen
        /\ t.rows = Idle.rows /\ t.due = Idle.due /\ t.base \in {Idle.base, snap.seq}
    BY DEF SqliteFoldStream, Idle
  <1>3. /\ t.state \in Seq(Cell) /\ Len(t.state) = Len(log)
        /\ \A i \in 1..Len(log) : t.state[i] = <<log[i], b>>
    <2>1. CASE snap = NoSnap \/ SnapshotRejection(b, snap, rows)
      <3>1. t.state = f
        BY <2>1 DEF SqliteFoldStream, Idle
      <3>2. f \in Seq(Cell) /\ Len(f) = Len(log) /\ \A i \in 1..Len(log) : f[i] = <<log[i], b>>
        BY <1>1, FoldByKind
      <3> QED  BY <3>1, <3>2
    <2>2. CASE ~(snap = NoSnap \/ SnapshotRejection(b, snap, rows))
      <3>1. t.state = g
        BY <2>2 DEF SqliteFoldStream, Idle
      <3>2. g \in Seq(Cell) /\ Len(g) = Len(log) /\ \A i \in 1..Len(log) : g[i] = <<log[i], b>>
        BY <2>2, <1>1, TrustedFold
      <3> QED  BY <3>1, <3>2
    <2> QED  BY <2>1, <2>2
  <1>4. TrackerKind(t)
    BY <1>1, <1>2, <1>3, IdleKind DEF TrackerKind
  <1>5. t.rows = <<>> /\ DOMAIN t.rows = {} /\ Len(t.rows) = 0 /\ t.due = NoSnap
    BY <1>2, IdleKind
  <1>6. Read(t) = Len(log) /\ Len(log) \in Nat
    BY <1>1, <1>3, <1>5 DEF Read
  <1>7. Exact(t, log) /\ DueExact(t)
    BY <1>2, <1>3, <1>5, <1>6 DEF Exact, DueExact
  <1> QED  BY <1>2, <1>3, <1>4, <1>5, <1>7

(* The snapshot that is due depends on the fold, not on the rows.             *)
LEMMA SameDue ==
  ASSUME NEW t, NEW u, TrackerKind(t), TrackerKind(u), NEW id,
         u.state = t.state, u.base = t.base, u.build = t.build, u.due = t.due
  PROVE  AfterAppend(u, id).due = AfterAppend(t, id).due
  BY DEF AfterAppend, TrackerKind

LEMMA InsertedDue ==
  ASSUME NEW t, TrackerKind(t), NEW id \in Nat
  PROVE  /\ TrackerKind(AfterAppend(t, id))
         /\ Inserted(t, id).due = AfterAppend(t, id).due
         /\ Inserted(t, id).state = AfterAppend(t, id).state
         /\ Inserted(t, id).base = AfterAppend(t, id).base
         /\ Inserted(t, id).build = AfterAppend(t, id).build
  <1> DEFINE u == Inserted(t, id)
             a == AfterAppend(t, id)
  <1>1. /\ DOMAIN a = DOMAIN t /\ a.pc = t.pc /\ a.seen = t.seen /\ a.rows = t.rows
    BY DEF AfterAppend, TrackerKind
  <1>2. DOMAIN a = DOMAIN u /\ u.due = a.due /\ u.state = a.state /\ u.base = a.base /\ u.build = a.build
    <2> HIDE DEF a
    <2>1. u = [a EXCEPT !.rows = Append(@, id)]
      BY DEF Inserted, a
    <2>2. "rows" \in DOMAIN a /\ "due" \in DOMAIN a /\ "state" \in DOMAIN a /\ "base" \in DOMAIN a
          /\ "build" \in DOMAIN a
      BY <1>1 DEF TrackerKind
    <2> HIDE DEF u
    <2> QED  BY <2>1, <2>2
  <1>3. TrackerKind(u)
    <2>1. u = Inserted(t, id)
      OBVIOUS
    <2> HIDE DEF u
    <2>2. Follows(u, t, id)
      BY <2>1, InsertedKind
    <2> QED  BY <2>2 DEF Follows
  <1> HIDE DEF u, a
  <1>4. TrackerKind(a)
    BY <1>1, <1>2, <1>3 DEF TrackerKind
  <1> QED  BY <1>2, <1>4 DEF u, a

LEMMA Pair ==
  ASSUME NEW i \in Nat, NEW j \in Nat
  PROVE  Append(<<i>>, j) = <<i, j>>
  <1>1. <<i>> \in Seq(Nat) /\ <<i, j>> \in Seq(Nat) /\ Len(<<i>>) = 1 /\ Len(<<i, j>>) = 2
    OBVIOUS
  <1>2. /\ Append(<<i>>, j) \in Seq(Nat) /\ Len(Append(<<i>>, j)) = 2
        /\ Append(<<i>>, j)[1] = i /\ Append(<<i>>, j)[2] = j
    BY <1>1, AppendProperties
  <1>3. \A k \in 1..2 : Append(<<i>>, j)[k] = <<i, j>>[k]
    <2>1. \A k \in 1..2 : k = 1 \/ k = 2
      OBVIOUS
    <2> QED  BY <2>1, <1>2
  <1> QED  BY <1>1, <1>2, <1>3, SeqEqual

(* A unit of work: the rows and the snapshot are those of a transaction that  *)
(* folded the log, inserted one row or two, and committed.                    *)
LEMMA SqliteExecuteOK ==
  ASSUME IInv, NEW b \in Build, NEW n \in {1, 2}, SqliteExecute(b, n)
  PROVE  IInv'
  <1> DEFINE t == SqliteFoldStream(b)
             i == fresh + 1
             j == fresh + 2
             one == AfterAppend(t, i)
             two == AfterAppend(one, j)
             x == Inserted(t, i)
             y == Inserted(x, j)
             u == IF n = 1 THEN x ELSE y
  <1>1. /\ tier = "sqlite" /\ fresh' = fresh + n
        /\ log' = IF n = 1 THEN Append(log, i) ELSE log \o <<i, j>>
        /\ snap' = Upsert(snap, IF n = 1 THEN one.due ELSE two.due)
        /\ UNCHANGED <<tier, tx, memo, handling, wanted, drops, restores>>
    BY DEF SqliteExecute, SqliteAppend
  <1>2. log \in Seq(Nat) /\ fresh \in Nat /\ i \in Nat /\ j \in Nat /\ snap \in Row
        /\ Genuine(snap, log) /\ snap.anchor \in Nat /\ snap.anchor <= fresh
    BY DEF IInv, Kinds, Later, Row
  <1>3. /\ TrackerKind(t) /\ t.rows = <<>> /\ Exact(t, log) /\ DueExact(t)
        /\ Len(t.state) = Len(log)
    <2>1. t = SqliteFoldStream(b)
      OBVIOUS
    <2> HIDE DEF t
    <2> QED  BY <2>1, SqliteFold
  <1>4. i = fresh + 1 /\ j = fresh + 2 /\ i > fresh /\ j > fresh
    BY <1>2
  <1> HIDE DEF t, i, j
  <1>5. /\ TrackerKind(one) /\ x.due = one.due /\ x.state = one.state
        /\ x.base = one.base /\ x.build = one.build
    BY <1>2, <1>3, InsertedDue
  <1>6. /\ Follows(x, t, i) /\ Exact(x, log) /\ DueExact(x)
    <2>1. x = Inserted(t, i) /\ Len(t.state) >= Len(log)
      BY <1>2, <1>3
    <2> HIDE DEF x
    <2>2. Follows(x, t, i)
      BY <2>1, <1>2, <1>3, InsertedKind
    <2>3. Exact(x, log) /\ DueExact(x)
      BY <2>1, <1>2, <1>3, InsertedOK
    <2> QED  BY <2>2, <2>3
  <1> HIDE DEF one, x
  <1>7. TrackerKind(x) /\ x.rows = Append(t.rows, i) /\ x.state = Append(t.state, <<i, t.build>>)
    BY <1>6 DEF Follows
  <1>8. x.rows = <<i>> /\ Len(x.state) >= Len(log)
    <2>1. t.state \in Seq(Cell) /\ <<i, t.build>> \in Cell
      BY <1>2, <1>3 DEF TrackerKind, Cell
    <2>2. Len(x.state) = Len(t.state) + 1
      BY <2>1, <1>7
    <2> QED  BY <2>2, <1>2, <1>3, <1>7
  <1>9. y.due = two.due
    <2>1. y.due = AfterAppend(x, j).due
      BY <1>2, <1>7, InsertedDue
    <2> QED  BY <2>1, <1>5, <1>7, SameDue
  <1>10. /\ Follows(y, x, j) /\ Exact(y, log) /\ DueExact(y)
    <2>1. y = Inserted(x, j)
      OBVIOUS
    <2> HIDE DEF y
    <2>2. Follows(y, x, j)
      BY <2>1, <1>2, <1>7, InsertedKind
    <2>3. Exact(y, log) /\ DueExact(y)
      BY <2>1, <1>2, <1>6, <1>7, <1>8, InsertedOK
    <2> QED  BY <2>2, <2>3
  <1> HIDE DEF two, y
  <1>11. TrackerKind(y) /\ y.rows = <<i, j>>
    <2>1. TrackerKind(y) /\ y.rows = Append(x.rows, j)
      BY <1>10 DEF Follows
    <2>2. Append(<<i>>, j) = <<i, j>>
      BY <1>2, Pair
    <2> QED  BY <2>1, <2>2, <1>8
  <1>12. /\ TrackerKind(u) /\ Exact(u, log) /\ DueExact(u)
         /\ \A k \in DOMAIN u.rows : u.rows[k] \in {i, j} /\ u.rows[k] <= fresh'
         /\ log' = log \o u.rows /\ snap' = Upsert(snap, u.due)
    <2>1. CASE n = 1
      <3>1. u = x /\ fresh' = i
        BY <2>1, <1>1, <1>4
      <3>2. log' = log \o <<i>>
        BY <2>1, <1>1, <1>2
      <3> HIDE DEF u
      <3> QED  BY <2>1, <3>1, <3>2, <1>1, <1>2, <1>5, <1>6, <1>7, <1>8
    <2>2. CASE n = 2
      <3>1. u = y /\ fresh' = j /\ i <= j
        BY <2>2, <1>1, <1>2, <1>4
      <3> HIDE DEF u
      <3>2. log' = log \o u.rows /\ snap' = Upsert(snap, u.due)
        BY <2>2, <3>1, <1>1, <1>9, <1>11
      <3>3. \A k \in DOMAIN <<i, j>> : <<i, j>>[k] \in {i, j}
        OBVIOUS
      <3>4. \A k \in DOMAIN u.rows : u.rows[k] \in {i, j}
        BY <3>1, <3>3, <1>11
      <3>5. \A k \in {i, j} : k <= fresh'
        BY <3>1, <1>2
      <3> QED  BY <3>1, <3>2, <3>4, <3>5, <1>10, <1>11
    <2> QED  BY <2>1, <2>2
  <1> HIDE DEF u
  <1>13. Committed(u, log, snap, log', snap')
    <2>1. \A k \in DOMAIN u.rows : snap.anchor < u.rows[k]
      <3>1. snap.anchor < i /\ snap.anchor < j
        BY <1>2, <1>4
      <3> QED  BY <3>1, <1>12
    <2> QED  BY <2>1, <1>2, <1>12, CommitOK
  <1>14. /\ log' \in Seq(Nat) /\ snap' \in Row /\ Genuine(snap', log')
         /\ \A k \in DOMAIN log : k \in DOMAIN log' /\ log'[k] = log[k]
         /\ Len(log') = Len(log) + Len(u.rows)
         /\ snap' = snap \/ (snap' = u.due /\ snap' # NoSnap)
         /\ snap' = u.due /\ snap' # NoSnap =>
              /\ snap'.seq \in DOMAIN log' /\ log'[snap'.seq] = snap'.anchor
              /\ \E k \in DOMAIN u.rows : snap'.anchor = u.rows[k]
    BY <1>13 DEF Committed
  <1>15. fresh' \in Nat /\ fresh' >= fresh
    BY <1>1, <1>2
  <1>16. snap'.anchor <= fresh'
    BY <1>2, <1>12, <1>14, <1>15
  <1>17. Len(log) <= Len(log')
    <2> DEFINE k == Len(log)
               r == Len(u.rows)
    <2>1. k \in Nat /\ r \in Nat /\ Len(log') = k + r
      BY <1>2, <1>12, <1>14 DEF TrackerKind
    <2> HIDE DEF k, r
    <2>2. k <= k + r
      BY <2>1
    <2> QED  BY <2>1, <2>2 DEF k
  <1>18. Memos'
    BY <1>1, <1>14, <1>17, MemosGrow DEF IInv
  <1>19. NeverOrphaned'
    <2> SUFFICES ASSUME restores = 0, snap' # NoSnap
                 PROVE  snap'.seq <= Len(log') /\ log'[snap'.seq] = snap'.anchor
      BY <1>1 DEF NeverOrphaned
    <2>1. CASE snap' = u.due
      BY <2>1, <1>14
    <2>2. CASE snap' = snap
      <3>1. snap.seq <= Len(log) /\ log[snap.seq] = snap.anchor /\ snap.seq >= 1 /\ snap.seq \in Nat
        BY <2>2, <1>2 DEF IInv, NeverOrphaned, Genuine, Row
      <3>2. snap.seq \in DOMAIN log
        BY <3>1, <1>2
      <3>3. snap.seq \in DOMAIN log' /\ log'[snap.seq] = log[snap.seq]
        BY <3>2, <1>14
      <3> QED  BY <2>2, <3>1, <3>3, <1>14
    <2> QED  BY <2>1, <2>2, <1>14
  <1>20. /\ memo' \in [Handler -> Seq(Cell)] /\ wanted' \in [Handler -> Nat]
         /\ handling' \in [Handler -> {"idle", "decided", "numbered"}]
    BY <1>1 DEF IInv, Kinds
  <1> QED  BY <1>1, <1>14, <1>15, <1>16, <1>18, <1>19, <1>20, SqliteStep

-----------------------------------------------------------------------------
(* The legacy handler *)

(* A step of a handler that appends nothing.                                  *)
LEMMA HandlerStep ==
  ASSUME IInv, tier = "sqlite", NEW h \in Handler,
         memo'[h] \in Seq(Cell), memo' = [memo EXCEPT ![h] = memo'[h]],
         handling'[h] \in {"idle", "decided", "numbered"},
         handling' = [handling EXCEPT ![h] = handling'[h]],
         wanted'[h] \in Nat, wanted' = [wanted EXCEPT ![h] = wanted'[h]],
         UNCHANGED <<tier, log, snap, fresh, tx, drops, restores>>,
         Len(memo'[h]) <= Len(log), \A i \in DOMAIN memo'[h] : memo'[h][i] = <<log[i], 0>>,
         handling'[h] = "numbered" => wanted'[h] <= Len(log) + 1
  PROVE  IInv'
  <1>1. /\ memo \in [Handler -> Seq(Cell)] /\ wanted \in [Handler -> Nat]
        /\ handling \in [Handler -> {"idle", "decided", "numbered"}]
    BY DEF IInv, Kinds
  <1>2. /\ memo' \in [Handler -> Seq(Cell)] /\ wanted' \in [Handler -> Nat]
        /\ handling' \in [Handler -> {"idle", "decided", "numbered"}]
    BY <1>1
  <1>3. \A g \in Handler \ {h} : /\ memo'[g] = memo[g] /\ handling'[g] = handling[g]
                                 /\ wanted'[g] = wanted[g]
    BY <1>1
  <1>4. Memos'
    <2> SUFFICES ASSUME NEW g \in Handler PROVE MemoOK(g)'
      BY DEF Memos
    <2>1. CASE g = h
      BY <2>1, <1>3 DEF MemoOK
    <2>2. CASE g # h
      <3>1. MemoOK(g)
        BY DEF IInv, Memos
      <3> QED  BY <2>2, <3>1, <1>3 DEF MemoOK
    <2> QED  BY <2>1, <2>2
  <1>5. /\ log \in Seq(Nat) /\ snap \in Row /\ Genuine(snap, log) /\ fresh \in Nat
        /\ snap.anchor <= fresh
    BY DEF IInv, Kinds, Later
  <1>6. NeverOrphaned'
    BY DEF IInv, NeverOrphaned
  <1>7. /\ log' \in Seq(Nat) /\ snap' \in Row /\ Genuine(snap', log') /\ fresh' \in Nat
        /\ fresh' >= fresh /\ snap'.anchor <= fresh'
    BY <1>5
  <1> QED  BY <1>2, <1>4, <1>6, <1>7, SqliteStep

LEMMA CatchUpOK ==
  ASSUME IInv, NEW h \in Handler, CatchUp(h)
  PROVE  IInv'
  <1> DEFINE a == memo[h]
             m == a \o FoldBy(0, SubSeq(log, Len(a) + 1, Len(log)))
  <1>1. /\ tier = "sqlite" /\ memo' = [memo EXCEPT ![h] = m]
        /\ handling' \in {handling, [handling EXCEPT ![h] = "decided"]}
        /\ UNCHANGED <<tier, log, snap, fresh, tx, wanted, drops, restores>>
    BY DEF CatchUp, From, IInv, Kinds
  <1>2. /\ memo \in [Handler -> Seq(Cell)] /\ wanted \in [Handler -> Nat] /\ log \in Seq(Nat)
        /\ handling \in [Handler -> {"idle", "decided", "numbered"}] /\ MemoOK(h)
    BY DEF IInv, Kinds, Memos
  <1>3. a \in Seq(Cell) /\ Len(a) <= Len(log) /\ \A i \in 1..Len(a) : a[i] = <<log[i], 0>>
    BY <1>2 DEF MemoOK
  <1>4. 0 \in Stamp
    BY DEF Stamp
  <1> HIDE DEF a
  <1>5. m \in Seq(Cell) /\ Len(m) = Len(log) /\ \A i \in 1..Len(log) : m[i] = <<log[i], 0>>
    BY <1>2, <1>3, <1>4, Extend
  <1> HIDE DEF m
  <1>6. DOMAIN m = 1..Len(log) /\ Len(log) <= Len(log)
    BY <1>2, <1>5
  <1>7. memo'[h] = m /\ memo' = [memo EXCEPT ![h] = memo'[h]]
    BY <1>1, <1>2
  <1>8. /\ handling'[h] \in {"idle", "decided", "numbered"}
        /\ handling' = [handling EXCEPT ![h] = handling'[h]]
        /\ wanted' = [wanted EXCEPT ![h] = wanted'[h]] /\ wanted'[h] \in Nat
        /\ handling'[h] = "numbered" => wanted'[h] <= Len(log) + 1
    BY <1>1, <1>2 DEF MemoOK
  <1>9. Len(memo'[h]) <= Len(log) /\ \A i \in DOMAIN memo'[h] : memo'[h][i] = <<log[i], 0>>
    BY <1>5, <1>6, <1>7
  <1> QED  BY <1>1, <1>5, <1>7, <1>8, <1>9, HandlerStep

(* Its memo, for the steps that leave it alone.                               *)
LEMMA MemoKept ==
  ASSUME IInv, NEW h \in Handler
  PROVE  /\ memo[h] \in Seq(Cell) /\ memo = [memo EXCEPT ![h] = memo[h]]
         /\ wanted[h] \in Nat /\ wanted = [wanted EXCEPT ![h] = wanted[h]]
         /\ Len(memo[h]) <= Len(log) /\ \A i \in DOMAIN memo[h] : memo[h][i] = <<log[i], 0>>
         /\ handling[h] # "idle" => tier = "sqlite"
         /\ log \in Seq(Nat) /\ Len(log) + 1 \in Nat
  <1>1. /\ memo \in [Handler -> Seq(Cell)] /\ wanted \in [Handler -> Nat] /\ MemoOK(h)
        /\ log \in Seq(Nat)
    BY DEF IInv, Kinds, Memos
  <1>2. Len(log) + 1 \in Nat
    BY <1>1
  <1> QED  BY <1>1, <1>2 DEF MemoOK

LEMMA DepositOK ==
  ASSUME IInv, NEW h \in Handler, Deposit(h)
  PROVE  IInv'
  <1>1. /\ tier = "sqlite" /\ handling' = [handling EXCEPT ![h] = "decided"]
        /\ memo' = memo /\ wanted' = wanted
        /\ UNCHANGED <<tier, log, snap, fresh, tx, drops, restores>>
    BY DEF Deposit
  <1>2. handling'[h] = "decided"
    BY <1>1 DEF IInv, Kinds
  <1> QED  BY <1>1, <1>2, MemoKept, HandlerStep

LEMMA SelectMaxSeqOK ==
  ASSUME IInv, NEW h \in Handler, SelectMaxSeq(h)
  PROVE  IInv'
  <1>1. /\ handling[h] = "decided" /\ handling' = [handling EXCEPT ![h] = "numbered"]
        /\ memo' = memo /\ wanted' = [wanted EXCEPT ![h] = Len(log) + 1]
        /\ UNCHANGED <<tier, log, snap, fresh, tx, drops, restores>>
    BY DEF SelectMaxSeq
  <1>2. handling'[h] = "numbered" /\ wanted'[h] = Len(log) + 1
    BY <1>1 DEF IInv, Kinds
  <1>3. Len(log) + 1 \in Nat /\ Len(log) + 1 <= Len(log) + 1
    BY MemoKept
  <1> QED  BY <1>1, <1>2, <1>3, MemoKept, HandlerStep

(* The row has the seq the handler wanted, since no other is free; the memo   *)
(* takes it only if it had folded all that came before.                       *)
LEMMA LegacyAppendOK ==
  ASSUME IInv, NEW h \in Handler, LegacyAppend(h)
  PROVE  IInv'
  <1> DEFINE a == memo[h]
             n == Len(log)
             l == Append(log, fresh + 1)
             m == RecordAppend(a, fresh + 1, wanted[h])
  <1>1. /\ handling[h] = "numbered" /\ handling' = [handling EXCEPT ![h] = "idle"]
        /\ wanted' = [wanted EXCEPT ![h] = 0] /\ UNCHANGED <<tier, snap, tx, drops, restores>>
    BY DEF LegacyAppend
  <1>2. /\ tier = "sqlite" /\ a \in Seq(Cell) /\ memo = [memo EXCEPT ![h] = a] /\ Len(a) <= n
        /\ \A i \in DOMAIN a : a[i] = <<log[i], 0>>
        /\ log \in Seq(Nat) /\ n \in Nat
    BY <1>1, MemoKept
  <1>dom. DOMAIN a = 1..Len(a) /\ Len(a) \in Nat
    BY <1>2
  <1>3. /\ memo \in [Handler -> Seq(Cell)] /\ wanted \in [Handler -> Nat] /\ fresh \in Nat
        /\ handling \in [Handler -> {"idle", "decided", "numbered"}] /\ snap \in Row
        /\ Genuine(snap, log) /\ snap.anchor <= fresh /\ snap.anchor \in Nat /\ snap.seq \in Nat
    BY DEF IInv, Kinds, Later, Row
  <1>4. CASE wanted[h] <= Len(log) /\ UNCHANGED <<fresh, log, memo>>
    <2>1. memo'[h] = a /\ memo' = [memo EXCEPT ![h] = a] /\ handling'[h] = "idle" /\ wanted'[h] = 0
      BY <1>1, <1>2, <1>3, <1>4
    <2> HIDE DEF a
    <2>2. /\ memo'[h] \in Seq(Cell) /\ memo' = [memo EXCEPT ![h] = memo'[h]]
          /\ handling' = [handling EXCEPT ![h] = handling'[h]]
          /\ wanted' = [wanted EXCEPT ![h] = wanted'[h]]
          /\ Len(memo'[h]) <= Len(log) /\ \A i \in DOMAIN memo'[h] : memo'[h][i] = <<log[i], 0>>
      BY <1>1, <1>2, <2>1
    <2>3. UNCHANGED <<tier, log, snap, fresh, tx, drops, restores>>
      BY <1>1, <1>4
    <2>4. /\ handling'[h] \in {"idle", "decided", "numbered"} /\ wanted'[h] \in Nat
          /\ handling'[h] = "numbered" => wanted'[h] <= Len(log) + 1
      BY <2>1
    <2> HIDE DEF n
    <2>5. tier = "sqlite"
      BY <1>2
    <2> QED  BY <2>2, <2>3, <2>4, <2>5, HandlerStep
  <1>5. CASE wanted[h] > Len(log) /\ fresh' = fresh + 1 /\ log' = l /\ memo' = [memo EXCEPT ![h] = m]
    <2>1. wanted[h] = n + 1
      BY <1>1, <1>2, <1>3, <1>5 DEF IInv, Memos, MemoOK
    <2>2. /\ l \in Seq(Nat) /\ Len(l) = n + 1 /\ l[n + 1] = fresh + 1
          /\ \A i \in 1..n : l[i] = log[i]
      BY <1>2, <1>3, AppendProperties
    <2> HIDE DEF l
    <2>3. m \in Seq(Cell) /\ Len(m) <= n + 1 /\ \A i \in 1..Len(m) : m[i] = <<l[i], 0>>
      <3>1. CASE Len(a) = n
        <4>1. m = Append(a, <<fresh + 1, 0>>)
          BY <2>1, <3>1 DEF RecordAppend
        <4>2. <<fresh + 1, 0>> \in Cell
          BY <1>3 DEF Cell, Stamp
        <4>3. /\ m \in Seq(Cell) /\ Len(m) = n + 1 /\ m[n + 1] = <<fresh + 1, 0>>
              /\ \A i \in 1..n : m[i] = a[i]
          <5>1. /\ Append(a, <<fresh + 1, 0>>) \in Seq(Cell)
                /\ Len(Append(a, <<fresh + 1, 0>>)) = Len(a) + 1
                /\ Append(a, <<fresh + 1, 0>>)[Len(a) + 1] = <<fresh + 1, 0>>
                /\ \A i \in 1..Len(a) : Append(a, <<fresh + 1, 0>>)[i] = a[i]
            <6> HIDE DEF a
            <6> QED  BY <4>2, <1>2, AppendProperties
          <5> HIDE DEF n, m
          <5> QED  BY <5>1, <4>1, <3>1
        <4> HIDE DEF m, n
        <4>4. \A i \in 1..(n + 1) : i = n + 1 \/ i \in 1..n
          BY <1>2
        <4>5. \A i \in 1..n : a[i] = <<log[i], 0>>
          BY <1>2, <3>1
        <4>6. ASSUME NEW i \in 1..(n + 1) PROVE m[i] = <<l[i], 0>>
          <5>1. CASE i = n + 1
            BY <5>1, <4>3, <2>2
          <5>2. CASE i \in 1..n
            BY <5>2, <4>3, <4>5, <2>2
          <5> QED  BY <5>1, <5>2, <4>4
        <4> QED  BY <4>3, <4>6, <1>2
      <3>2. CASE Len(a) # n
        <4>1. m = a
          BY <1>2, <2>1, <3>2 DEF RecordAppend
        <4>2. \A i \in 1..Len(a) : i \in 1..n
          BY <1>2
        <4>3. \A i \in 1..Len(a) : a[i] = <<l[i], 0>>
          <5> HIDE DEF a, n
          <5> QED  BY <1>2, <1>dom, <4>2, <2>2
        <4>4. Len(a) <= n + 1
          BY <1>2
        <4> QED  BY <4>1, <4>3, <4>4, <1>2
      <3> QED  BY <3>1, <3>2
    <2> HIDE DEF m
    <2>4. Genuine(snap, l)
      <3>1. DOMAIN l = 1..(n + 1) /\ DOMAIN log = 1..n
        BY <1>2, <2>2
      <3>2. \A i \in 1..(n + 1) : i = n + 1 \/ i \in 1..n
        BY <1>2
      <3>3. fresh + 1 # snap.anchor /\ n + 1 \notin 1..n
        BY <1>2, <1>3
      <3>4. \A i \in DOMAIN l : IF i \in DOMAIN log THEN l[i] = log[i] ELSE l[i] # snap.anchor
        BY <2>2, <3>1, <3>2, <3>3
      <3> QED  BY <1>2, <1>3, <2>2, <3>4, GenuineGrows
    <2>5. /\ memo' \in [Handler -> Seq(Cell)] /\ wanted' \in [Handler -> Nat]
          /\ handling' \in [Handler -> {"idle", "decided", "numbered"}]
      BY <1>1, <1>3, <1>5, <2>3
    <2>6. Memos'
      <3> SUFFICES ASSUME NEW g \in Handler PROVE MemoOK(g)'
        BY DEF Memos
      <3>1. CASE g = h
        <4>1. memo'[g] = m /\ handling'[g] = "idle"
          BY <3>1, <1>1, <1>3, <1>5
        <4>2. DOMAIN m = 1..Len(m) /\ Len(log') = n + 1
          BY <1>5, <2>2, <2>3
        <4> QED  BY <4>1, <4>2, <1>5, <2>3 DEF MemoOK
      <3>2. CASE g # h
        <4>1. memo'[g] = memo[g] /\ handling'[g] = handling[g] /\ wanted'[g] = wanted[g]
          BY <3>2, <1>1, <1>3, <1>5
        <4>2. /\ Len(memo[g]) <= n /\ \A i \in DOMAIN memo[g] : memo[g][i] = <<log[i], 0>>
              /\ handling[g] # "idle" => tier = "sqlite"
              /\ handling[g] = "numbered" => wanted[g] <= n + 1
              /\ memo[g] \in Seq(Cell) /\ Len(memo[g]) \in Nat /\ wanted[g] \in Nat
          BY <1>3 DEF IInv, Memos, MemoOK
        <4> DEFINE k == Len(memo[g])
        <4>3. DOMAIN memo[g] = 1..k /\ k \in Nat /\ k <= n
          BY <4>2
        <4> HIDE DEF n, k
        <4>4. \A i \in 1..k : i \in 1..n
          BY <4>3, <1>2
        <4>5. k <= n + 1 /\ (handling[g] = "numbered" => wanted[g] <= (n + 1) + 1)
          BY <4>2, <4>3, <1>2
        <4>6. \A i \in DOMAIN memo[g] : memo[g][i] = <<l[i], 0>>
          BY <4>2, <4>3, <4>4, <2>2
        <4>7. Len(log') = n + 1 /\ Len(memo[g]) = k
          BY <1>5, <2>2 DEF k
        <4> QED  BY <4>1, <4>2, <4>5, <4>6, <4>7, <1>1, <1>5 DEF MemoOK
      <3> QED  BY <3>1, <3>2
    <2>7. NeverOrphaned'
      <3> SUFFICES ASSUME restores = 0, snap # NoSnap PROVE snap.seq <= Len(l) /\ l[snap.seq] = snap.anchor
        BY <1>1, <1>5 DEF NeverOrphaned
      <3>1. snap.seq <= n /\ log[snap.seq] = snap.anchor /\ snap.seq >= 1
        BY <1>3 DEF IInv, NeverOrphaned, Genuine
      <3> HIDE DEF n
      <3>2. snap.seq \in 1..n /\ snap.seq <= n + 1
        BY <3>1, <1>2, <1>3
      <3> QED  BY <3>1, <3>2, <2>2
    <2>8. /\ log' \in Seq(Nat) /\ snap' \in Row /\ Genuine(snap', log') /\ fresh' \in Nat
          /\ fresh' >= fresh /\ snap'.anchor <= fresh'
      BY <1>1, <1>3, <1>5, <2>2, <2>4
    <2> QED  BY <1>1, <1>2, <2>5, <2>6, <2>7, <2>8, SqliteStep
  <1> QED  BY <1>4, <1>5 DEF LegacyAppend

-----------------------------------------------------------------------------
(* Operators *)

LEMMA DropOK ==
  ASSUME IInv, Drop
  PROVE  IInv'
  <1>1. /\ snap' = NoSnap /\ drops' = drops + 1 /\ drops \in Nat
        /\ UNCHANGED <<tier, log, fresh, tx, memo, handling, wanted, restores>>
    BY DEF Drop, IInv, Kinds
  <1>2. drops' \in Nat /\ drops' # 0
    BY <1>1
  <1>3. Kinds'
    BY <1>1, <1>2, NoSnapKind DEF IInv, Kinds
  <1>4. Genuine(snap, log)'
    <2>1. log \in Seq(Nat) /\ 0 \notin DOMAIN log
      BY DEF IInv, Kinds
    <2>2. Genuine(NoSnap, log)
      BY <2>1, NoSnapKind DEF Genuine
    <2> QED  BY <1>1, <2>2
  <1>5. Workers'
    <2> SUFFICES ASSUME NEW w \in Worker PROVE Fit(tx[w], tier, log, drops', NoSnap.seq)
      BY <1>1 DEF Workers
    <2> DEFINE t == tx[w]
    <2>1. Fit(t, tier, log, drops, snap.seq)
      BY DEF IInv, Workers
    <2> HIDE DEF t
    <2>2. Fit(t, tier, log, drops', NoSnap.seq)
      BY <2>1, <1>2 DEF Fit, BaseBounded
    <2> QED  BY <2>2 DEF t
  <1>6. Later'
    <2>1. fresh \in Nat /\ snap.anchor \in Nat
      BY DEF IInv, Kinds, Row
    <2>2. \A w \in Worker : \A i \in DOMAIN tx[w].rows : 0 < tx[w].rows[i]
      <3> SUFFICES ASSUME NEW w \in Worker, NEW i \in DOMAIN tx[w].rows PROVE 0 < tx[w].rows[i]
        OBVIOUS
      <3>1. tx[w].rows[i] \in Nat /\ snap.anchor < tx[w].rows[i]
        BY DEF IInv, Kinds, TrackerKind, Later
      <3> QED  BY <2>1, <3>1
    <2> QED  BY <1>1, <2>1, <2>2, NoSnapKind DEF IInv, Later
  <1>7. Sole' /\ Memos'
    BY <1>1 DEF IInv, Sole, Memos, MemoOK
  <1>8. NeverOrphaned' /\ TailBounded'
    BY <1>1, <1>2 DEF NeverOrphaned, TailBounded
  <1> QED  BY <1>3, <1>4, <1>5, <1>6, <1>7, <1>8 DEF IInv

LEMMA RestoreOK ==
  ASSUME IInv, NEW n \in Nat, Restore(n)
  PROVE  IInv'
  <1> DEFINE l == SubSeq(log, 1, n)
             k == Len(log)
  <1>1. /\ n < k /\ restores' = restores + 1 /\ log' = l
        /\ memo' = [h \in Handler |-> <<>>] /\ handling' = [h \in Handler |-> "idle"]
        /\ wanted' = [h \in Handler |-> 0] /\ UNCHANGED <<tier, snap, fresh, tx, drops>>
        /\ \A w \in Worker : tx[w] = Idle
    BY DEF Restore
  <1>2. log \in Seq(Nat) /\ k \in Nat /\ restores \in Nat /\ snap \in Row /\ Genuine(snap, log)
    BY DEF IInv, Kinds
  <1>3. l \in Seq(Nat) /\ Len(l) = n /\ DOMAIN l = 1..n /\ DOMAIN log = 1..k
        /\ \A i \in 1..n : l[i] = log[i]
    BY <1>1, <1>2
  <1> HIDE DEF l, k
  <1>4. \A i \in 1..n : i \in 1..k
    BY <1>1, <1>2
  <1>5. Genuine(snap, l)
    BY <1>2, <1>3, <1>4, GenuineGrows
  <1>6. restores' \in Nat /\ restores' # 0
    BY <1>1, <1>2
  <1>7. Kinds'
    BY <1>1, <1>3, <1>6 DEF IInv, Kinds
  <1>8. Workers'
    <2>1. \A w \in Worker : Fit(Idle, tier, l, drops, snap.seq)
      BY IdleKind DEF Fit
    <2> QED  BY <2>1, <1>1 DEF Workers
  <1>9. Later' /\ Sole'
    BY <1>1 DEF IInv, Later, Sole
  <1>10. Memos'
    <2> SUFFICES ASSUME NEW h \in Handler PROVE MemoOK(h)'
      BY DEF Memos
    <2>1. memo'[h] = <<>> /\ handling'[h] = "idle" /\ Len(<<>>) = 0 /\ DOMAIN <<>> = {}
      BY <1>1
    <2>2. 0 <= Len(log')
      BY <1>1, <1>3
    <2> QED  BY <2>1, <2>2 DEF MemoOK
  <1>11. NeverOrphaned' /\ TailBounded'
    BY <1>6 DEF NeverOrphaned, TailBounded
  <1> QED  BY <1>1, <1>5, <1>7, <1>8, <1>9, <1>10, <1>11 DEF IInv

-----------------------------------------------------------------------------
(* The theorems *)

LEMMA InitOK == Init => IInv
  <1> SUFFICES ASSUME Init PROVE IInv
    OBVIOUS
  <1>1. /\ log = <<>> /\ snap = NoSnap /\ fresh = 0 /\ tx = [w \in Worker |-> Idle]
        /\ memo = [h \in Handler |-> <<>>] /\ handling = [h \in Handler |-> "idle"]
        /\ wanted = [h \in Handler |-> 0] /\ drops = 0 /\ restores = 0
        /\ tier \in {"postgres", "sqlite"}
    BY DEF Init
  <1>2. Kinds
    BY <1>1, NoSnapKind, IdleKind DEF Kinds
  <1>3. Genuine(snap, log)
    BY <1>1, NoSnapKind DEF Genuine
  <1>4. Workers /\ Sole /\ Later
    BY <1>1, NoSnapKind, IdleKind DEF Workers, Fit, Sole, Later
  <1>5. Memos
    BY <1>1 DEF Memos, MemoOK
  <1>6. NeverOrphaned /\ TailBounded
    BY <1>1, NoSnapKind DEF NeverOrphaned, TailBounded
  <1> QED  BY <1>2, <1>3, <1>4, <1>5, <1>6 DEF IInv

LEMMA NextOK ==
  ASSUME IInv, [Next]_vars
  PROVE  IInv'
  <1>1. CASE UNCHANGED vars
    BY <1>1 DEF vars, IInv, Kinds, Workers, Later, Sole, Memos, MemoOK, NeverOrphaned, TailBounded
  <1>2. CASE Next
    <2>1. ASSUME NEW w \in Worker, ReadTail(w) PROVE IInv'
      BY <2>1, ReadTailOK
    <2>2. ASSUME NEW w \in Worker, ReadAll(w) PROVE IInv'
      BY <2>2, ReadAllOK
    <2>3. ASSUME NEW w \in Worker, AppendEvent(w) PROVE IInv'
      BY <2>3, AppendEventOK
    <2>4. ASSUME NEW w \in Worker, Commit(w) PROVE IInv'
      BY <2>4, PgCommitOK
    <2>5. ASSUME NEW w \in Worker, LosesRace(w) PROVE IInv'
      BY <2>5, LosesRaceOK
    <2>6. ASSUME NEW w \in Worker, NEW b \in Build, ReadSnapshot(w, b) PROVE IInv'
      BY <2>6, ReadSnapshotOK
    <2>7. ASSUME NEW b \in Build, NEW n \in {1, 2}, SqliteExecute(b, n) PROVE IInv'
      BY <2>7, SqliteExecuteOK
    <2>8. ASSUME NEW h \in Handler, CatchUp(h) \/ Deposit(h) \/ SelectMaxSeq(h) \/ LegacyAppend(h)
          PROVE  IInv'
      BY <2>8, CatchUpOK, DepositOK, SelectMaxSeqOK, LegacyAppendOK
    <2>9. CASE Drop
      BY <2>9, DropOK
    <2>10. ASSUME NEW n \in 0..(MaxIds - 1), Restore(n) PROVE IInv'
      <3>1. n \in Nat
        BY FoldCachesAssumption
      <3> QED  BY <2>10, <3>1, RestoreOK
    <2> QED  BY <1>2, <2>1, <2>2, <2>3, <2>4, <2>5, <2>6, <2>7, <2>8, <2>9, <2>10 DEF Next
  <1> QED  BY <1>1, <1>2

(* The inductive invariant holds in every state the units of work, the legacy *)
(* handlers and the operators reach.                                          *)
THEOREM Invariance == Spec => []IInv
  <1>1. IInv /\ [Next]_vars => IInv'
    BY NextOK
  <1> QED  BY InitOK, <1>1, PTL DEF Spec

(* A decision on PostgreSQL rests on the exact fold, by its own build, of the *)
(* log as it was at one moment, and of the rows it has inserted since:        *)
(* fold_from_snapshot and the tracker lose nothing and add nothing.           *)
THEOREM DecisionsOnExactFolds == Spec => []FoldsExact
  <1>1. ASSUME IInv, NEW w \in Worker, tx[w].pc = "append"
        PROVE  /\ Len(tx[w].state) - Len(tx[w].rows) <= Len(log)
               /\ tx[w].state = FoldBy(tx[w].build,
                    SubSeq(log, 1, Len(tx[w].state) - Len(tx[w].rows)) \o tx[w].rows)
    <2> DEFINE a == tx[w].state
               r == tx[w].rows
               b == tx[w].build
               n == Len(a)
               m == Len(r)
               k == Len(log)
               p == SubSeq(log, 1, n - m)
               e == p \o r
    <2>1. a \in Seq(Cell) /\ r \in Seq(Nat) /\ log \in Seq(Nat) /\ b \in Stamp
      BY <1>1 DEF IInv, Kinds, TrackerKind
    <2>2. Exact(tx[w], log)
      BY <1>1 DEF IInv, Workers, Fit
    <2>3. n \in Nat /\ m \in Nat /\ k \in Nat /\ DOMAIN r = 1..m
      BY <2>1
    <2>4. /\ n - m \in 0..k
          /\ \A i \in 1..(n - m) : a[i] = <<log[i], b>>
          /\ \A i \in 1..m : a[(n - m) + i] = <<r[i], b>>
      BY <2>2, <2>3 DEF Exact, Read
    <2> HIDE DEF a, r, b
    <2>5. p \in Seq(Nat) /\ Len(p) = n - m /\ \A i \in 1..(n - m) : p[i] = log[i]
      <3> HIDE DEF n, m
      <3> QED  BY <2>1, <2>3, <2>4
    <2> HIDE DEF p
    <2>6. /\ e \in Seq(Nat) /\ Len(e) = Len(p) + Len(r)
          /\ \A i \in 1..Len(p) : e[i] = p[i]
          /\ \A i \in 1..Len(r) : e[Len(p) + i] = r[i]
      BY <2>1, <2>5, Glue
    <2> HIDE DEF e
    <2>7. Len(a) = n /\ Len(r) = m
      OBVIOUS
    <2> HIDE DEF n, m, k
    <2>8. Len(e) = n
      BY <2>3, <2>5, <2>6, <2>7
    <2>9. ASSUME NEW i \in 1..n PROVE a[i] = <<e[i], b>>
      <3>1. CASE i \in 1..(n - m)
        BY <3>1, <2>4, <2>5, <2>6
      <3>2. CASE i \notin 1..(n - m)
        <4> DEFINE j == i - (n - m)
        <4>1. j \in 1..m /\ i = (n - m) + j
          BY <3>2, <2>3, <2>4
        <4> HIDE DEF j
        <4>2. a[i] = <<r[j], b>> /\ e[i] = r[j]
          BY <4>1, <2>4, <2>5, <2>6, <2>7
        <4> QED  BY <4>2
      <3> QED  BY <3>1, <3>2
    <2>10. a = FoldBy(b, e)
      BY <2>1, <2>6, <2>7, <2>8, <2>9, IsFold
    <2>11. n - m <= k
      BY <2>3, <2>4
    <2> QED  BY <2>10, <2>11 DEF e, p, n, m, k, a, r, b
  <1>2. IInv => FoldsExact
    BY <1>1 DEF FoldsExact
  <1> QED  BY <1>2, Invariance, PTL

(* A row of stream_snapshots that a build does not reject is that build's     *)
(* fold of the log up to its seq, restored logs included.                     *)
THEOREM TrustIsSafe == Spec => []TrustedIsExact
  <1>1. ASSUME IInv, NEW b \in Build, snap # NoSnap,
               ~SnapshotRejection(b, snap, From(log, snap.seq))
        PROVE  snap.state = FoldBy(b, SubSeq(log, 1, snap.seq))
    <2> DEFINE n == snap.seq
               k == Len(log)
               p == SubSeq(log, 1, n)
    <2>1. /\ b \in Stamp /\ log \in Seq(Nat) /\ snap \in Row /\ snap.state \in Seq(Cell)
          /\ Genuine(snap, log) /\ n \in Nat /\ k \in Nat
      BY <1>1 DEF IInv, Kinds, Row, Stamp
    <2>2. n \in 1..k /\ Len(snap.state) = n /\ \A i \in 1..n : snap.state[i] = <<log[i], b>>
      BY <1>1, <2>1, TrustedFold
    <2>3. p \in Seq(Nat) /\ Len(p) = n /\ \A i \in 1..n : p[i] = log[i]
      <3> HIDE DEF n
      <3> QED  BY <2>1, <2>2
    <2> HIDE DEF n, k, p
    <2>4. snap.state = FoldBy(b, p)
      BY <2>1, <2>2, <2>3, IsFold
    <2> QED  BY <2>4 DEF p, n
  <1>2. IInv => TrustedIsExact
    BY <1>1 DEF TrustedIsExact
  <1> QED  BY <1>2, Invariance, PTL

(* Until the log is restored, the snapshot's anchor is one of its rows: rows  *)
(* and snapshot commit, or roll back, together.                               *)
THEOREM AnchorInLog == Spec => []NeverOrphaned
  <1>1. IInv => NeverOrphaned
    BY DEF IInv
  <1> QED  BY <1>1, Invariance, PTL

(* Without an operator, fewer than snapshot_every rows follow the snapshot.   *)
THEOREM TailStaysShort == Spec => []TailBounded
  <1>1. IInv => TailBounded
    BY DEF IInv
  <1> QED  BY <1>1, Invariance, PTL

(* The legacy handler's memo is the fold of a prefix of the log, whatever the *)
(* other processes append between its SELECT and its INSERT.                  *)
THEOREM MemosAreFolds == Spec => []MemoExact
  <1>1. ASSUME IInv, NEW h \in Handler
        PROVE  Len(memo[h]) <= Len(log) /\ memo[h] = FoldBy(0, SubSeq(log, 1, Len(memo[h])))
    <2> DEFINE a == memo[h]
               n == Len(a)
               k == Len(log)
               p == SubSeq(log, 1, n)
    <2>1. a \in Seq(Cell) /\ log \in Seq(Nat) /\ n <= k /\ \A i \in DOMAIN a : a[i] = <<log[i], 0>>
      BY <1>1, MemoKept
    <2> HIDE DEF a
    <2>2. n \in Nat /\ k \in Nat /\ DOMAIN a = 1..n /\ Len(a) = n
      BY <2>1
    <2>3. p \in Seq(Nat) /\ Len(p) = n /\ \A i \in 1..n : p[i] = log[i]
      <3> HIDE DEF n
      <3> QED  BY <2>1, <2>2
    <2>4. 0 \in Stamp
      BY DEF Stamp
    <2>5. \A i \in 1..n : a[i] = <<p[i], 0>>
      BY <2>1, <2>2, <2>3
    <2> HIDE DEF n, k, p
    <2>6. a = FoldBy(0, p)
      BY <2>1, <2>2, <2>3, <2>4, <2>5, IsFold
    <2> QED  BY <2>1, <2>6 DEF p, n, k, a
  <1>2. IInv => MemoExact
    BY <1>1 DEF MemoExact
  <1> QED  BY <1>2, Invariance, PTL
=============================================================================
