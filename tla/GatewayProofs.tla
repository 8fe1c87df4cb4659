----------------------------- MODULE GatewayProofs -----------------------------
(***************************************************************************)
(* Proofs about the HTTP tier, for any number of clients, subjects and     *)
(* addresses, any capacities and any delays; and about the breaker that    *)
(* the server's threads share.                                             *)
(***************************************************************************)
EXTENDS Gateway, CircuitBreaker, FiniteSetTheorems, TLAPS

ClientState ==
  [phase : {"reading", "posting", "done", "raised"}, version : Int, call : Nat,
   attempt : Int, waits : BOOLEAN, sleep : Int]

Request ==
  [client : Client, phase : {"reading", "posting"}, call : Nat, attempt : Int,
   id : Client \X Nat \X {0}, expected : Int,
   stage : {"arrived", "admitted", "authorized"}, lag : 0..MaxLag]

Id(c, k) == <<c, k, 0>>

-----------------------------------------------------------------------------
(* The inductive invariant: one intent, one deposit *)

Kinds ==
  /\ log \in Seq(Client)
  /\ backend \in {"memory", "postgres"}
  /\ projected \in Nat
  /\ owner \in Subject \cup {NoOne}
  /\ reqs \subseteq Request
  /\ client \in [Client -> ClientState]

(* A request carries its call's command id, and one that was authorized is   *)
(* entitled for good.                                                        *)
Authorized(r) == SubjectOf[r.client] \in Named \cup {owner}

RequestsOK ==
  \A r \in reqs : r.id = Id(r.client, r.call) /\ (r.stage = "authorized" => Authorized(r))

(* The stored results and the log say the same: a result of 201 names the    *)
(* deposit, and every deposit has one.                                       *)
Deposited(c, k, i) ==
  Id(c, k) \in DOMAIN results /\ results[Id(c, k)].status = 201 /\ results[Id(c, k)].version = i

Book ==
  /\ \A id \in DOMAIN results : results[id].status \in {201, 409} /\ results[id].version \in Int
  /\ \A c \in Client, k \in Nat, i \in Int : Deposited(c, k, i) => i \in DOMAIN log /\ log[i] = c
  /\ \A i \in DOMAIN log : \E k \in Nat : Deposited(log[i], k, i)

(* The k-th call of client c met a version conflict; it was posted at all.   *)
Conflicted(c, k) == Id(c, k) \in DOMAIN results /\ results[Id(c, k)].status = 409

Posted(c, k) ==
  \/ Id(c, k) \in DOMAIN results
  \/ \E r \in reqs : r.phase = "posting" /\ r.id = Id(c, k)

(* Of two calls the earlier one conflicted, requests still on their way      *)
(* included; so a client that posts has only conflicts behind it.            *)
Intent(c) ==
  /\ \A k1, k2 \in Nat : Posted(c, k1) /\ Posted(c, k2) /\ k1 < k2 => Conflicted(c, k1)
  /\ client[c].phase = "reading" => client[c].call = 0 /\ \A k \in Nat : ~Posted(c, k)
  /\ client[c].phase = "posting" =>
       \A k \in Nat : /\ k < client[c].call => Conflicted(c, k)
                      /\ Posted(c, k) => k <= client[c].call
  /\ client[c].phase = "done" =>
       client[c].version \in DOMAIN log /\ log[client[c].version] = c

Intents == \A c \in Client : Intent(c)

-----------------------------------------------------------------------------
(* The inductive invariant: rate limits *)

(* How far a subject's bucket may exceed the ideal one: by what refills      *)
(* between a clock reading and its use; and by one bucketful where retention  *)
(* has deleted a row in use.  A row that retention has selected carries no    *)
(* such excess any more: while it was idle the ideal bucket has refilled.     *)
Slack == IF backend = "memory" THEN MaxLag ELSE 0

Excess(s) == IF backend = "memory" \/ s \in doomed THEN 0 ELSE SubjectCapacity

(* Retention that waits for less than two refills gives no such guarantee.    *)
Bounded == backend = "memory" \/ PruneIdle >= 2 * SubjectCapacity

(* A bucket may be in debt, but never by more than its age.                  *)
BucketType(b, cap, ideally) ==
  /\ ideally \in Int /\ ideally <= cap
  /\ b # NoBucket => b \in [tokens : Int, age : Nat] /\ b.tokens + b.age >= 0

(* It holds no more than the ideal one, the slack and the excess, refills     *)
(* without the cap included.                                                  *)
Covers(ideally, b, cap, slack, excess) ==
  IF b = NoBucket THEN ideally >= cap - excess
  ELSE ideally >= AtMost(cap, b.tokens + b.age - slack - excess)

AddressOK(a) ==
  /\ BucketType(local[a], ClientCapacity, ideal[a])
  /\ Covers(ideal[a], local[a], ClientCapacity, 0, 0)

SubjectOK(s) ==
  /\ BucketType(bucket[s], SubjectCapacity, ideal[s])
  /\ backend = "postgres" => bucket[s].tokens >= 0
  /\ s \in doomed => backend = "postgres"
  /\ Bounded => Covers(ideal[s], bucket[s], SubjectCapacity, Slack, Excess(s))

Buckets ==
  /\ \A a \in Address : AddressOK(a)
  /\ \A s \in Subject : SubjectOK(s)
  /\ local = [a \in Address |-> local[a]]
  /\ bucket = [s \in Subject |-> bucket[s]]
  /\ ideal = [k \in Key |-> ideal[k]]

IInv == Kinds /\ RequestsOK /\ Book /\ Intents /\ OnlyEntitled /\ Buckets

-----------------------------------------------------------------------------
(* Token buckets *)

(* The capacities are positive and the delays bounded.                       *)
LEMMA Bounds ==
  /\ ClientCapacity \in Nat \ {0} /\ SubjectCapacity \in Nat \ {0} /\ PruneIdle \in Nat
  /\ Slack \in Nat /\ Slack <= MaxLag /\ MaxLag \in Nat
  /\ \A s : Excess(s) \in Nat /\ Excess(s) <= SubjectCapacity
  BY GatewayAssumption DEF Slack, Excess

(* A call of try_acquire with a late clock: if it takes a token, the ideal   *)
(* bucket pays one; if not, nothing is lost.                                 *)
Paid(n, t) == IF n >= 1 THEN t - 1 ELSE t

LEMMA AcquireOK ==
  ASSUME NEW cap \in Nat \ {0}, NEW slack \in Nat, NEW excess \in Nat, NEW lag \in Nat,
         NEW b, NEW t, BucketType(b, cap, t)
  PROVE  LET n == Tokens(b, cap, lag)
             c == TryAcquire(b, cap, lag)
         IN  /\ n \in Int
             /\ BucketType(c, cap, Paid(n, t))
             /\ lag <= slack /\ Covers(t, b, cap, slack, excess)
                  => Covers(Paid(n, t), c, cap, slack, excess)
  <1> DEFINE n == Tokens(b, cap, lag)
             m == IF n >= 1 THEN n - 1 ELSE n
             u == Paid(n, t)
             c == TryAcquire(b, cap, lag)
  <1>1. t \in Int /\ t <= cap
    BY DEF BucketType
  <1>2. /\ n \in Int /\ m \in Int /\ u \in Int /\ u <= cap /\ m + lag >= 0
        /\ lag <= slack /\ Covers(t, b, cap, slack, excess)
             => u >= AtMost(cap, m + lag - slack - excess)
    <2>1. CASE b = NoBucket
      <3>1. n = cap /\ m = cap - 1 /\ u = t - 1
        BY <2>1 DEF Tokens, Paid
      <3> HIDE DEF n, m, u
      <3> QED  BY <1>1, <2>1, <3>1 DEF Covers, AtMost
    <2>2. CASE b # NoBucket
      <3> DEFINE x == b.tokens + b.age
      <3>1. x \in Int /\ x >= 0
        BY <2>2 DEF BucketType
      <3>2. n = AtMost(cap, x - lag)
        BY <2>2 DEF Tokens, BucketType
      <3>3. Covers(t, b, cap, slack, excess) => t >= AtMost(cap, x - slack - excess)
        BY <2>2 DEF Covers, BucketType, AtMost
      <3> HIDE DEF x
      <3> QED  BY <1>1, <3>1, <3>2, <3>3 DEF AtMost, Paid
    <2> QED  BY <2>1, <2>2
  <1>3. c = [tokens |-> m, age |-> lag]
    BY DEF TryAcquire
  <1> HIDE DEF n, m, u, c
  <1>4. c \in [tokens : Int, age : Nat] /\ c.tokens = m /\ c.age = lag /\ c # NoBucket
    BY <1>2, <1>3 DEF NoBucket
  <1>5. n \in Int /\ BucketType(c, cap, u)
    BY <1>2, <1>4 DEF BucketType
  <1>6. lag <= slack /\ Covers(t, b, cap, slack, excess) => Covers(u, c, cap, slack, excess)
    BY <1>2, <1>4 DEF Covers
  <1> QED  BY <1>5, <1>6 DEF n, u, c

(* Time refills both buckets.                                                *)
LEMMA OlderOK ==
  ASSUME NEW cap \in Nat \ {0}, NEW slack \in Nat, NEW excess \in Nat, NEW limit \in Nat,
         NEW b, NEW t, BucketType(b, cap, t)
  PROVE  /\ BucketType(Older(b, limit), cap, AtMost(cap, t + 1))
         /\ Older(b, limit).tokens = b.tokens
         /\ Covers(t, b, cap, slack, excess)
              => Covers(AtMost(cap, t + 1), Older(b, limit), cap, slack, excess)
  <1>1. t \in Int /\ t <= cap
    BY DEF BucketType
  <1>2. AtMost(cap, t + 1) \in Int /\ AtMost(cap, t + 1) <= cap /\ AtMost(cap, t + 1) >= t
    BY <1>1 DEF AtMost
  <1>3. CASE b = NoBucket
    BY <1>1, <1>2, <1>3 DEF Older, BucketType, Covers
  <1>4. CASE b # NoBucket /\ b.age = limit
    <2>1. AtMost(cap, b.tokens + b.age - slack - excess) \in Int
      BY <1>4 DEF BucketType, AtMost
    <2> QED  BY <1>1, <1>2, <1>4, <2>1 DEF Older, BucketType, Covers
  <1>5. CASE b # NoBucket /\ b.age # limit
    <2>1. b \in [tokens : Int, age : Nat] /\ b.tokens + b.age >= 0
      BY <1>5 DEF BucketType
    <2>2. Older(b, limit) = [b EXCEPT !.age = b.age + 1]
      BY <1>5 DEF Older
    <2>3. /\ Older(b, limit) \in [tokens : Int, age : Nat]
          /\ Older(b, limit).tokens = b.tokens /\ Older(b, limit).age = b.age + 1
      BY <2>1, <2>2
    <2>4. Older(b, limit) # NoBucket
      BY <2>1, <2>3 DEF NoBucket
    <2>5. t >= AtMost(cap, b.tokens + b.age - slack - excess) =>
            AtMost(cap, t + 1) >= AtMost(cap, b.tokens + (b.age + 1) - slack - excess)
      BY <1>1, <2>1 DEF AtMost
    <2> QED  BY <1>2, <1>5, <2>1, <2>3, <2>4, <2>5 DEF BucketType, Covers
  <1> QED  BY <1>3, <1>4, <1>5

(* The ideal bucket is overdrawn by no more than slack and excess.           *)
LEMMA Overdrawn ==
  ASSUME NEW cap \in Nat \ {0}, NEW slack \in Nat, NEW excess \in Nat, NEW b, NEW t,
         BucketType(b, cap, t), Covers(t, b, cap, slack, excess)
  PROVE  t >= -(slack + excess)
  BY DEF BucketType, Covers, AtMost

(* What the steps of one bucket leave alone.                                 *)
LEMMA OneBucket ==
  ASSUME Buckets, NEW key \in Key, NEW n \in Int,
         IF n >= 1 THEN Spend(key) ELSE UNCHANGED ideal
  PROVE  /\ ideal' = [k \in Key |-> ideal'[k]]
         /\ ideal'[key] = Paid(n, ideal[key])
         /\ \A k \in Key : k # key => ideal'[k] = ideal[k]
  <1>1. ideal = [k \in Key |-> ideal[k]]
    BY DEF Buckets
  <1>2. CASE n >= 1
    BY <1>1, <1>2 DEF Spend, Paid
  <1>3. CASE ~(n >= 1)
    BY <1>1, <1>3 DEF Paid
  <1> QED  BY <1>2, <1>3

(* The middleware's limiter, on the event loop.                              *)
LEMMA ClientLimitBuckets ==
  ASSUME Buckets, NEW a \in Address, UNCHANGED <<bucket, doomed, backend>>,
         local' = [local EXCEPT ![a] = TryAcquire(@, ClientCapacity, 0)],
         IF Tokens(local[a], ClientCapacity, 0) >= 1 THEN Spend(a) ELSE UNCHANGED ideal
  PROVE  Buckets'
  <1> DEFINE n == Tokens(local[a], ClientCapacity, 0)
             c == TryAcquire(local[a], ClientCapacity, 0)
  <1>1. /\ n \in Int /\ BucketType(c, ClientCapacity, Paid(n, ideal[a]))
        /\ Covers(Paid(n, ideal[a]), c, ClientCapacity, 0, 0)
    <2>1. AddressOK(a)
      BY DEF Buckets
    <2>2. 0 \in Nat /\ 0 <= 0 /\ ClientCapacity \in Nat \ {0}
      BY Bounds
    <2> QED  BY <2>1, <2>2, AcquireOK DEF AddressOK
  <1>2. /\ ideal' = [k \in Key |-> ideal'[k]]
        /\ ideal'[a] = Paid(n, ideal[a]) /\ \A k \in Key : k # a => ideal'[k] = ideal[k]
    <2>1. a \in Key
      BY DEF Key
    <2> QED  BY <1>1, <2>1, OneBucket
  <1>3. /\ local' = [x \in Address |-> local'[x]]
        /\ local'[a] = c /\ \A x \in Address : x # a => local'[x] = local[x]
    BY DEF Buckets
  <1> HIDE DEF n, c
  <1>4. ASSUME NEW x \in Address PROVE AddressOK(x)'
    <2>1. CASE x = a
      BY <1>1, <1>2, <1>3, <2>1 DEF AddressOK
    <2>2. CASE x # a
      BY <1>2, <1>3, <2>2 DEF Buckets, AddressOK, Key
    <2> QED  BY <2>1, <2>2
  <1>5. ASSUME NEW s \in Subject PROVE SubjectOK(s)'
    <2>1. ideal'[s] = ideal[s]
      BY <1>2, GatewayAssumption DEF Key
    <2> QED  BY <2>1 DEF Buckets, SubjectOK, Slack, Excess, Bounded
  <1> QED  BY <1>2, <1>3, <1>4, <1>5 DEF Buckets

(* The subject's limiter, in memory with a late clock or in PostgreSQL, where *)
(* retention may have selected the row.                                      *)
LEMMA RateLimitedBuckets ==
  ASSUME Buckets, NEW s \in Subject, NEW lag \in 0..MaxLag, RateLimited(s, lag),
         UNCHANGED <<local, doomed, backend>>
  PROVE  Buckets'
  <1> DEFINE cap == SubjectCapacity
             n == SubjectTokens(s, lag)
             c == TryAcquire(bucket[s], cap, lag)
             u == Paid(n, ideal[s])
  <1>1. cap \in Nat \ {0} /\ Slack \in Nat /\ MaxLag \in Nat /\ Excess(s) \in Nat /\ lag \in Nat
    BY Bounds
  <1>2. SubjectOK(s)
    BY DEF Buckets
  <1>3. lag <= Slack
    BY <1>1 DEF RateLimited, Slack
  <1>4. /\ n \in Int /\ BucketType(c, cap, u)
        /\ Bounded => Covers(u, c, cap, Slack, Excess(s))
    <2>1. BucketType(bucket[s], cap, ideal[s])
      BY <1>2 DEF SubjectOK
    <2>2. Bounded => Covers(ideal[s], bucket[s], cap, Slack, Excess(s))
      BY <1>2 DEF SubjectOK
    <2> QED  BY <1>1, <1>3, <2>1, <2>2, AcquireOK DEF SubjectTokens
  <1>5. /\ bucket' = [x \in Subject |-> bucket'[x]]
        /\ \A x \in Subject : x # s => bucket'[x] = bucket[x]
        /\ \/ backend = "memory" /\ bucket'[s] = c
           \/ backend = "postgres" /\ lag = 0 /\ bucket'[s] = AcquireRow(bucket[s], cap)
    BY DEF Buckets, RateLimited
  <1>6. /\ ideal' = [k \in Key |-> ideal'[k]]
        /\ ideal'[s] = u /\ \A k \in Key : k # s => ideal'[k] = ideal[k]
    <2>1. s \in Key
      BY DEF Key
    <2>2. IF n >= 1 THEN Spend(s) ELSE UNCHANGED ideal
      BY DEF RateLimited
    <2> QED  BY <1>4, <2>1, <2>2, OneBucket
  <1>7. Slack' = Slack /\ Bounded' = Bounded /\ \A x : Excess(x)' = Excess(x)
    BY DEF Slack, Bounded, Excess
  <1>8. backend = "memory" => bucket'[s] = c
    BY <1>5
  <1>9. backend = "postgres" =>
          \/ n >= 1 /\ bucket'[s] = c /\ c.tokens = n - 1
          \/ ~(n >= 1) /\ bucket'[s] = bucket[s] /\ u = ideal[s]
    <2> SUFFICES ASSUME backend = "postgres"
                 PROVE  \/ n >= 1 /\ bucket'[s] = c /\ c.tokens = n - 1
                        \/ ~(n >= 1) /\ bucket'[s] = bucket[s] /\ u = ideal[s]
      OBVIOUS
    <2>1. lag = 0 /\ bucket'[s] = AcquireRow(bucket[s], cap)
      BY <1>5
    <2>2. CASE n >= 1
      BY <2>1, <2>2 DEF AcquireRow, TryAcquire, SubjectTokens
    <2>3. CASE ~(n >= 1)
      BY <2>1, <2>3 DEF AcquireRow, SubjectTokens, Paid
    <2> QED  BY <2>2, <2>3
  <1> HIDE DEF n, u, c
  <1>10. SubjectOK(s)'
    <2>1. BucketType(bucket'[s], cap, ideal'[s])
      BY <1>2, <1>4, <1>5, <1>6, <1>9 DEF SubjectOK
    <2>2. backend = "postgres" => bucket'[s].tokens >= 0
      BY <1>2, <1>4, <1>9 DEF SubjectOK
    <2>3. Bounded => Covers(ideal'[s], bucket'[s], cap, Slack, Excess(s))
      BY <1>2, <1>4, <1>5, <1>6, <1>9 DEF SubjectOK
    <2> QED  BY <1>2, <1>7, <2>1, <2>2, <2>3 DEF SubjectOK
  <1>11. ASSUME NEW x \in Subject PROVE SubjectOK(x)'
    <2>1. CASE x = s
      BY <1>10, <2>1
    <2>2. CASE x # s
      <3>1. bucket'[x] = bucket[x] /\ ideal'[x] = ideal[x] /\ SubjectOK(x)
        BY <1>5, <1>6, <2>2 DEF Buckets, Key
      <3> QED  BY <1>7, <3>1 DEF SubjectOK
    <2> QED  BY <2>1, <2>2
  <1>12. ASSUME NEW a \in Address PROVE AddressOK(a)'
    <2>1. ideal'[a] = ideal[a]
      BY <1>6, GatewayAssumption DEF Key
    <2> QED  BY <2>1 DEF Buckets, AddressOK
  <1> QED  BY <1>5, <1>6, <1>11, <1>12 DEF Buckets

(* Steps that change the buckets or the selection of one subject only.       *)
LEMMA OneSubject ==
  ASSUME Buckets, NEW s \in Subject, UNCHANGED <<local, ideal, backend>>,
         bucket' = [x \in Subject |-> bucket'[x]],
         \A x \in Subject : x # s => bucket'[x] = bucket[x] /\ (x \in doomed' <=> x \in doomed),
         SubjectOK(s)'
  PROVE  Buckets'
  <1>1. ASSUME NEW x \in Subject, x # s PROVE SubjectOK(x)'
    <2>1. SubjectOK(x) /\ bucket'[x] = bucket[x] /\ (x \in doomed' <=> x \in doomed)
      BY <1>1 DEF Buckets
    <2>2. Excess(x)' = Excess(x) /\ Slack' = Slack /\ Bounded' = Bounded
      BY <2>1 DEF Excess, Slack, Bounded
    <2> QED  BY <2>1, <2>2 DEF SubjectOK
  <1>2. ASSUME NEW a \in Address PROVE AddressOK(a)'
    BY DEF Buckets, AddressOK
  <1> QED  BY <1>1, <1>2 DEF Buckets

(* A row that retention selects has been idle for two refills: the first     *)
(* pays back what an earlier deletion gave away, the second fills the bucket. *)
LEMMA PruneSelectBuckets ==
  ASSUME Buckets, NEW s \in Subject, PruneSelect(s)
  PROVE  Buckets'
  <1> DEFINE cap == SubjectCapacity
             b == bucket[s]
             t == ideal[s]
  <1>1. /\ backend = "postgres" /\ b.age > PruneIdle /\ s \notin doomed
        /\ doomed' = doomed \cup {s} /\ UNCHANGED <<local, bucket, ideal, backend>>
    BY DEF PruneSelect
  <1>2. SubjectOK(s)
    BY DEF Buckets
  <1>3. BucketType(b, cap, t) /\ b.tokens >= 0
    BY <1>1, <1>2 DEF SubjectOK
  <1>4. Slack = 0 /\ Slack' = 0 /\ Excess(s) = cap /\ Excess(s)' = 0 /\ Bounded' = Bounded
    BY <1>1 DEF Slack, Excess, Bounded
  <1>5. Bounded => Covers(t, b, cap, 0, 0)
    <2> SUFFICES ASSUME Bounded PROVE Covers(t, b, cap, 0, 0)
      OBVIOUS
    <2>1. PruneIdle >= 2 * cap /\ cap \in Nat \ {0} /\ PruneIdle \in Nat
      BY <1>1, Bounds DEF Bounded
    <2>2. Covers(t, b, cap, 0, cap)
      BY <1>2, <1>4 DEF SubjectOK
    <2>3. b # NoBucket
      BY <1>1, <2>1 DEF NoBucket
    <2>4. b \in [tokens : Int, age : Nat] /\ t \in Int /\ t >= AtMost(cap, b.tokens + b.age - 0 - cap)
      BY <1>3, <2>2, <2>3 DEF BucketType, Covers
    <2>5. t >= cap
      BY <1>1, <1>3, <2>1, <2>4 DEF AtMost
    <2>6. t >= AtMost(cap, b.tokens + b.age - 0 - 0)
      BY <2>1, <2>4, <2>5 DEF AtMost
    <2> QED  BY <2>3, <2>6 DEF Covers
  <1>6. SubjectOK(s)'
    BY <1>1, <1>2, <1>4, <1>5 DEF SubjectOK
  <1>7. bucket' = [x \in Subject |-> bucket'[x]]
    BY <1>1 DEF Buckets
  <1> QED  BY <1>1, <1>6, <1>7, OneSubject

(* Whatever was spent since, deleting the row gives away one bucketful.      *)
LEMMA PruneDeleteBuckets ==
  ASSUME Buckets, NEW s \in Subject, PruneDelete(s)
  PROVE  Buckets'
  <1> DEFINE cap == SubjectCapacity
  <1>1. /\ s \in doomed /\ doomed' = doomed \ {s} /\ UNCHANGED <<local, ideal, backend>>
        /\ bucket' = [bucket EXCEPT ![s] = NoBucket]
    BY DEF PruneDelete
  <1>2. SubjectOK(s)
    BY DEF Buckets
  <1>3. BucketType(bucket[s], cap, ideal[s]) /\ backend = "postgres"
    BY <1>1, <1>2 DEF SubjectOK
  <1>4. Slack = 0 /\ Slack' = 0 /\ Excess(s) = 0 /\ Excess(s)' = cap /\ Bounded' = Bounded
    BY <1>1, <1>3 DEF Slack, Excess, Bounded
  <1>5. /\ bucket' = [x \in Subject |-> bucket'[x]] /\ bucket'[s] = NoBucket
        /\ \A x \in Subject : x # s => bucket'[x] = bucket[x]
    BY <1>1 DEF Buckets
  <1>6. Bounded => Covers(ideal[s], NoBucket, cap, 0, cap)
    <2> SUFFICES ASSUME Bounded PROVE Covers(ideal[s], NoBucket, cap, 0, cap)
      OBVIOUS
    <2>1. Covers(ideal[s], bucket[s], cap, 0, 0)
      BY <1>2, <1>4 DEF SubjectOK
    <2>2. ideal[s] >= -(0 + 0)
      BY <1>3, <2>1, Bounds, Overdrawn
    <2> QED  BY <1>3, <2>2, Bounds DEF Covers, BucketType
  <1>7. SubjectOK(s)'
    <2>1. NoBucket.tokens >= 0
      BY DEF NoBucket
    <2>2. BucketType(NoBucket, cap, ideal[s])
      BY <1>3 DEF BucketType
    <2> QED  BY <1>1, <1>3, <1>4, <1>5, <1>6, <2>1, <2>2 DEF SubjectOK
  <1> QED  BY <1>1, <1>5, <1>7, OneSubject

(* A step that leaves the limiters alone.                                    *)
LEMMA BucketsKept ==
  ASSUME Buckets, UNCHANGED <<backend, local, bucket, doomed, ideal>>
  PROVE  Buckets'
  <1>1. Slack' = Slack /\ Bounded' = Bounded /\ \A s : Excess(s)' = Excess(s)
    BY DEF Slack, Bounded, Excess
  <1> QED  BY <1>1 DEF Buckets, AddressOK, SubjectOK

(* Time passes.                                                              *)
LEMMA TickBuckets ==
  ASSUME Buckets, Tick
  PROVE  Buckets'
  <1>1. /\ local' = [a \in Address |-> Older(local[a], ClientCapacity)]
        /\ bucket' = [s \in Subject |-> Older(bucket[s], AgeLimit)]
        /\ ideal' = [k \in Key |-> AtMost(Capacity(k), ideal[k] + 1)]
        /\ backend' = backend /\ doomed' = doomed
    BY DEF Tick
  <1>2. Slack' = Slack /\ Bounded' = Bounded /\ \A s : Excess(s)' = Excess(s)
    BY <1>1 DEF Slack, Bounded, Excess
  <1>3. ASSUME NEW a \in Address PROVE AddressOK(a)'
    <2>1. ideal'[a] = AtMost(ClientCapacity, ideal[a] + 1)
      BY <1>1 DEF Key, Capacity
    <2>2. BucketType(local[a], ClientCapacity, ideal[a])
          /\ Covers(ideal[a], local[a], ClientCapacity, 0, 0)
      BY DEF Buckets, AddressOK
    <2>3. LET o == Older(local[a], ClientCapacity)
              u == AtMost(ClientCapacity, ideal[a] + 1)
          IN  BucketType(o, ClientCapacity, u) /\ Covers(u, o, ClientCapacity, 0, 0)
      BY <2>2, OlderOK, Bounds
    <2> QED  BY <1>1, <2>1, <2>3 DEF AddressOK
  <1>4. AgeLimit \in Nat
    BY Bounds DEF AgeLimit
  <1>5. ASSUME NEW s \in Subject PROVE SubjectOK(s)'
    <2>1. ideal'[s] = AtMost(SubjectCapacity, ideal[s] + 1)
      BY <1>1, GatewayAssumption DEF Key, Capacity
    <2>2. SubjectOK(s)
      BY DEF Buckets
    <2>3. BucketType(bucket[s], SubjectCapacity, ideal[s])
      BY <2>2 DEF SubjectOK
    <2> DEFINE o == Older(bucket[s], AgeLimit)
               u == AtMost(SubjectCapacity, ideal[s] + 1)
    <2>4. /\ BucketType(o, SubjectCapacity, u) /\ o.tokens = bucket[s].tokens
          /\ Covers(ideal[s], bucket[s], SubjectCapacity, Slack, Excess(s))
               => Covers(u, o, SubjectCapacity, Slack, Excess(s))
      <3>1. SubjectCapacity \in Nat \ {0} /\ Slack \in Nat /\ Excess(s) \in Nat
        BY Bounds
      <3>2. PICK cap \in Nat \ {0}, slack \in Nat, excess \in Nat, limit \in Nat :
              cap = SubjectCapacity /\ slack = Slack /\ excess = Excess(s) /\ limit = AgeLimit
        BY <1>4, <3>1
      <3>3. BucketType(bucket[s], cap, ideal[s])
        BY <2>3, <3>2
      <3> DEFINE b == bucket[s]
                 t == ideal[s]
      <3> HIDE DEF b, t
      <3>4. /\ BucketType(Older(b, limit), cap, AtMost(cap, t + 1))
            /\ Older(b, limit).tokens = b.tokens
            /\ Covers(t, b, cap, slack, excess)
                 => Covers(AtMost(cap, t + 1), Older(b, limit), cap, slack, excess)
        <4>1. BucketType(b, cap, t)
          BY <3>3 DEF b, t
        <4> QED  BY <4>1, OlderOK
      <3> QED  BY <3>2, <3>4 DEF b, t
    <2>5. bucket'[s] = o /\ ideal'[s] = u
      BY <1>1, <2>1
    <2> HIDE DEF o, u
    <2> QED  BY <1>1, <1>2, <2>2, <2>4, <2>5 DEF SubjectOK
  <1> QED  BY <1>1, <1>3, <1>5 DEF Buckets

-----------------------------------------------------------------------------
(* The command service and its answers *)

(* Nothing is taken back: results and deposits stay.                         *)
Grows ==
  /\ \A id \in DOMAIN results : id \in DOMAIN results' /\ results'[id] = results[id]
  /\ \A i \in DOMAIN log : i \in DOMAIN log' /\ log'[i] = log[i]

(* A client's position is sound as long as it posts nothing new.             *)
LEMMA IntentKept ==
  ASSUME NEW c \in Client, Intent(c), Grows,
         \A k \in Nat : Posted(c, k)' => Posted(c, k),
         \/ client'[c].phase = "raised"
         \/ /\ client'[c].phase = client[c].phase
            /\ client'[c].call = client[c].call
            /\ client'[c].version = client[c].version
  PROVE  Intent(c)'
  <1>1. \A k \in Nat : Conflicted(c, k) => Conflicted(c, k)'
    BY DEF Conflicted, Grows
  <1>2. \A k1, k2 \in Nat : Posted(c, k1)' /\ Posted(c, k2)' /\ k1 < k2 => Conflicted(c, k1)'
    BY <1>1 DEF Intent
  <1>3. CASE client'[c].phase = "raised"
    BY <1>2, <1>3 DEF Intent
  <1>4. CASE /\ client'[c].phase = client[c].phase
             /\ client'[c].call = client[c].call
             /\ client'[c].version = client[c].version
    <2>1. client'[c].phase = "reading" => client'[c].call = 0 /\ \A k \in Nat : ~Posted(c, k)'
      BY <1>4 DEF Intent
    <2>2. client'[c].phase = "posting" =>
            \A k \in Nat : /\ k < client'[c].call => Conflicted(c, k)'
                           /\ Posted(c, k)' => k <= client'[c].call
      BY <1>1, <1>4 DEF Intent
    <2>3. client'[c].phase = "done" =>
            client'[c].version \in DOMAIN log' /\ log'[client'[c].version] = c
      BY <1>4 DEF Intent, Grows
    <2> QED  BY <1>2, <2>1, <2>2, <2>3 DEF Intent
  <1> QED  BY <1>3, <1>4

(* One field of a client's state at a time.                                  *)
LEMMA FieldSet ==
  ASSUME NEW k \in ClientState
  PROVE  /\ [k EXCEPT !.waits = FALSE] \in ClientState /\ [k EXCEPT !.waits = TRUE] \in ClientState
         /\ \A x \in {"reading", "posting", "done", "raised"} : [k EXCEPT !.phase = x] \in ClientState
         /\ \A x \in Int : /\ [k EXCEPT !.version = x] \in ClientState
                          /\ [k EXCEPT !.attempt = x] \in ClientState
                          /\ [k EXCEPT !.sleep = x] \in ClientState
         /\ \A x \in Nat : [k EXCEPT !.call = x] \in ClientState
  <1>1. [k EXCEPT !.waits = FALSE] \in ClientState /\ [k EXCEPT !.waits = TRUE] \in ClientState
    BY DEF ClientState
  <1>2. \A x \in {"reading", "posting", "done", "raised"} : [k EXCEPT !.phase = x] \in ClientState
    BY DEF ClientState
  <1>3. \A x \in Int : [k EXCEPT !.version = x] \in ClientState
    BY DEF ClientState
  <1>4. \A x \in Int : [k EXCEPT !.attempt = x] \in ClientState
    BY DEF ClientState
  <1>5. \A x \in Int : [k EXCEPT !.sleep = x] \in ClientState
    BY DEF ClientState
  <1>6. \A x \in Nat : [k EXCEPT !.call = x] \in ClientState
    BY DEF ClientState
  <1> QED  BY <1>1, <1>2, <1>3, <1>4, <1>5, <1>6

(* A call tried again is the same call.                                      *)
LEMMA RetriedOK ==
  ASSUME NEW k \in ClientState, NEW ticks \in Int
  PROVE  /\ Retried(k, ticks) \in ClientState
         /\ \/ Retried(k, ticks).phase = "raised"
            \/ /\ Retried(k, ticks).phase = k.phase
               /\ Retried(k, ticks).call = k.call
               /\ Retried(k, ticks).version = k.version
  <1>1. Raised \in ClientState /\ Raised.phase = "raised"
    BY DEF Raised, ClientState
  <1>2. CASE k.attempt = MaxAttempts
    BY <1>1, <1>2 DEF Retried
  <1>3. CASE k.attempt # MaxAttempts
    <2>1. Retried(k, ticks) = [k EXCEPT !.waits = FALSE, !.attempt = @ + 1, !.sleep = ticks]
      BY <1>3 DEF Retried
    <2> DEFINE a == [k EXCEPT !.waits = FALSE]
               b == [a EXCEPT !.attempt = k.attempt + 1]
    <2>2. a \in ClientState
      BY FieldSet
    <2>2a. k.attempt + 1 \in Int
      BY DEF ClientState
    <2>3. b \in ClientState
      <3> HIDE DEF a
      <3> QED  BY <2>2, <2>2a, FieldSet
    <2>4. [b EXCEPT !.sleep = ticks] \in ClientState
      <3> HIDE DEF b
      <3> QED  BY <2>3, FieldSet
    <2>5. Retried(k, ticks) = [b EXCEPT !.sleep = ticks]
      BY <2>1 DEF ClientState
    <2>6. /\ Retried(k, ticks).phase = k.phase
          /\ Retried(k, ticks).call = k.call
          /\ Retried(k, ticks).version = k.version
      BY <2>1 DEF ClientState
    <2> QED  BY <2>4, <2>5, <2>6
  <1> QED  BY <1>2, <1>3

(* What a client makes of an answer to GET.                                  *)
LEMMA UnderstoodReadOK ==
  ASSUME NEW k \in ClientState, NEW status \in Int, NEW value \in Int
  PROVE  LET n == UnderstoodRead(k, status, value)
         IN  /\ n \in ClientState
             /\ \/ n.phase = "raised"
                \/ n.phase = "posting" /\ n.call = k.call
                \/ n.phase = k.phase /\ n.call = k.call /\ n.version = k.version
  <1> DEFINE n == UnderstoodRead(k, status, value)
  <1>1. CASE status \in {200, 404}
    <2>1. n = [k EXCEPT !.phase = "posting", !.version = value, !.waits = FALSE, !.attempt = 1]
      BY <1>1 DEF UnderstoodRead
    <2> DEFINE a == [k EXCEPT !.phase = "posting"]
               b == [a EXCEPT !.version = value]
               d == [b EXCEPT !.waits = FALSE]
    <2>2. a \in ClientState
      BY FieldSet
    <2>3. b \in ClientState
      <3> HIDE DEF a
      <3> QED  BY <2>2, FieldSet
    <2>4. d \in ClientState
      <3> HIDE DEF b
      <3> QED  BY <2>3, FieldSet
    <2>5. [d EXCEPT !.attempt = 1] \in ClientState
      <3>1. 1 \in Int
        OBVIOUS
      <3> HIDE DEF d
      <3> QED  BY <2>4, <3>1, FieldSet
    <2>6. n = [d EXCEPT !.attempt = 1]
      BY <2>1 DEF ClientState
    <2>7. n.phase = "posting" /\ n.call = k.call
      BY <2>1 DEF ClientState
    <2> QED  BY <2>5, <2>6, <2>7
  <1>2. CASE status = 429
    <2>1. n = Retried(k, value)
      BY <1>2 DEF UnderstoodRead
    <2> QED  BY <2>1, RetriedOK
  <1>3. CASE status \notin {200, 404, 429}
    <2>1. n = Raised
      BY <1>3 DEF UnderstoodRead
    <2> QED  BY <2>1 DEF Raised, ClientState
  <1> QED  BY <1>1, <1>2, <1>3

(* What a client makes of an answer to POST.                                 *)
LEMMA UnderstoodPostOK ==
  ASSUME NEW k \in ClientState, NEW status \in Int, NEW value \in Int
  PROVE  LET n == UnderstoodPost(k, status, value)
         IN  /\ n \in ClientState
             /\ \/ n.phase = "raised"
                \/ status = 201 /\ n.phase = "done" /\ n.version = value
                \/ status = 409 /\ n.phase = k.phase /\ n.call = k.call + 1
                \/ n.phase = k.phase /\ n.call = k.call /\ n.version = k.version
  <1> DEFINE n == UnderstoodPost(k, status, value)
  <1>1. CASE status = 201
    <2>1. n = [Raised EXCEPT !.phase = "done", !.version = value]
      BY <1>1 DEF UnderstoodPost
    <2>2. n = [phase |-> "done", version |-> value, call |-> 0, attempt |-> 1,
               waits |-> FALSE, sleep |-> 0]
      BY <2>1 DEF Raised
    <2>3. n \in ClientState
      BY <2>2 DEF ClientState
    <2>4. n.phase = "done" /\ n.version = value
      BY <2>2
    <2> QED  BY <1>1, <2>3, <2>4
  <1>2. CASE status = 409
    <2>1. n = [k EXCEPT !.waits = FALSE, !.version = value, !.call = @ + 1, !.attempt = 1]
      BY <1>2 DEF UnderstoodPost
    <2> DEFINE a == [k EXCEPT !.waits = FALSE]
               b == [a EXCEPT !.version = value]
               d == [b EXCEPT !.call = k.call + 1]
    <2>2. a \in ClientState
      BY FieldSet
    <2>2a. k.call + 1 \in Nat
      BY DEF ClientState
    <2>3. b \in ClientState
      <3> HIDE DEF a
      <3> QED  BY <2>2, FieldSet
    <2>4. d \in ClientState
      <3> HIDE DEF b
      <3> QED  BY <2>2a, <2>3, FieldSet
    <2>5. [d EXCEPT !.attempt = 1] \in ClientState
      <3>1. 1 \in Int
        OBVIOUS
      <3> HIDE DEF d
      <3> QED  BY <2>4, <3>1, FieldSet
    <2>6. n = [d EXCEPT !.attempt = 1]
      BY <2>1 DEF ClientState
    <2>7. n.phase = k.phase /\ n.call = k.call + 1
      BY <2>1 DEF ClientState
    <2> QED  BY <1>2, <2>5, <2>6, <2>7
  <1>3. CASE status \in {429, 503}
    <2>1. n = Retried(k, value)
      BY <1>3 DEF UnderstoodPost
    <2> QED  BY <2>1, RetriedOK
  <1>4. CASE status \notin {201, 409, 429, 503}
    <2>1. n = Raised
      BY <1>4 DEF UnderstoodPost
    <2> QED  BY <2>1 DEF Raised, ClientState
  <1> QED  BY <1>1, <1>2, <1>3, <1>4

(* A step that executes nothing leaves the books as they are.                *)
LEMMA BookKept ==
  ASSUME Book, UNCHANGED <<log, results>>
  PROVE  Book' /\ Grows
  BY DEF Book, Deposited, Grows

(* Who was entitled stays so: the account's owner does not change.           *)
LEMMA EntitledKept ==
  ASSUME Kinds, RequestsOK, OnlyEntitled, owner = NoOne \/ owner' = owner
  PROVE  /\ \A r \in reqs : Authorized(r) => Authorized(r)'
         /\ \A i \in DOMAIN log : SubjectOf[log[i]] \in Named \cup {owner'}
  <1>1. \A c \in Client : SubjectOf[c] \in Subject /\ SubjectOf[c] # NoOne
    BY GatewayAssumption
  <1>2. \A c \in Client : SubjectOf[c] \in Named \cup {owner} => SubjectOf[c] \in Named \cup {owner'}
    BY <1>1
  <1>3. \A r \in reqs : r.client \in Client
    BY DEF Kinds, Request
  <1>4. \A i \in DOMAIN log : log[i] \in Client
    BY DEF Kinds
  <1> QED  BY <1>2, <1>3, <1>4 DEF Authorized, OnlyEntitled

(* CommandService.execute: one more result at most, and a deposit only       *)
(* together with it.                                                         *)
LEMMA ExecuteOK ==
  ASSUME Kinds, Book, OnlyEntitled, NEW r \in reqs, r.id = Id(r.client, r.call),
         Authorized(r), Execute(r), owner' = owner
  PROVE  /\ Grows /\ Book' /\ OnlyEntitled' /\ log' \in Seq(Client)
         /\ DOMAIN results' = DOMAIN results \cup {r.id}
  <1>1. log \in Seq(Client) /\ r.client \in Client /\ r.call \in Nat /\ Len(log) \in Nat
    BY DEF Kinds, Request
  <1>2. CASE r.id \in DOMAIN results
    <2>1. UNCHANGED <<log, results>>
      BY <1>2 DEF Execute
    <2> QED  BY <1>1, <1>2, <2>1, BookKept DEF OnlyEntitled
  <1>3. CASE r.id \notin DOMAIN results /\ r.expected = Len(log)
    <2>1. /\ log' = Append(log, r.client)
          /\ results' = Stored(r.id, [status |-> 201, version |-> Len(log) + 1])
      BY <1>3 DEF Execute
    <2>2. /\ DOMAIN results' = DOMAIN results \cup {r.id}
          /\ results'[r.id] = [status |-> 201, version |-> Len(log) + 1]
          /\ \A id \in DOMAIN results : results'[id] = results[id]
      BY <1>3, <2>1 DEF Stored
    <2>3. /\ log' \in Seq(Client) /\ DOMAIN log' = DOMAIN log \cup {Len(log) + 1}
          /\ \A i \in DOMAIN log : log'[i] = log[i]
          /\ log'[Len(log) + 1] = r.client
      BY <1>1, <2>1
    <2>4. Grows
      BY <2>2, <2>3 DEF Grows
    <2>5. \A id \in DOMAIN results' : results'[id].status \in {201, 409} /\ results'[id].version \in Int
      BY <1>1, <2>2 DEF Book
    <2>6. \A c \in Client, k \in Nat, i \in Int :
            Deposited(c, k, i)' => i \in DOMAIN log' /\ log'[i] = c
      <3> SUFFICES ASSUME NEW c \in Client, NEW k \in Nat, NEW i \in Int, Deposited(c, k, i)'
                   PROVE  i \in DOMAIN log' /\ log'[i] = c
        OBVIOUS
      <3>1. CASE Id(c, k) = r.id
        <4>1. i = Len(log) + 1
          BY <3>1, <2>2 DEF Deposited
        <4>2. c = r.client
          BY <3>1 DEF Id
        <4> QED  BY <4>1, <4>2, <2>3
      <3>2. CASE Id(c, k) # r.id
        <4>1. Deposited(c, k, i)
          BY <3>2, <2>2 DEF Deposited
        <4> QED  BY <4>1, <2>3 DEF Book
      <3> QED  BY <3>1, <3>2
    <2>7. \A i \in DOMAIN log' : \E k \in Nat : Deposited(log[i], k, i)'
      <3> SUFFICES ASSUME NEW i \in DOMAIN log'
                   PROVE  \E k \in Nat : Deposited(log[i], k, i)'
        OBVIOUS
      <3>1. CASE i \in DOMAIN log
        <4>1. PICK k \in Nat : Deposited(log[i], k, i)
          BY <3>1 DEF Book
        <4>2. Deposited(log[i], k, i)'
          BY <4>1, <3>1, <2>2, <2>3 DEF Deposited
        <4> QED  BY <4>2
      <3>2. CASE i = Len(log) + 1
        <4>1. Deposited(log[i], r.call, i)'
          BY <3>2, <2>2, <2>3 DEF Deposited
        <4> QED  BY <4>1, <1>1
      <3> QED  BY <3>1, <3>2, <2>3
    <2>8. Book'
      BY <2>5, <2>6, <2>7 DEF Book
    <2>9. OnlyEntitled'
      BY <2>3 DEF OnlyEntitled, Authorized
    <2> QED  BY <2>2, <2>3, <2>4, <2>8, <2>9
  <1>4. CASE r.id \notin DOMAIN results /\ r.expected # Len(log)
    <2>1. log' = log /\ results' = Stored(r.id, [status |-> 409, version |-> Len(log)])
      BY <1>4 DEF Execute
    <2>2. /\ DOMAIN results' = DOMAIN results \cup {r.id}
          /\ results'[r.id] = [status |-> 409, version |-> Len(log)]
          /\ \A id \in DOMAIN results : results'[id] = results[id]
      BY <1>4, <2>1 DEF Stored
    <2>3. Grows
      BY <2>1, <2>2 DEF Grows
    <2>4. \A id \in DOMAIN results' : results'[id].status \in {201, 409} /\ results'[id].version \in Int
      BY <1>1, <2>2 DEF Book
    <2>5. \A c \in Client, k \in Nat, i \in Int : Deposited(c, k, i)' <=> Deposited(c, k, i)
      <3> SUFFICES ASSUME NEW c \in Client, NEW k \in Nat, NEW i \in Int
                   PROVE  Deposited(c, k, i)' <=> Deposited(c, k, i)
        OBVIOUS
      <3>1. CASE Id(c, k) = r.id
        BY <3>1, <1>4, <2>2 DEF Deposited
      <3>2. CASE Id(c, k) # r.id
        BY <3>2, <2>2 DEF Deposited
      <3> QED  BY <3>1, <3>2
    <2>6. \A i \in DOMAIN log : log[i] \in Client /\ i \in Int
      BY <1>1
    <2>7. \A c \in Client, k \in Nat, i \in Int :
            Deposited(c, k, i)' => i \in DOMAIN log' /\ log'[i] = c
      BY <2>1, <2>5 DEF Book
    <2>8. \A i \in DOMAIN log' : \E k \in Nat : Deposited(log[i], k, i)'
      <3> SUFFICES ASSUME NEW i \in DOMAIN log
                   PROVE  \E k \in Nat : Deposited(log[i], k, i)'
        BY <2>1
      <3>1. PICK k \in Nat : Deposited(log[i], k, i)
        BY DEF Book
      <3>2. Deposited(log[i], k, i)'
        BY <3>1, <2>5, <2>6, <2>1
      <3> QED  BY <3>2, <2>1
    <2>9. Book' /\ OnlyEntitled'
      BY <2>1, <2>4, <2>7, <2>8 DEF Book, OnlyEntitled
    <2> QED  BY <1>1, <2>1, <2>2, <2>3, <2>9
  <1> QED  BY <1>2, <1>3, <1>4

(* The answer to a request: what the client concludes is true, and it posts  *)
(* a new command only after a conflict.                                      *)
LEMMA AnswerOK ==
  ASSUME Kinds, RequestsOK, Intents, Grows,
         NEW r \in reqs, NEW status \in Int, NEW value \in Int, Answer(r, status, value),
         DOMAIN results' \subseteq DOMAIN results \cup {r.id},
         r.phase = "reading" => DOMAIN results' \subseteq DOMAIN results,
         r.phase = "posting" /\ status = 201 => value \in DOMAIN log' /\ log'[value] = r.client,
         r.phase = "posting" /\ status = 409 => Conflicted(r.client, r.call)'
  PROVE  reqs' \subseteq reqs /\ client' \in [Client -> ClientState] /\ Intents'
  <1> DEFINE d == r.client
             k == client[d]
             live == k.waits /\ <<k.phase, k.call, k.attempt>> = <<r.phase, r.call, r.attempt>>
             next == IF k.phase = "reading" THEN UnderstoodRead(k, status, value)
                     ELSE UnderstoodPost(k, status, value)
  <1>1. /\ d \in Client /\ k \in ClientState /\ r.call \in Nat
        /\ r.phase \in {"reading", "posting"} /\ r.id = Id(d, r.call)
    BY DEF Kinds, Request, RequestsOK
  <1>2. reqs' \subseteq reqs /\ client' = IF live THEN [client EXCEPT ![d] = next] ELSE client
    BY DEF Answer
  <1>3. /\ next \in ClientState
        /\ \/ next.phase = "raised"
           \/ next.phase = k.phase /\ next.call = k.call /\ next.version = k.version
           \/ k.phase = "reading" /\ next.phase = "posting" /\ next.call = k.call
           \/ k.phase # "reading" /\ status = 201 /\ next.phase = "done" /\ next.version = value
           \/ k.phase # "reading" /\ status = 409 /\ next.phase = k.phase /\ next.call = k.call + 1
    <2>1. CASE k.phase = "reading"
      <3>1. next = UnderstoodRead(k, status, value)
        BY <2>1
      <3> HIDE DEF next, k
      <3> QED  BY <1>1, <2>1, <3>1, UnderstoodReadOK
    <2>2. CASE k.phase # "reading"
      <3>1. next = UnderstoodPost(k, status, value)
        BY <2>2
      <3> HIDE DEF next, k
      <3> QED  BY <1>1, <2>2, <3>1, UnderstoodPostOK
    <2> QED  BY <2>1, <2>2
  <1> HIDE DEF next
  <1>4. client \in [Client -> ClientState]
    BY DEF Kinds
  <1>5. /\ client' \in [Client -> ClientState]
        /\ \A c \in Client : c # d => client'[c] = client[c]
        /\ client'[d] = IF live THEN next ELSE k
    BY <1>1, <1>2, <1>3, <1>4
  <1>6. \A c \in Client, j \in Nat : Posted(c, j)' => Posted(c, j)
    <2> SUFFICES ASSUME NEW c \in Client, NEW j \in Nat, Posted(c, j)'
                 PROVE  Posted(c, j)
      OBVIOUS
    <2>1. CASE \E q \in reqs' : q.phase = "posting" /\ q.id = Id(c, j)
      BY <1>2, <2>1 DEF Posted
    <2>2. CASE Id(c, j) \in DOMAIN results'
      BY <1>1, <2>2 DEF Posted
    <2> QED  BY <2>1, <2>2 DEF Posted
  <1>7. ASSUME NEW c \in Client,
               \/ client'[c].phase = "raised"
               \/ /\ client'[c].phase = client[c].phase
                  /\ client'[c].call = client[c].call
                  /\ client'[c].version = client[c].version
        PROVE  Intent(c)'
    <2>1. Intent(c) /\ \A j \in Nat : Posted(c, j)' => Posted(c, j)
      BY <1>6 DEF Intents
    <2> QED  BY <2>1, <1>7, IntentKept
  <1>8. Intent(d)'
    <2>1. CASE ~live
      BY <2>1, <1>1, <1>5, <1>7
    <2>2. CASE live
      <3>1. client'[d] = next /\ k.phase = r.phase /\ k.call = r.call
        BY <2>2, <1>5
      <3>2. Intent(d)
        BY <1>1 DEF Intents
      <3>3. \A j \in Nat : Conflicted(d, j) => Conflicted(d, j)'
        BY DEF Conflicted, Grows
      <3>4. \A k1, k2 \in Nat : Posted(d, k1)' /\ Posted(d, k2)' /\ k1 < k2 => Conflicted(d, k1)'
        BY <1>1, <1>6, <3>2, <3>3 DEF Intent
      <3>5. CASE next.phase = "raised"
        BY <3>1, <3>5, <1>1, <1>7
      <3>6. CASE next.phase = k.phase /\ next.call = k.call /\ next.version = k.version
        BY <3>1, <3>6, <1>1, <1>7
      <3>7. CASE k.phase = "reading" /\ next.phase = "posting" /\ next.call = k.call
        <4>1. k.call = 0 /\ \A j \in Nat : ~Posted(d, j)
          BY <3>2, <3>7 DEF Intent
        <4>2. \A j \in Nat : ~Posted(d, j)'
          BY <4>1, <1>6, <1>1
        <4> HIDE DEF d, k
        <4> QED  BY <3>1, <3>4, <3>7, <4>1, <4>2 DEF Intent
      <3>8. CASE k.phase # "reading" /\ status = 201 /\ next.phase = "done" /\ next.version = value
        <4>1. r.phase = "posting"
          BY <3>1, <3>8, <1>1
        <4>2. value \in DOMAIN log' /\ log'[value] = d
          BY <3>8, <4>1
        <4> HIDE DEF d, k
        <4> QED  BY <3>1, <3>4, <3>8, <4>2 DEF Intent
      <3>9. CASE k.phase # "reading" /\ status = 409 /\ next.phase = k.phase /\ next.call = k.call + 1
        <4>1. k.phase = "posting" /\ r.phase = "posting"
          BY <3>1, <3>9, <1>1
        <4>2. Conflicted(d, r.call)' /\ k.call = r.call
          BY <3>1, <3>9, <4>1
        <4>3. \A j \in Nat : /\ j < k.call => Conflicted(d, j)
                             /\ Posted(d, j) => j <= k.call
          BY <3>2, <4>1 DEF Intent
        <4>4. k.call \in Nat
          BY <3>1, <1>1
        <4>5. \A j \in Nat : /\ j < k.call + 1 => Conflicted(d, j)'
                             /\ Posted(d, j)' => j <= k.call + 1
          <5> HIDE DEF k
          <5> SUFFICES ASSUME NEW j \in Nat
                       PROVE  /\ j < k.call + 1 => Conflicted(d, j)'
                              /\ Posted(d, j)' => j <= k.call + 1
            OBVIOUS
          <5>1. CASE j = r.call
            BY <5>1, <4>2, <4>4
          <5>2. CASE j # r.call
            BY <5>2, <4>2, <4>3, <4>4, <3>3, <1>6, <1>1
          <5> QED  BY <5>1, <5>2
        <4> HIDE DEF d, k
        <4> QED  BY <3>1, <3>4, <3>9, <4>1, <4>5 DEF Intent
      <3> QED  BY <1>3, <3>5, <3>6, <3>7, <3>8, <3>9
    <2> QED  BY <2>1, <2>2
  <1>9. Intents'
    <2> SUFFICES ASSUME NEW c \in Client PROVE Intent(c)'
      BY DEF Intents
    <2>1. CASE c = d
      BY <2>1, <1>8
    <2>2. CASE c # d
      BY <2>2, <1>5, <1>7
    <2> QED  BY <2>1, <2>2
  <1> QED  BY <1>2, <1>5, <1>9

-----------------------------------------------------------------------------
(* The steps of clients and of the server *)

(* What the steps preserve besides the buckets.                              *)
Sound == Kinds /\ RequestsOK /\ Book /\ Intents /\ OnlyEntitled

(* A request moves on to its next stage.                                     *)
LEMMA Moved ==
  ASSUME NEW r \in Request, NEW stage \in {"admitted", "authorized"},
         NEW q, q = [r EXCEPT !.stage = stage, !.lag = 0]
  PROVE  /\ q \in Request /\ q.id = r.id /\ q.client = r.client /\ q.call = r.call
         /\ q.phase = r.phase /\ q.stage = stage
  <1> DEFINE a == [r EXCEPT !.stage = stage]
  <1>1. a \in Request
    BY DEF Request
  <1>2. \A s \in Request : [s EXCEPT !.lag = 0] \in Request
    BY Bounds DEF Request
  <1>3. [a EXCEPT !.lag = 0] \in Request
    BY <1>1, <1>2
  <1>4. q = [a EXCEPT !.lag = 0]
    BY DEF Request
  <1>5. /\ q.id = r.id /\ q.client = r.client /\ q.call = r.call
        /\ q.phase = r.phase /\ q.stage = stage
    BY DEF Request
  <1> QED  BY <1>3, <1>4, <1>5

(* A request is refused, or a balance is read.                               *)
LEMMA RefusedOK ==
  ASSUME Sound, NEW r \in reqs, NEW status \in Int \ {201, 409}, NEW value \in Int,
         Answer(r, status, value), UNCHANGED <<log, results, backend, projected, owner>>
  PROVE  Sound'
  <1>1. Book' /\ Grows
    BY BookKept DEF Sound
  <1>2. reqs' \subseteq reqs /\ client' \in [Client -> ClientState] /\ Intents'
    BY <1>1, AnswerOK DEF Sound
  <1>3. Kinds'
    BY <1>2 DEF Sound, Kinds
  <1>4. RequestsOK' /\ OnlyEntitled'
    BY <1>2 DEF Sound, RequestsOK, Authorized, OnlyEntitled
  <1> QED  BY <1>1, <1>2, <1>3, <1>4 DEF Sound

(* A request passes a limiter, or its authorization.                         *)
LEMMA ProceedOK ==
  ASSUME Sound, NEW r \in reqs, NEW stage \in {"admitted", "authorized"}, Proceed(r, stage),
         stage = "authorized" => Authorized(r),
         UNCHANGED <<log, results, backend, projected, owner, client>>
  PROVE  Sound'
  <1> DEFINE q == [r EXCEPT !.stage = stage, !.lag = 0]
  <1>1. reqs' = (reqs \ {r}) \cup {q}
    BY DEF Proceed
  <1>2. /\ q \in Request /\ q.id = r.id /\ q.client = r.client /\ q.call = r.call
        /\ q.phase = r.phase /\ q.stage = stage
    <2>1. r \in Request
      BY DEF Sound, Kinds
    <2>2. q = [r EXCEPT !.stage = stage, !.lag = 0]
      OBVIOUS
    <2> HIDE DEF q
    <2> QED  BY <2>1, <2>2, Moved
  <1> HIDE DEF q
  <1>3. Kinds'
    BY <1>1, <1>2 DEF Sound, Kinds
  <1>4. RequestsOK' /\ OnlyEntitled'
    BY <1>1, <1>2 DEF Sound, RequestsOK, Authorized, OnlyEntitled
  <1>5. Book' /\ Grows
    BY BookKept DEF Sound
  <1>6. ASSUME NEW c \in Client PROVE Intent(c)'
    <2>1. \A k \in Nat : Posted(c, k)' => Posted(c, k)
      BY <1>1, <1>2 DEF Posted
    <2> QED  BY <2>1, <1>5, IntentKept DEF Sound, Intents
  <1> QED  BY <1>3, <1>4, <1>5, <1>6 DEF Sound, Intents

(* A client sends its call, the first time or again.                         *)
LEMMA SendOK ==
  ASSUME Sound, NEW c \in Client, Send(c)
  PROVE  Sound'
  <1> DEFINE k == client[c]
             q == [client |-> c, phase |-> k.phase, call |-> k.call,
                   attempt |-> k.attempt, id |-> CommandId(c),
                   expected |-> k.version, stage |-> "arrived", lag |-> 0]
  <1>1. /\ k.phase \in {"reading", "posting"} /\ reqs' = reqs \cup {q}
        /\ client' = [client EXCEPT ![c].waits = TRUE]
        /\ UNCHANGED <<log, results, backend, projected, owner>>
    BY DEF Send
  <1>2. /\ client \in [Client -> ClientState] /\ k \in ClientState /\ k.call \in Nat
        /\ k.attempt \in Int /\ k.version \in Int
    BY DEF Sound, Kinds, ClientState
  <1>3. /\ client' \in [Client -> ClientState]
        /\ \A e \in Client : /\ client'[e].phase = client[e].phase
                             /\ client'[e].call = client[e].call
                             /\ client'[e].version = client[e].version
    <2>1. client' = [client EXCEPT ![c] = [k EXCEPT !.waits = TRUE]]
      BY <1>1
    <2>2. [k EXCEPT !.waits = TRUE] \in ClientState
      BY <1>2, FieldSet
    <2>3. client' \in [Client -> ClientState]
      BY <1>2, <2>1, <2>2
    <2>4. ASSUME NEW e \in Client
          PROVE  /\ client'[e].phase = client[e].phase
                 /\ client'[e].call = client[e].call
                 /\ client'[e].version = client[e].version
      <3>1. CASE e # c
        BY <3>1, <2>1, <1>2
      <3>2. CASE e = c
        <4>1. client'[e] = [k EXCEPT !.waits = TRUE]
          BY <3>2, <2>1, <1>2
        <4> QED  BY <4>1, <3>2, <1>2 DEF ClientState
      <3> QED  BY <3>1, <3>2
    <2> QED  BY <2>3, <2>4
  <1>4. q \in Request
    <2>1. CommandId(c) \in Client \X Nat \X {0} /\ 0 \in 0..MaxLag
      BY <1>2, Bounds DEF CommandId
    <2> QED  BY <2>1, <1>1, <1>2 DEF Request
  <1>5. q.id = Id(c, k.call) /\ q.client = c /\ q.call = k.call /\ q.stage = "arrived"
        /\ q.phase = k.phase
    BY DEF CommandId, Id
  <1> HIDE DEF q
  <1>6. Kinds'
    BY <1>1, <1>3, <1>4 DEF Sound, Kinds
  <1>7. RequestsOK' /\ OnlyEntitled'
    BY <1>1, <1>5 DEF Sound, RequestsOK, Authorized, OnlyEntitled
  <1>8. Book' /\ Grows
    BY <1>1, BookKept DEF Sound
  <1>9. ASSUME NEW e \in Client, NEW j \in Nat, Posted(e, j)', ~Posted(e, j)
        PROVE  e = c /\ j = k.call /\ k.phase = "posting"
    BY <1>1, <1>5, <1>9 DEF Posted, Id
  <1>10. ASSUME NEW e \in Client PROVE Intent(e)'
    <2>1. CASE e # c \/ k.phase # "posting"
      <3>1. \A j \in Nat : Posted(e, j)' => Posted(e, j)
        BY <2>1, <1>9
      <3> QED  BY <3>1, <1>3, <1>8, IntentKept DEF Sound, Intents
    <2>2. CASE e = c /\ k.phase = "posting"
      <3>1. /\ \A k1, k2 \in Nat : Posted(e, k1) /\ Posted(e, k2) /\ k1 < k2 => Conflicted(e, k1)
            /\ \A j \in Nat : /\ j < k.call => Conflicted(e, j)
                              /\ Posted(e, j) => j <= k.call
        BY <2>2 DEF Sound, Intents, Intent
      <3>2. \A j \in Nat : Conflicted(e, j) => Conflicted(e, j)'
        BY <1>1 DEF Conflicted
      <3>3. \A j \in Nat : /\ j < k.call => Conflicted(e, j)'
                           /\ Posted(e, j)' => j <= k.call
        BY <3>1, <3>2, <1>9, <1>2
      <3>4. \A k1, k2 \in Nat : Posted(e, k1)' /\ Posted(e, k2)' /\ k1 < k2 => Conflicted(e, k1)'
        <4> SUFFICES ASSUME NEW k1 \in Nat, NEW k2 \in Nat, Posted(e, k2)', k1 < k2
                     PROVE  Conflicted(e, k1)'
          OBVIOUS
        <4>1. k2 <= k.call
          BY <3>3
        <4>2. k1 < k.call
          BY <4>1, <1>2
        <4> QED  BY <4>2, <3>3
      <3>5. client'[e].phase = "posting" /\ client'[e].call = k.call
        BY <2>2, <1>3
      <3> QED  BY <3>3, <3>4, <3>5 DEF Intent
    <2> QED  BY <2>1, <2>2
  <1> QED  BY <1>6, <1>7, <1>8, <1>10 DEF Sound, Intents

(* A connection is lost or times out: nothing moves but the client.          *)
LEMMA TransportErrorOK ==
  ASSUME Sound, NEW c \in Client, TransportError(c)
  PROVE  Sound'
  <1> DEFINE k == client[c]
             n == IF k.phase = "posting" THEN Retried(k, 0) ELSE Raised
  <1>1. client' = [client EXCEPT ![c] = n] /\ UNCHANGED <<log, results, backend, projected, owner, reqs>>
    BY DEF TransportError
  <1>2. client \in [Client -> ClientState] /\ k \in ClientState
    BY DEF Sound, Kinds
  <1>3. /\ n \in ClientState
        /\ \/ n.phase = "raised"
           \/ n.phase = k.phase /\ n.call = k.call /\ n.version = k.version
    <2>1. CASE k.phase = "posting"
      <3>1. n = Retried(k, 0) /\ 0 \in Int
        BY <2>1
      <3> HIDE DEF n, k
      <3> QED  BY <3>1, <1>2, RetriedOK
    <2>2. CASE k.phase # "posting"
      <3>1. n = Raised
        BY <2>2
      <3>2. Raised \in ClientState /\ Raised.phase = "raised"
        BY DEF Raised, ClientState
      <3> HIDE DEF n, k
      <3> QED  BY <3>1, <3>2
    <2> QED  BY <2>1, <2>2
  <1> HIDE DEF n
  <1>4. /\ client' \in [Client -> ClientState] /\ client'[c] = n
        /\ \A e \in Client : e # c => client'[e] = client[e]
    BY <1>1, <1>2, <1>3
  <1>5. Kinds' /\ RequestsOK' /\ OnlyEntitled'
    BY <1>1, <1>4 DEF Sound, Kinds, RequestsOK, Authorized, OnlyEntitled
  <1>6. Book' /\ Grows
    BY <1>1, BookKept DEF Sound
  <1>7. ASSUME NEW e \in Client PROVE Intent(e)'
    <2>1. \A j \in Nat : Posted(e, j)' => Posted(e, j)
      BY <1>1 DEF Posted
    <2>2. \/ client'[e].phase = "raised"
          \/ /\ client'[e].phase = client[e].phase
             /\ client'[e].call = client[e].call
             /\ client'[e].version = client[e].version
      BY <1>3, <1>4
    <2> QED  BY <2>1, <2>2, <1>6, IntentKept DEF Sound, Intents
  <1> QED  BY <1>5, <1>6, <1>7 DEF Sound, Intents

(* A command is executed, or given up with its last attempt committed.       *)
LEMMA ExecutedOK ==
  ASSUME Sound, NEW r \in reqs, r.stage = "authorized", r.phase = "posting",
         NEW status \in Int, NEW value \in Int, Answer(r, status, value),
         Execute(r) \/ UNCHANGED <<log, results>>,
         status = 201 => Deposited(r.client, r.call, value)',
         status = 409 => Conflicted(r.client, r.call)',
         UNCHANGED <<backend, projected, owner>>
  PROVE  Sound'
  <1>1. r.id = Id(r.client, r.call) /\ Authorized(r) /\ r.client \in Client /\ r.call \in Nat
    BY DEF Sound, RequestsOK, Kinds, Request
  <1>2. /\ Grows /\ Book' /\ OnlyEntitled' /\ log' \in Seq(Client)
        /\ DOMAIN results' \subseteq DOMAIN results \cup {r.id}
    <2>1. CASE Execute(r)
      BY <1>1, <2>1, ExecuteOK DEF Sound
    <2>2. CASE UNCHANGED <<log, results>>
      <3>1. Book' /\ Grows
        BY <2>2, BookKept DEF Sound
      <3> QED  BY <2>2, <3>1 DEF Sound, OnlyEntitled, Kinds
    <2> QED  BY <2>1, <2>2
  <1>3. status = 201 => value \in DOMAIN log' /\ log'[value] = r.client
    BY <1>1, <1>2 DEF Book
  <1>4. reqs' \subseteq reqs /\ client' \in [Client -> ClientState] /\ Intents'
    <2>1. r.phase # "reading"
      OBVIOUS
    <2> QED  BY <1>2, <1>3, <2>1, AnswerOK DEF Sound
  <1>5. Kinds' /\ RequestsOK'
    BY <1>2, <1>4 DEF Sound, Kinds, RequestsOK, Authorized
  <1> QED  BY <1>2, <1>4, <1>5 DEF Sound

LEMMA PostCommandOK ==
  ASSUME Sound, NEW r \in reqs, PostCommand(r)
  PROVE  Sound'
  <1> DEFINE status == results'[r.id].status
             value == results'[r.id].version
  <1>1. /\ r.stage = "authorized" /\ r.phase = "posting" /\ Execute(r) /\ Answer(r, status, value)
        /\ UNCHANGED <<backend, projected, owner>>
    BY DEF PostCommand
  <1>2. r.id = Id(r.client, r.call) /\ Authorized(r)
    BY <1>1 DEF Sound, RequestsOK
  <1>3. Book' /\ r.id \in DOMAIN results'
    BY <1>1, <1>2, ExecuteOK DEF Sound
  <1>4. status \in {201, 409} /\ value \in Int
    BY <1>3 DEF Book
  <1>5. status = 201 => Id(r.client, r.call) \in DOMAIN results'
                        /\ results'[Id(r.client, r.call)].status = 201
                        /\ results'[Id(r.client, r.call)].version = value
    BY <1>2, <1>3
  <1>6. status = 409 => Conflicted(r.client, r.call)'
    BY <1>2, <1>3 DEF Conflicted
  <1>7. PICK s \in Int, v \in Int : s = status /\ v = value
    BY <1>4
  <1>8. Answer(r, s, v)
    BY <1>1, <1>7
  <1>9. s = 201 => Deposited(r.client, r.call, v)'
    BY <1>5, <1>7 DEF Deposited
  <1>10. s = 409 => Conflicted(r.client, r.call)'
    BY <1>6, <1>7
  <1> HIDE DEF status, value
  <1> QED  BY <1>1, <1>8, <1>9, <1>10, ExecutedOK

(* One request through the server.                                           *)
LEMMA ServeOK ==
  ASSUME Sound, Buckets, NEW r \in reqs, Serve(r)
  PROVE  Sound' /\ Buckets'
  <1>1. /\ r \in Request /\ r.client \in Client
        /\ AddressOf[r.client] \in Address /\ SubjectOf[r.client] \in Subject
    BY GatewayAssumption DEF Sound, Kinds, Request
  <1>2. CASE ClientLimit(r)
    <2> DEFINE a == AddressOf[r.client]
               n == Tokens(local[a], ClientCapacity, 0)
    <2>1. /\ local' = [local EXCEPT ![a] = TryAcquire(@, ClientCapacity, 0)]
          /\ \/ n >= 1 /\ Spend(a) /\ Proceed(r, "admitted") /\ UNCHANGED client
             \/ n < 1 /\ Answer(r, 429, 1 - n) /\ UNCHANGED ideal
          /\ UNCHANGED <<log, results, backend, projected, owner, bucket, doomed>>
      BY <1>2 DEF ClientLimit
    <2>2. n \in Int
      <3>1. BucketType(local[a], ClientCapacity, ideal[a])
        BY <1>1 DEF Buckets, AddressOK
      <3> QED  BY <3>1, Bounds DEF Tokens, AtMost, BucketType
    <2>3. Buckets'
      <3>1. IF n >= 1 THEN Spend(a) ELSE UNCHANGED ideal
        BY <2>1, <2>2
      <3> QED  BY <1>1, <2>1, <3>1, ClientLimitBuckets
    <2> HIDE DEF a, n
    <2>4. CASE Proceed(r, "admitted") /\ UNCHANGED client
      BY <2>1, <2>3, <2>4, ProceedOK
    <2>5. CASE Answer(r, 429, 1 - n)
      <3>1. PICK v \in Int : v = 1 - n
        BY <2>2
      <3>2. Answer(r, 429, v)
        BY <2>5, <3>1
      <3>3. 429 \in Int \ {201, 409}
        OBVIOUS
      <3> QED  BY <2>1, <2>3, <3>2, <3>3, RefusedOK
    <2> QED  BY <2>1, <2>4, <2>5
  <1>3. CASE Unauthenticated(r)
    <2>1. Answer(r, 401, 0) /\ UNCHANGED <<log, results, backend, projected, owner, local, bucket, doomed, ideal>>
      BY <1>3 DEF Unauthenticated
    <2>2. Buckets'
      BY <2>1, BucketsKept
    <2>3. 401 \in Int \ {201, 409} /\ 0 \in Int
      OBVIOUS
    <2> QED  BY <2>1, <2>2, <2>3, RefusedOK
  <1>4. CASE Authenticated(r)
    <2> DEFINE s == SubjectOf[r.client]
    <2>1. PICK lag \in 0..r.lag :
            /\ RateLimited(s, lag)
            /\ \/ MayAccess(s) /\ Proceed(r, "authorized") /\ UNCHANGED client
               \/ Answer(r, 403, 0)
               \/ Answer(r, 429, 1 - SubjectTokens(s, lag))
            /\ UNCHANGED <<log, results, backend, projected, owner, local, doomed>>
      BY <1>4 DEF Authenticated
    <2>2. lag \in 0..MaxLag
      BY <1>1, Bounds DEF Request
    <2>3. Buckets'
      BY <1>1, <2>1, <2>2, RateLimitedBuckets
    <2>4. SubjectTokens(s, lag) \in Int
      <3>1. BucketType(bucket[s], SubjectCapacity, ideal[s])
        BY <1>1 DEF Buckets, SubjectOK
      <3> QED  BY <2>2, <3>1, Bounds DEF SubjectTokens, Tokens, AtMost, BucketType
    <2>5. CASE MayAccess(s) /\ Proceed(r, "authorized") /\ UNCHANGED client
      <3>1. Authorized(r)
        BY <2>5 DEF MayAccess, Authorized
      <3> QED  BY <2>1, <2>3, <2>5, <3>1, ProceedOK
    <2>6. CASE Answer(r, 403, 0)
      <3>1. 403 \in Int \ {201, 409} /\ 0 \in Int
        OBVIOUS
      <3> QED  BY <2>1, <2>3, <2>6, <3>1, RefusedOK
    <2>7. CASE Answer(r, 429, 1 - SubjectTokens(s, lag))
      <3>1. PICK v \in Int : v = 1 - SubjectTokens(s, lag)
        BY <2>4
      <3>2. Answer(r, 429, v)
        BY <2>7, <3>1
      <3>3. 429 \in Int \ {201, 409}
        OBVIOUS
      <3> QED  BY <2>1, <2>3, <3>2, <3>3, RefusedOK
    <2> QED  BY <2>1, <2>5, <2>6, <2>7
  <1>5. CASE GetBalance(r)
    <2>1. PICK status \in {200, 404} : Answer(r, status, projected)
      BY <1>5 DEF GetBalance
    <2>2. UNCHANGED <<log, results, backend, projected, owner, local, bucket, doomed, ideal>>
      BY <1>5 DEF GetBalance
    <2>3. Buckets'
      BY <2>2, BucketsKept
    <2>4. status \in Int \ {201, 409} /\ projected \in Int
      BY <2>1 DEF Sound, Kinds
    <2> QED  BY <2>1, <2>2, <2>3, <2>4, RefusedOK
  <1>6. CASE PostCommand(r)
    <2>1. UNCHANGED <<backend, local, bucket, doomed, ideal>>
      BY <1>6 DEF PostCommand
    <2>2. Buckets'
      BY <2>1, BucketsKept
    <2> QED  BY <1>6, <2>2, PostCommandOK
  <1>7. CASE Unavailable(r)
    <2>1. /\ r.stage = "authorized" /\ r.phase = "posting"
          /\ Execute(r) \/ UNCHANGED <<log, results>>
          /\ Answer(r, 503, 1)
          /\ UNCHANGED <<backend, projected, owner, local, bucket, doomed, ideal>>
      BY <1>7 DEF Unavailable
    <2>2. Buckets'
      BY <2>1, BucketsKept
    <2>3. PICK status \in Int, value \in Int : status = 503 /\ value = 1
      OBVIOUS
    <2>4. status # 201 /\ status # 409 /\ Answer(r, status, value)
      BY <2>1, <2>3
    <2> QED  BY <2>1, <2>2, <2>4, ExecutedOK
  <1> QED  BY <1>2, <1>3, <1>4, <1>5, <1>6, <1>7 DEF Serve

-----------------------------------------------------------------------------
(* Everything else that happens *)

LEMMA RegisterAccountOK ==
  ASSUME Sound, Buckets, NEW s \in Subject, RegisterAccount(s)
  PROVE  Sound' /\ Buckets'
  <1>1. PICK lag \in 0..MaxLag :
          /\ RateLimited(s, lag)
          /\ UNCHANGED <<log, results, backend, projected, local, doomed, reqs, client>>
          /\ owner' = owner \/ (owner = NoOne /\ owner' = s)
    BY DEF RegisterAccount, Register
  <1>2. Buckets'
    BY <1>1, RateLimitedBuckets
  <1>3. Kinds'
    BY <1>1 DEF Sound, Kinds
  <1>4. RequestsOK' /\ OnlyEntitled'
    <2>1. /\ \A r \in reqs : Authorized(r) => Authorized(r)'
          /\ \A i \in DOMAIN log : SubjectOf[log[i]] \in Named \cup {owner'}
      BY <1>1, EntitledKept DEF Sound
    <2> QED  BY <1>1, <2>1 DEF Sound, RequestsOK, OnlyEntitled
  <1>5. Book' /\ Grows
    BY <1>1, BookKept DEF Sound
  <1>6. ASSUME NEW c \in Client PROVE Intent(c)'
    <2>1. \A k \in Nat : Posted(c, k)' => Posted(c, k)
      BY <1>1 DEF Posted
    <2> QED  BY <1>1, <2>1, <1>5, IntentKept DEF Sound, Intents
  <1> QED  BY <1>2, <1>3, <1>4, <1>5, <1>6 DEF Sound, Intents

(* A tick ages the clock readings and lets the clients sleep.                *)
LEMMA TickOK ==
  ASSUME Sound, Tick
  PROVE  Sound'
  <1> DEFINE moved(r) == [r EXCEPT !.lag = IF r.stage = "admitted" /\ backend = "memory"
                                           THEN AtMost(MaxLag, @ + 1) ELSE 0]
             rested(k) == [k EXCEPT !.sleep = IF @ > 0 THEN @ - 1 ELSE 0]
  <1>1. /\ reqs' = {moved(r) : r \in reqs}
        /\ client' = [c \in Client |-> rested(client[c])]
        /\ UNCHANGED <<log, results, backend, projected, owner>>
    BY DEF Tick
  <1>2. ASSUME NEW r \in Request
        PROVE  /\ moved(r) \in Request /\ moved(r).id = r.id /\ moved(r).client = r.client
               /\ moved(r).call = r.call /\ moved(r).phase = r.phase /\ moved(r).stage = r.stage
    <2> DEFINE l == IF r.stage = "admitted" /\ backend = "memory"
                    THEN AtMost(MaxLag, r.lag + 1) ELSE 0
    <2>1. r.lag \in 0..MaxLag
      BY DEF Request
    <2>2. l \in 0..MaxLag
      BY <2>1, Bounds DEF AtMost
    <2>3. moved(r) = [r EXCEPT !.lag = l]
      BY DEF Request
    <2> HIDE DEF l, moved
    <2>4. moved(r) \in Request
      BY <2>2, <2>3 DEF Request
    <2> QED  BY <2>3, <2>4 DEF Request
  <1>3. ASSUME NEW k \in ClientState
        PROVE  /\ rested(k) \in ClientState /\ rested(k).phase = k.phase
               /\ rested(k).call = k.call /\ rested(k).version = k.version
    <2> DEFINE z == IF k.sleep > 0 THEN k.sleep - 1 ELSE 0
    <2>1. k.sleep \in Int
      BY DEF ClientState
    <2>2. z \in Int
      BY <2>1
    <2>3. rested(k) = [k EXCEPT !.sleep = z]
      BY DEF ClientState
    <2> HIDE DEF z, rested
    <2>4. rested(k) \in ClientState
      BY <2>2, <2>3, FieldSet
    <2> QED  BY <2>3, <2>4 DEF ClientState
  <1> HIDE DEF moved, rested
  <1>4. reqs \subseteq Request /\ client \in [Client -> ClientState]
    BY DEF Sound, Kinds
  <1>5. Kinds'
    BY <1>1, <1>2, <1>3, <1>4 DEF Sound, Kinds
  <1>6. RequestsOK' /\ OnlyEntitled'
    BY <1>1, <1>2, <1>4 DEF Sound, RequestsOK, Authorized, OnlyEntitled
  <1>7. Book' /\ Grows
    BY <1>1, BookKept DEF Sound
  <1>8. ASSUME NEW c \in Client PROVE Intent(c)'
    <2>1. \A k \in Nat : Posted(c, k)' => Posted(c, k)
      BY <1>1, <1>2, <1>4 DEF Posted
    <2>2. /\ client'[c].phase = client[c].phase
          /\ client'[c].call = client[c].call
          /\ client'[c].version = client[c].version
      BY <1>1, <1>3, <1>4
    <2> QED  BY <2>1, <2>2, <1>7, IntentKept DEF Sound, Intents
  <1> QED  BY <1>5, <1>6, <1>7, <1>8 DEF Sound, Intents

(* A step that touches neither deposits, requests, owner nor clients.        *)
LEMMA Untouched ==
  ASSUME Sound, projected' \in Nat, UNCHANGED <<log, results, backend, owner, reqs, client>>
  PROVE  Sound'
  <1>1. Kinds' /\ RequestsOK' /\ OnlyEntitled'
    BY DEF Sound, Kinds, RequestsOK, Authorized, OnlyEntitled
  <1>2. Book' /\ Grows
    BY BookKept DEF Sound
  <1>3. ASSUME NEW c \in Client PROVE Intent(c)'
    <2>1. \A k \in Nat : Posted(c, k)' => Posted(c, k)
      BY DEF Posted
    <2> QED  BY <2>1, <1>2, IntentKept DEF Sound, Intents
  <1> QED  BY <1>1, <1>2, <1>3 DEF Sound, Intents

LEMMA InitOK == Init => Sound /\ Buckets
  <1> SUFFICES ASSUME Init PROVE Sound /\ Buckets
    OBVIOUS
  <1> DEFINE k == [phase |-> "reading", version |-> 0, call |-> 0,
                   attempt |-> 1, waits |-> FALSE, sleep |-> 0]
  <1>1. k \in ClientState
    BY DEF ClientState
  <1>2. client = [c \in Client |-> k] /\ k.phase = "reading" /\ k.call = 0
    BY DEF Init
  <1> HIDE DEF k
  <1>3. Kinds
    <2>1. client \in [Client -> ClientState]
      BY <1>1, <1>2
    <2>2. log = <<>> /\ <<>> \in Seq(Client)
      BY DEF Init
    <2>3. log \in Seq(Client)
      BY <2>2
    <2> QED  BY <2>1, <2>3 DEF Init, Kinds
  <1>4. RequestsOK /\ Book /\ OnlyEntitled
    BY DEF Init, RequestsOK, Book, Deposited, OnlyEntitled
  <1>5. ASSUME NEW c \in Client PROVE Intent(c)
    <2>1. client[c].phase = "reading" /\ client[c].call = 0
      BY <1>2
    <2>2. \A j \in Nat : ~Posted(c, j)
      BY DEF Init, Posted
    <2> QED  BY <2>1, <2>2 DEF Intent
  <1>6. Buckets
    <2>1. /\ local = [a \in Address |-> NoBucket] /\ bucket = [s \in Subject |-> NoBucket]
          /\ ideal = [x \in Key |-> Capacity(x)]
      BY DEF Init
    <2>2. \A a \in Address : ideal[a] = ClientCapacity
      BY <2>1 DEF Key, Capacity
    <2>3. \A s \in Subject : ideal[s] = SubjectCapacity
      BY <2>1, GatewayAssumption DEF Key, Capacity
    <2>4. NoBucket.tokens = 0
      BY DEF NoBucket
    <2>5. ASSUME NEW a \in Address PROVE AddressOK(a)
      BY <2>1, <2>2, Bounds DEF AddressOK, BucketType, Covers
    <2>6. ASSUME NEW s \in Subject PROVE SubjectOK(s)
      <3>1. s \notin doomed
        BY DEF Init
      <3>2. BucketType(NoBucket, SubjectCapacity, SubjectCapacity)
            /\ Covers(SubjectCapacity, NoBucket, SubjectCapacity, Slack, Excess(s))
        BY Bounds DEF BucketType, Covers
      <3> QED  BY <2>1, <2>3, <2>4, <3>1, <3>2 DEF SubjectOK
    <2> QED  BY <2>1, <2>5, <2>6 DEF Buckets
  <1> QED  BY <1>3, <1>4, <1>5, <1>6 DEF Sound, Intents

LEMMA NextOK == IInv /\ [Next]_vars => IInv'
  <1> SUFFICES ASSUME Sound, Buckets, [Next]_vars PROVE Sound' /\ Buckets'
    BY DEF IInv, Sound
  <1>1. CASE \E c \in Client : Send(c) \/ TransportError(c)
    <2>1. PICK c \in Client : Send(c) \/ TransportError(c)
      BY <1>1
    <2>2. UNCHANGED <<backend, local, bucket, doomed, ideal>>
      BY <2>1 DEF Send, TransportError
    <2>3. Buckets'
      BY <2>2, BucketsKept
    <2> QED  BY <2>1, <2>3, SendOK, TransportErrorOK
  <1>2. CASE \E r \in reqs : Serve(r)
    BY <1>2, ServeOK
  <1>3. CASE \E s \in Subject : RegisterAccount(s)
    BY <1>3, RegisterAccountOK
  <1>4. CASE \E s \in Subject : PruneSelect(s) \/ PruneDelete(s)
    <2>1. PICK s \in Subject : PruneSelect(s) \/ PruneDelete(s)
      BY <1>4
    <2>2. UNCHANGED <<log, results, backend, projected, owner, reqs, client>>
      BY <2>1 DEF PruneSelect, PruneDelete
    <2>3. projected' \in Nat
      BY <2>2 DEF Sound, Kinds
    <2>4. Buckets'
      BY <2>1, PruneSelectBuckets, PruneDeleteBuckets
    <2> QED  BY <2>2, <2>3, <2>4, Untouched
  <1>5. CASE Project
    <2>1. UNCHANGED <<log, results, backend, owner, local, bucket, doomed, ideal, reqs, client>>
      BY <1>5 DEF Project
    <2>2. projected' \in Nat
      BY <1>5 DEF Project, Sound, Kinds
    <2>3. Buckets'
      BY <2>1, BucketsKept
    <2> QED  BY <2>1, <2>2, <2>3, Untouched
  <1>6. CASE Tick
    BY <1>6, TickOK, TickBuckets
  <1>7. CASE UNCHANGED vars
    <2>1. UNCHANGED <<log, results, backend, projected, owner, local, bucket, doomed, ideal, reqs, client>>
      BY <1>7 DEF vars
    <2>2. projected' \in Nat
      BY <2>1 DEF Sound, Kinds
    <2>3. Buckets'
      BY <2>1, BucketsKept
    <2> QED  BY <2>1, <2>2, <2>3, Untouched
  <1> QED  BY <1>1, <1>2, <1>3, <1>4, <1>5, <1>6, <1>7 DEF Next

-----------------------------------------------------------------------------
(* The theorems *)

(* Results, requests, clients and buckets agree in every reachable state.    *)
THEOREM Invariance == Spec => []IInv
  <1>1. Init => IInv
    BY InitOK DEF IInv, Sound
  <1> QED  BY <1>1, NextOK, PTL DEF Spec

(* Whatever times out, is retried, overtaken or hidden behind a 503, a       *)
(* client that deposits once never deposits twice: two deposits would carry  *)
(* ids of two calls, and the earlier call of two met a conflict.             *)
THEOREM DepositsOnce == Spec => []OncePerIntent
  <1>1. IInv => OncePerIntent
    <2> SUFFICES ASSUME IInv, NEW c \in Client
                 PROVE  Cardinality({i \in DOMAIN log : log[i] = c}) <= 1
      BY DEF OncePerIntent
    <2> DEFINE S == {i \in DOMAIN log : log[i] = c}
    <2>1. ASSUME NEW i \in S, NEW j \in S PROVE i = j
      <3>1. PICK k1 \in Nat : Deposited(c, k1, i)
        BY <2>1 DEF IInv, Book
      <3>2. PICK k2 \in Nat : Deposited(c, k2, j)
        BY <2>1 DEF IInv, Book
      <3>3. Posted(c, k1) /\ Posted(c, k2) /\ ~Conflicted(c, k1) /\ ~Conflicted(c, k2)
        BY <3>1, <3>2 DEF Deposited, Posted, Conflicted
      <3>4. k1 = k2
        BY <3>3 DEF IInv, Intents, Intent
      <3> QED  BY <3>1, <3>2, <3>4 DEF Deposited
    <2>2. CASE S = {}
      BY <2>2, FS_EmptySet
    <2>3. CASE S # {}
      <3>1. PICK i \in S : TRUE
        BY <2>3
      <3>2. S = {i}
        BY <2>1, <3>1
      <3> HIDE DEF S
      <3>3. Cardinality(S) = 1
        BY <3>2, FS_Singleton
      <3> QED  BY <3>3 DEF S
    <2> QED  BY <2>2, <2>3
  <1> QED  BY <1>1, Invariance, PTL

(* A client that was told its deposit succeeded finds it at the version it   *)
(* was told.                                                                 *)
THEOREM SuccessTrue == Spec => []SuccessIsTrue
  <1>1. IInv => SuccessIsTrue
    BY DEF IInv, Intents, Intent, SuccessIsTrue
  <1> QED  BY <1>1, Invariance, PTL

(* The address limiter is never overdrawn.  Late clock readings cost the     *)
(* subject limiter in memory one delay's refill at most.  Retention that      *)
(* deletes rows in use costs the one in PostgreSQL one bucketful at most, if   *)
(* rows are kept for two refills: however many statements select and delete,  *)
(* whenever they do, a second bucketful is not given away before the first is *)
(* paid back.                                                                 *)
THEOREM LimitsHold == Spec => []WithinLimit
  <1>1. IInv => WithinLimit
    <2> SUFFICES ASSUME IInv PROVE WithinLimit
      OBVIOUS
    <2>1. ASSUME NEW a \in Address PROVE ideal[a] >= 0
      <3>1. BucketType(local[a], ClientCapacity, ideal[a])
            /\ Covers(ideal[a], local[a], ClientCapacity, 0, 0)
        BY DEF IInv, Buckets, AddressOK
      <3>2. ideal[a] >= -(0 + 0)
        BY <3>1, Bounds, Overdrawn
      <3> QED  BY <3>2
    <2>2. ASSUME NEW s \in Subject, Bounded PROVE ideal[s] >= -(Slack + Excess(s)) /\ ideal[s] \in Int
      <3>1. BucketType(bucket[s], SubjectCapacity, ideal[s])
            /\ Covers(ideal[s], bucket[s], SubjectCapacity, Slack, Excess(s))
        BY <2>2 DEF IInv, Buckets, SubjectOK
      <3>2. ideal[s] \in Int
        BY <3>1 DEF BucketType
      <3> QED  BY <3>1, <3>2, Bounds, Overdrawn
    <2>3. ASSUME NEW s \in Subject, backend = "memory" PROVE ideal[s] >= -MaxLag
      <3>1. Bounded /\ Slack = MaxLag /\ Excess(s) = 0
        BY <2>3 DEF Bounded, Slack, Excess
      <3> QED  BY <2>2, <3>1, Bounds
    <2>4. ASSUME NEW s \in Subject, backend = "postgres", PruneIdle >= 2 * SubjectCapacity
          PROVE  ideal[s] >= -SubjectCapacity
      <3>1. Bounded /\ Slack = 0 /\ Excess(s) \in Nat /\ Excess(s) <= SubjectCapacity
        BY <2>4, Bounds DEF Bounded, Slack
      <3> QED  BY <2>2, <3>1, Bounds
    <2> QED  BY <2>1, <2>3, <2>4 DEF WithinLimit
  <1> QED  BY <1>1, Invariance, PTL

(* Every deposit was made by a subject entitled to the account, now too.     *)
THEOREM EntitledOnly == Spec => []OnlyEntitled
  <1>1. IInv => OnlyEntitled
    BY DEF IInv
  <1> QED  BY <1>1, Invariance, PTL

-----------------------------------------------------------------------------
(* The circuit breaker of the same HTTP server: it cannot wedge half-open,   *)
(* for any number of threads, any threshold and any retry budget.            *)

BreakerInv == TypeOK /\ ProbeOwned

(* The counters may start at nought.                                          *)
LEMMA BreakerZero ==
  0 \in 0..(Threshold - 1) /\ 0 \in 0..RetryAttempts /\ 0 \in 0..MaxOutages
  BY BreakerAssumption

(* Recording an outcome leaves nobody a probe, or the circuit as it was       *)
(* while it was not half open.                                                *)
LEMMA BreakerRecords ==
  ASSUME TypeOK, ProbeOwned, RecordSuccess \/ RecordFailure
  PROVE  /\ state' \in {"closed", "open", "half_open"}
         /\ failures' \in 0..(Threshold - 1)
         /\ flag' = FALSE /\ elapsed' \in BOOLEAN /\ prober' = {}
  <1>1. CASE RecordSuccess
    BY <1>1, BreakerZero, Zenon DEF TypeOK, RecordSuccess
  <1>2. CASE RecordFailure
    <2>1. CASE state = "half_open" \/ failures + 1 >= Threshold
      BY <1>2, <2>1, BreakerZero, Zenon DEF RecordFailure, Trip
    <2>2. CASE ~(state = "half_open" \/ failures + 1 >= Threshold)
      <3>1. failures' = failures + 1 /\ UNCHANGED <<state, flag, elapsed, prober>>
        BY <1>2, <2>2, Zenon DEF RecordFailure
      <3>2. failures' \in 0..(Threshold - 1)
        BY <2>2, <3>1, BreakerAssumption DEF TypeOK
      <3>3. flag = FALSE /\ prober = {}
        BY <2>2, Zenon DEF TypeOK, ProbeOwned
      <3> QED  BY <3>1, <3>2, <3>3, Zenon DEF TypeOK
    <2> QED  BY <1>2, <2>1, <2>2
  <1> QED  BY <1>1, <1>2

(* The initial states satisfy the invariant, and every step keeps it.         *)
LEMMA BreakerInductive ==
  /\ BreakerInit => BreakerInv
  /\ BreakerInv /\ [BreakerNext]_breakerVars => BreakerInv'
  <1>1. BreakerInit => BreakerInv
    <2> SUFFICES ASSUME BreakerInit PROVE TypeOK /\ ProbeOwned
      BY DEF BreakerInv
    <2>1. TypeOK
      BY BreakerZero DEF BreakerInit, TypeOK
    <2>2. ProbeOwned
      BY Zenon DEF BreakerInit, ProbeOwned
    <2> QED  BY <2>1, <2>2
  <1>2. ASSUME BreakerInv, [BreakerNext]_breakerVars PROVE BreakerInv'
    <2> USE <1>2 DEF BreakerInv
    <2>1. CASE ResetElapses
      BY <2>1 DEF ResetElapses, TypeOK, ProbeOwned, threads
    <2>2. ASSUME NEW condition \in {"up", "down"}, Turn(condition),
                 outages' \in 0..MaxOutages
          PROVE  BreakerInv'
      BY <2>2 DEF Turn, TypeOK, ProbeOwned, breaker
    <2>3. CASE GoDown
      <3>1. outages' \in 0..MaxOutages
        BY <2>3, BreakerAssumption DEF GoDown, TypeOK
      <3> QED  BY <2>2, <2>3, <3>1 DEF GoDown
    <2>4. CASE Recover
      <3>1. outages' \in 0..MaxOutages
        BY <2>4 DEF Recover, TypeOK
      <3> QED  BY <2>2, <2>4, <3>1 DEF Recover
    <2>5. ASSUME NEW t \in Thread, Begin(t) PROVE BreakerInv'
      BY <2>5, BreakerAssumption DEF Begin, TypeOK, ProbeOwned, breaker
    <2>6. ASSUME NEW t \in Thread, Admit(t) PROVE BreakerInv'
      <3>1. TypeOK'
        BY <2>6 DEF Admit, TypeOK, PromotedState, PromotedProber
      <3>2. CASE PromotedState = "closed"
        BY <2>6, <3>2 DEF Admit, TypeOK, ProbeOwned, PromotedState
      <3>3. CASE PromotedState = "half_open" /\ ~PromotedFlag
        <4>1. PromotedProber = {}
          BY <3>3 DEF PromotedFlag, PromotedProber, ProbeOwned
        <4>2. state' = "half_open" /\ flag' /\ prober' = {t} /\ pc'[t] = "call"
          BY <2>6, <3>3, <4>1 DEF Admit, TypeOK
        <4> QED  BY <3>1, <4>2 DEF ProbeOwned
      <3> QED  BY <2>6, <3>1, <3>2, <3>3 DEF Admit
    <2>7. ASSUME NEW t \in Thread, FailFast(t) PROVE BreakerInv'
      BY <2>7, BreakerAssumption DEF FailFast, TypeOK, ProbeOwned, breaker
    <2>8. ASSUME NEW t \in Thread, Succeed(t) PROVE BreakerInv'
      <3>1. RecordSuccess
        BY <2>8 DEF Succeed
      <3>2. attempt' \in [Thread -> 0..RetryAttempts]
        BY <2>8, BreakerAssumption DEF Succeed, TypeOK
      <3>3. pc' \in [Thread -> {"idle", "admit", "call"}]
        BY <2>8 DEF Succeed, TypeOK
      <3>4. TypeOK'
        BY <2>8, <3>1, <3>2, <3>3, BreakerRecords DEF Succeed, TypeOK
      <3> QED  BY <3>1, <3>4, BreakerRecords DEF ProbeOwned
    <2>9. ASSUME NEW t \in Thread, Fail(t) PROVE BreakerInv'
      <3>1. RecordFailure
        BY <2>9 DEF Fail
      <3>2. attempt' \in [Thread -> 0..RetryAttempts]
        BY <2>9, BreakerAssumption DEF Fail, TypeOK
      <3>3. pc' \in [Thread -> {"idle", "admit", "call"}]
        BY <2>9 DEF Fail, TypeOK
      <3>4. TypeOK'
        BY <2>9, <3>1, <3>2, <3>3, BreakerRecords DEF Fail, TypeOK
      <3> QED  BY <3>1, <3>4, BreakerRecords DEF ProbeOwned
    <2>10. CASE UNCHANGED breakerVars
      BY <2>10 DEF breakerVars, breaker, threads, TypeOK, ProbeOwned
    <2> QED
      BY <2>1, <2>3, <2>4, <2>5, <2>6, <2>7, <2>8, <2>9, <2>10 DEF BreakerNext, Return
  <1> QED  BY <1>1, <1>2

(* State, count, flag and threads keep their kinds; in particular the count   *)
(* of consecutive failures never reaches the threshold.                       *)
THEOREM BreakerTyped == BreakerSpec => []TypeOK
  <1>1. BreakerInv => TypeOK
    BY DEF BreakerInv
  <1> QED  BY <1>1, BreakerInductive, PTL DEF BreakerSpec

(* The breaker refuses commands for a probe only while one probe is out, so   *)
(* no order of late failures and successes leaves it half open for ever.      *)
THEOREM NeverWedged == BreakerSpec => []ProbeOwned
  <1>1. BreakerInv => ProbeOwned
    BY DEF BreakerInv
  <1> QED  BY <1>1, BreakerInductive, PTL DEF BreakerSpec
================================================================================
