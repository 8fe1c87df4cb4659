------------------------ MODULE SqliteProjectionProofs ------------------------
(***************************************************************************)
(* Proofs about the SQLite projection tier, for any feed the ledger can    *)
(* write and any number of consumers, retries, crashes and drills, where   *)
(* no COMMIT fails and one operator redrives at a time.                    *)
(*                                                                         *)
(* The argument has four parts.  Sums over finite sets, by the minimal     *)
(* counterexample.  The tables that a set of events builds, whatever the   *)
(* order they came in.  The tables that the feed builds in its own order.  *)
(* And the invariant: the claims are a prefix of the feed, and the tables  *)
(* are those of the claimed events that are not parked.                    *)
(***************************************************************************)
EXTENDS SqliteProjection, FiniteSetTheorems, WellFoundedInduction, SequenceTheorems, TLAPS

(* A nonempty set of naturals has a least element.                            *)
LEMMA LeastNat ==
  ASSUME NEW T, T \subseteq Nat, T # {}
  PROVE  \E x \in T : \A y \in T : x <= y
  <1> DEFINE R == OpToRel(<, Nat)
  <1>1. \A x, y \in Nat : <<x, y>> \in R <=> x < y
    BY DEF OpToRel
  <1>2. IsWellFoundedOn(R, Nat)
    BY NatLessThanWellFounded
  <1> HIDE DEF R
  <1>3. PICK x \in T : \A y \in T : <<y, x>> \notin R
    BY <1>2, WFMin
  <1>4. \A y \in T : y \in Nat /\ x \in Nat /\ ~(y < x)
    BY <1>1, <1>3
  <1>5. \A y \in T : x <= y
    BY <1>4
  <1> QED  BY <1>5

(* Induction over finite sets, for a property given by the set of the         *)
(* counterexamples: among them is one that no removal of an element makes a   *)
(* smaller one.                                                               *)
LEMMA Smallest ==
  ASSUME NEW S, IsFiniteSet(S), NEW B, B \subseteq SUBSET S, B # {}
  PROVE  \E s \in B : \A x \in s : s \ {x} \notin B
  <1> DEFINE T == {Cardinality(s) : s \in B}
  <1>1. \A s \in B : IsFiniteSet(s) /\ Cardinality(s) \in Nat
    BY FS_Subset, FS_CardinalityType
  <1>2. T \subseteq Nat /\ T # {}
    BY <1>1
  <1>3. PICK n \in T : \A m \in T : n <= m
    BY <1>2, LeastNat
  <1>4. PICK s \in B : n = Cardinality(s)
    BY <1>3
  <1>5. ASSUME NEW x \in s, s \ {x} \in B PROVE FALSE
    <2>1. Cardinality(s \ {x}) = Cardinality(s) - 1
      BY <1>1, FS_RemoveElement
    <2>2. Cardinality(s \ {x}) \in T
      BY <1>5
    <2> HIDE DEF T
    <2> QED  BY <1>1, <1>3, <1>4, <2>1, <2>2
  <1> QED  BY <1>5

-----------------------------------------------------------------------------
(* Sums over finite sets *)

Some(s) == CHOOSE x \in s : TRUE

(* g sums f over s, if it does so over s without one of its elements.         *)
Adds(f, s, g) == IF s = {} THEN g[s] = 0 ELSE g[s] = f[Some(s)] + g[s \ {Some(s)}]

Sums(f, S, g) ==
  g = [s \in SUBSET S |-> IF s = {} THEN 0 ELSE f[Some(s)] + g[s \ {Some(s)}]]

(* What the community modules' sum unfolds to.                                *)
LEMMA SumDef ==
  ASSUME NEW f, NEW S
  PROVE  SumFunctionOnSet(f, S) = (CHOOSE g : Sums(f, S, g))[S]
  BY DEF SumFunctionOnSet, FoldFunctionOnSet, MapThenFoldSet, Sums, Some

(* Some picks an element.                                                     *)
LEMMA SomeIn == \A s : s # {} => Some(s) \in s
  BY DEF Some

(* Sums of the subsets with at most n elements.                               *)
Upto(S, n) == {s \in SUBSET S : Cardinality(s) <= n}

PartSums(f, S, n) == {g \in [Upto(S, n) -> Int] : \A s \in Upto(S, n) : Adds(f, s, g)}

(* From the sums of the subsets of n elements to those of n + 1.              *)
LEMMA PartStep ==
  ASSUME NEW S, IsFiniteSet(S), NEW f, \A x \in S : f[x] \in Int,
         NEW n \in Nat, NEW g \in PartSums(f, S, n)
  PROVE  PartSums(f, S, n + 1) # {}
  <1> DEFINE h == [s \in Upto(S, n + 1) |->
                     IF s = {} THEN 0 ELSE f[Some(s)] + g[s \ {Some(s)}]]
  <1>1. ASSUME NEW s \in Upto(S, n + 1), s # {}
        PROVE  s \ {Some(s)} \in Upto(S, n) /\ s \ {Some(s)} \in Upto(S, n + 1) /\ f[Some(s)] \in Int
    <2>1. IsFiniteSet(s) /\ Cardinality(s) \in Nat /\ Some(s) \in s /\ s \subseteq S
      BY <1>1, SomeIn, FS_Subset, FS_CardinalityType DEF Upto
    <2>2. Cardinality(s \ {Some(s)}) = Cardinality(s) - 1
      BY <2>1, FS_RemoveElement
    <2> QED  BY <1>1, <2>1, <2>2 DEF Upto
  <1>2. \A s \in Upto(S, n) : Adds(f, s, g) /\ g[s] \in Int
    BY DEF PartSums
  <1>3. h \in [Upto(S, n + 1) -> Int]
    BY <1>1, <1>2
  <1>4. \A s \in Upto(S, n) : s \in Upto(S, n + 1) /\ h[s] = g[s]
    <2>1. \A s \in Upto(S, n) : s \in Upto(S, n + 1)
      <3> TAKE s \in Upto(S, n)
      <3>1. Cardinality(s) \in Nat
        BY FS_Subset, FS_CardinalityType DEF Upto
      <3> QED  BY <3>1 DEF Upto
    <2> QED  BY <1>2, <2>1 DEF Adds
  <1>5. \A s \in Upto(S, n + 1) : Adds(f, s, h)
    BY <1>1, <1>4 DEF Adds
  <1> HIDE DEF h
  <1> QED  BY <1>3, <1>5 DEF PartSums

(* So the subsets of any size have their sums.                                *)
LEMMA PartExists ==
  ASSUME NEW S, IsFiniteSet(S), NEW f, \A x \in S : f[x] \in Int, NEW m \in Nat
  PROVE  PartSums(f, S, m) # {}
  <1> DEFINE T == {n \in Nat : PartSums(f, S, n) = {}}
  <1> SUFFICES ASSUME T # {} PROVE FALSE
    OBVIOUS
  <1>1. T \subseteq Nat
    OBVIOUS
  <1>2. PICK n \in T : \A k \in T : n <= k
    BY <1>1, LeastNat
  <1>3. n # 0
    <2> DEFINE z == [s \in Upto(S, 0) |-> 0]
    <2>1. \A s \in Upto(S, 0) : s = {}
      BY FS_Subset, FS_EmptySet, FS_CardinalityType DEF Upto
    <2>2. z \in [Upto(S, 0) -> Int] /\ \A s \in Upto(S, 0) : Adds(f, s, z)
      BY <2>1 DEF Adds
    <2> HIDE DEF z
    <2>3. z \in PartSums(f, S, 0)
      BY <2>2 DEF PartSums
    <2> QED  BY <2>3
  <1>4. n - 1 \in Nat /\ n - 1 \notin T
    BY <1>1, <1>2, <1>3
  <1>5. PICK g : g \in PartSums(f, S, n - 1)
    BY <1>4
  <1>6. PartSums(f, S, (n - 1) + 1) # {}
    BY <1>4, <1>5, PartStep
  <1>7. (n - 1) + 1 = n
    BY <1>1
  <1> QED  BY <1>6, <1>7

(* The recursive function behind a sum over a finite set exists.              *)
LEMMA SumsExists ==
  ASSUME NEW S, IsFiniteSet(S), NEW f, \A x \in S : f[x] \in Int
  PROVE  \E g : Sums(f, S, g) /\ g[S] \in Int
  <1> DEFINE n == Cardinality(S)
  <1>1. n \in Nat
    BY FS_CardinalityType
  <1>2. PICK g : g \in PartSums(f, S, n)
    BY <1>1, PartExists
  <1>3. Upto(S, n) = SUBSET S
    <2>1. \A s \in SUBSET S : Cardinality(s) <= n
      BY FS_Subset
    <2> QED  BY <2>1 DEF Upto
  <1>4. g \in [SUBSET S -> Int] /\ \A s \in SUBSET S : Adds(f, s, g)
    BY <1>2, <1>3 DEF PartSums
  <1>5. Sums(f, S, g)
    BY <1>4 DEF Sums, Adds
  <1> QED  BY <1>4, <1>5

(* Two such functions agree where both are defined.                           *)
LEMMA SumsUnique ==
  ASSUME NEW f, NEW g, NEW S, IsFiniteSet(S), NEW T, T \subseteq S,
         NEW a, Sums(f, S, a), NEW b, Sums(g, T, b), \A x \in T : f[x] = g[x]
  PROVE  a[T] = b[T]
  <1> DEFINE B == {s \in SUBSET T : a[s] # b[s]}
  <1> SUFFICES ASSUME B # {} PROVE FALSE
    OBVIOUS
  <1>1. IsFiniteSet(T) /\ B \subseteq SUBSET T
    BY FS_Subset
  <1>2. PICK s \in B : \A x \in s : s \ {x} \notin B
    BY <1>1, Smallest
  <1>3. s \in SUBSET T /\ s \in SUBSET S /\ a[s] # b[s]
    OBVIOUS
  <1>4. a[s] = (IF s = {} THEN 0 ELSE f[Some(s)] + a[s \ {Some(s)}])
    BY <1>3 DEF Sums
  <1>5. b[s] = (IF s = {} THEN 0 ELSE g[Some(s)] + b[s \ {Some(s)}])
    BY <1>3 DEF Sums
  <1>6. s # {} /\ Some(s) \in s
    BY <1>3, <1>4, <1>5, SomeIn
  <1>7. a[s \ {Some(s)}] = b[s \ {Some(s)}] /\ f[Some(s)] = g[Some(s)]
    BY <1>2, <1>3, <1>6
  <1> QED  BY <1>3, <1>4, <1>5, <1>6, <1>7

(* The library's sum is one of these functions, and an integer.               *)
LEMMA SumIs ==
  ASSUME NEW S, IsFiniteSet(S), NEW f, \A x \in S : f[x] \in Int
  PROVE  \E g : Sums(f, S, g) /\ g[S] = SumFunctionOnSet(f, S) /\ g[S] \in Int
  <1> DEFINE g == CHOOSE h : Sums(f, S, h)
  <1>1. PICK h : Sums(f, S, h) /\ h[S] \in Int
    BY SumsExists
  <1>2. Sums(f, S, g)
    BY <1>1
  <1>3. g[S] = SumFunctionOnSet(f, S)
    BY SumDef
  <1> HIDE DEF g
  <1>4. g[S] = h[S]
    BY <1>1, <1>2, SumsUnique
  <1> QED  BY <1>1, <1>2, <1>3, <1>4

(* The laws of sums: of functions that agree, of no elements, without one     *)
(* element, and without two.                                                  *)
LEMMA SumInt ==
  ASSUME NEW S, IsFiniteSet(S), NEW f, \A x \in S : f[x] \in Int
  PROVE  SumFunctionOnSet(f, S) \in Int
  BY SumIs

(* A sum depends only on the values summed.                                   *)
LEMMA SumSame ==
  ASSUME NEW S, IsFiniteSet(S), NEW f, \A x \in S : f[x] \in Int, NEW g, \A x \in S : f[x] = g[x]
  PROVE  SumFunctionOnSet(f, S) = SumFunctionOnSet(g, S)
  <1>1. PICK a : Sums(f, S, a) /\ a[S] = SumFunctionOnSet(f, S)
    BY SumIs
  <1>2. \A x \in S : g[x] \in Int
    OBVIOUS
  <1>3. PICK b : Sums(g, S, b) /\ b[S] = SumFunctionOnSet(g, S)
    BY <1>2, SumIs
  <1>4. a[S] = b[S]
    BY <1>1, <1>3, SumsUnique
  <1> QED  BY <1>1, <1>3, <1>4

(* The empty sum.                                                             *)
LEMMA SumEmpty == \A f : SumFunctionOnSet(f, {}) = 0
  <1> TAKE f
  <1>1. IsFiniteSet({})
    BY FS_EmptySet
  <1>2. PICK g : Sums(f, {}, g) /\ g[{}] = SumFunctionOnSet(f, {})
    BY <1>1, SumIs
  <1> QED  BY <1>2 DEF Sums

(* A sum is one summand and the rest, for the element CHOOSE takes.           *)
LEMMA SumSome ==
  ASSUME NEW S, IsFiniteSet(S), NEW f, \A x \in S : f[x] \in Int, S # {}
  PROVE  SumFunctionOnSet(f, S) = f[Some(S)] + SumFunctionOnSet(f, S \ {Some(S)})
  <1> DEFINE T == S \ {Some(S)}
  <1>1. PICK a : Sums(f, S, a) /\ a[S] = SumFunctionOnSet(f, S)
    BY SumIs
  <1>2. IsFiniteSet(T) /\ \A x \in T : f[x] \in Int
    BY FS_Subset
  <1>3. PICK b : Sums(f, T, b) /\ b[T] = SumFunctionOnSet(f, T)
    BY <1>2, SumIs
  <1>4. a[T] = b[T]
    BY <1>1, <1>3, SumsUnique
  <1>5. a[S] = f[Some(S)] + a[T]
    BY <1>1 DEF Sums
  <1> QED  BY <1>1, <1>3, <1>4, <1>5

(* And for any element: the order of summation does not matter.               *)
LEMMA SumWithout ==
  ASSUME NEW S, IsFiniteSet(S), NEW f, \A x \in S : f[x] \in Int, NEW x \in S
  PROVE  SumFunctionOnSet(f, S) = f[x] + SumFunctionOnSet(f, S \ {x})
  <1> DEFINE F(s) == SumFunctionOnSet(f, s)
             B == {s \in SUBSET S : \E y \in s : F(s) # f[y] + F(s \ {y})}
  <1> SUFFICES ASSUME B # {} PROVE FALSE
    OBVIOUS
  <1>1. B \subseteq SUBSET S
    OBVIOUS
  <1>2. PICK s \in B : \A y \in s : s \ {y} \notin B
    BY <1>1, Smallest
  <1>3. PICK y \in s : F(s) # f[y] + F(s \ {y})
    OBVIOUS
  <1>4. s \subseteq S /\ Some(s) \in s
    BY <1>1, <1>3, SomeIn
  <1> DEFINE c == Some(s)
  <1> HIDE DEF c
  <1>5. ASSUME NEW t \in SUBSET s
        PROVE  IsFiniteSet(t) /\ (\A z \in t : f[z] \in Int) /\ F(t) \in Int
    <2>1. t \in SUBSET S
      BY <1>4
    <2> QED  BY <2>1, FS_Subset, SumInt
  <1>6. F(s) = f[c] + F(s \ {c})
    BY <1>3, <1>5, SumSome DEF c
  <1>7. c # y /\ c \in s
    BY <1>3, <1>4, <1>6 DEF c
  <1>8. \A z, w \in s : z # w => F(s \ {z}) = f[w] + F((s \ {z}) \ {w})
    BY <1>2, <1>4
  <1>9. (s \ {c}) \ {y} = (s \ {y}) \ {c}
    OBVIOUS
  <1>10. F(s \ {c}) = f[y] + F((s \ {c}) \ {y}) /\ F(s \ {y}) = f[c] + F((s \ {c}) \ {y})
    BY <1>7, <1>8, <1>9
  <1>11. f[c] \in Int /\ f[y] \in Int /\ F((s \ {c}) \ {y}) \in Int
    BY <1>5, <1>7
  <1> HIDE DEF F
  <1> QED  BY <1>3, <1>6, <1>10, <1>11

(* A sum over one more element.                                               *)
LEMMA SumWith ==
  ASSUME NEW S, IsFiniteSet(S), NEW f, \A x \in S : f[x] \in Int, NEW x, x \notin S, f[x] \in Int
  PROVE  SumFunctionOnSet(f, S \cup {x}) = f[x] + SumFunctionOnSet(f, S)
  <1> DEFINE T == S \cup {x}
  <1>1. IsFiniteSet(T) /\ x \in T /\ \A y \in T : f[y] \in Int
    BY FS_AddElement
  <1>2. T \ {x} = S
    OBVIOUS
  <1> HIDE DEF T
  <1>3. SumFunctionOnSet(f, T) = f[x] + SumFunctionOnSet(f, T \ {x})
    BY <1>1, SumWithout
  <1> QED  BY <1>2, <1>3 DEF T

(* Every event type has its signs.                                            *)
LEMMA Signs ==
  \A type \in EventType : BalanceSign(type) \in Int /\ HeldSign(type) \in Int
  BY DEF EventType, BalanceSign, HeldSign

(* An event's deltas are integers.                                            *)
LEMMA Deltas ==
  ASSUME NEW e, e.type \in EventType, e.amount \in Int
  PROVE  BalanceDelta(e) \in Int /\ HeldDelta(e) \in Int
  <1>1. \A m, n \in Int : m * n \in Int
    OBVIOUS
  <1> QED  BY <1>1, Signs DEF BalanceDelta, HeldDelta

(* The greatest of a nonempty set of indices is in it.                        *)
LEMMA MaxIn ==
  ASSUME NEW n \in Nat, NEW T, T \subseteq 1..n, T # {}
  PROVE  Max(T) \in T /\ \A y \in T : y <= Max(T)
  <1> DEFINE U == {k \in 0..n : n - k \in T}
  <1>1. U \subseteq Nat /\ U # {}
    <2>1. PICK x \in T : TRUE
      OBVIOUS
    <2>2. n - x \in 0..n /\ n - (n - x) = x
      OBVIOUS
    <2>3. n - x \in U
      BY <2>1, <2>2
    <2>4. U \subseteq Nat
      OBVIOUS
    <2> HIDE DEF U
    <2> QED  BY <2>3, <2>4
  <1>2. PICK u \in U : \A y \in U : u =< y
    BY <1>1, LeastNat
  <1>3. \A y \in T : n - y \in U
    OBVIOUS
  <1>4. n - u \in T /\ \A y \in T : n - u >= y
    BY <1>2, <1>3
  <1>5. \A y \in T : y <= n - u
    BY <1>4
  <1> QED  BY <1>4, <1>5 DEF Max

-----------------------------------------------------------------------------
(* The tables of a set of events *)

(* What the assumption says of the feed: its positions, and its events.       *)
LEMMA FeedShape ==
  /\ Len(Log) \in Nat /\ DOMAIN Log = 1..Len(Log) /\ Position = DOMAIN Log
  /\ IsFiniteSet(Position)
  /\ \A e \in Position : /\ ValidEvent(Log[e].account, Log[e].event)
                         /\ Log[e].event.type \in EventType /\ Log[e].event.amount \in Int
  <1>1. Len(Log) \in Nat /\ DOMAIN Log = 1..Len(Log)
    BY FeedAssumption, LenProperties
  <1>2. IsFiniteSet(1..Len(Log))
    BY <1>1, FS_Interval
  <1>3. \A e \in Position : ValidEvent(Log[e].account, Log[e].event)
    BY <1>1, FeedAssumption DEF Position
  <1>4. \A n : ValidAmount(n) => n \in Int
    BY DomainAssumption DEF ValidAmount
  <1> QED  BY <1>1, <1>2, <1>3, <1>4 DEF Position, ValidEvent

Zero == [balance |-> 0, held |-> 0, version |-> 0]

(* A stream with no rows folds to zeroes.                                     *)
LEMMA FoldNone ==
  ASSUME NEW s, DOMAIN s = {}
  PROVE  Fold(s) = Zero
  <1>1. Cardinality({}) = 0
    BY FS_EmptySet
  <1>2. \A f : DOMAIN f = {} => SumFunction(f) = 0
    BY SumEmpty DEF SumFunction
  <1> QED  BY <1>1, <1>2 DEF Fold, Version, Zero

(* One more row, anywhere in the stream, is one more `apply`.                 *)
LEMMA FoldOne ==
  ASSUME NEW T, IsFiniteSet(T), NEW x, x \notin T, NEW s, DOMAIN s = T,
         NEW u, DOMAIN u = T \cup {x}, \A i \in T : u[i] = s[i],
         \A i \in T \cup {x} : u[i].type \in EventType /\ u[i].amount \in Int
  PROVE  Fold(u) = Apply(Fold(s), u[x])
  <1> DEFINE B(r) == [i \in DOMAIN r |-> BalanceDelta(r[i])]
             H(r) == [i \in DOMAIN r |-> HeldDelta(r[i])]
  <1>1. \A i \in T \cup {x} : BalanceDelta(u[i]) \in Int /\ HeldDelta(u[i]) \in Int
    BY Deltas
  <1>2. /\ \A i \in T : B(u)[i] \in Int /\ H(u)[i] \in Int
        /\ B(u)[x] \in Int /\ H(u)[x] \in Int
        /\ B(u)[x] = BalanceDelta(u[x]) /\ H(u)[x] = HeldDelta(u[x])
    BY <1>1
  <1>3. \A i \in T : B(u)[i] = B(s)[i] /\ H(u)[i] = H(s)[i]
    OBVIOUS
  <1>4. \A r : DOMAIN B(r) = DOMAIN r /\ DOMAIN H(r) = DOMAIN r
    OBVIOUS
  <1>5. \A r : Fold(r) = [balance |-> SumFunctionOnSet(B(r), DOMAIN r),
                          held    |-> SumFunctionOnSet(H(r), DOMAIN r),
                          version |-> Cardinality(DOMAIN r)]
    BY <1>4 DEF Fold, SumFunction, Version
  <1> HIDE DEF B, H
  <1>6. /\ SumFunctionOnSet(B(u), T \cup {x}) = B(u)[x] + SumFunctionOnSet(B(u), T)
        /\ SumFunctionOnSet(H(u), T \cup {x}) = H(u)[x] + SumFunctionOnSet(H(u), T)
    BY <1>2, SumWith
  <1>7. /\ SumFunctionOnSet(B(u), T) = SumFunctionOnSet(B(s), T)
        /\ SumFunctionOnSet(H(u), T) = SumFunctionOnSet(H(s), T)
    BY <1>2, <1>3, SumSame
  <1>8. SumFunctionOnSet(B(u), T) \in Int /\ SumFunctionOnSet(H(u), T) \in Int
    BY <1>2, SumInt
  <1>9. Cardinality(T \cup {x}) = Cardinality(T) + 1
    BY FS_AddElement
  <1>10. /\ Fold(s).balance = SumFunctionOnSet(B(s), T) /\ Fold(s).held = SumFunctionOnSet(H(s), T)
         /\ Fold(s).version = Cardinality(T)
    BY <1>5
  <1>11. Fold(u) = [balance |-> SumFunctionOnSet(B(u), T \cup {x}),
                    held    |-> SumFunctionOnSet(H(u), T \cup {x}),
                    version |-> Cardinality(T \cup {x})]
    BY <1>5
  <1>12. /\ SumFunctionOnSet(B(u), T \cup {x}) = Fold(s).balance + BalanceDelta(u[x])
         /\ SumFunctionOnSet(H(u), T \cup {x}) = Fold(s).held + HeldDelta(u[x])
    BY <1>2, <1>6, <1>7, <1>8, <1>10
  <1> QED  BY <1>9, <1>10, <1>11, <1>12 DEF Apply

(* The rows of one account among a set of positions.                          *)
StreamOf(S, a) == [e \in {f \in S : Log[f].account = a} |-> Log[e].event]

(* The balances of a set of events, one of them applied last.                 *)
LEMMA FoldAllOne ==
  ASSUME NEW S, S \subseteq Position, NEW e \in Position, e \notin S
  PROVE  FoldAll(S \cup {e}) = BalancesAfter(FoldAll(S), Log[e])
  <1> DEFINE a == Log[e].account
             ev == Log[e].event
             U == S \cup {e}
             D(V) == {Log[f].account : f \in V}
  <1>1. \A V : FoldAll(V) = [b \in D(V) |-> Fold(StreamOf(V, b))]
    BY DEF FoldAll, StreamOf
  <1>2. D(U) = D(S) \cup {a}
    OBVIOUS
  <1>3. ASSUME NEW b, b # a PROVE StreamOf(U, b) = StreamOf(S, b)
    <2>1. {f \in U : Log[f].account = b} = {f \in S : Log[f].account = b}
      BY <1>3
    <2> QED  BY <2>1 DEF StreamOf
  <1>4. Fold(StreamOf(U, a)) = Apply(Fold(StreamOf(S, a)), ev)
    <2> DEFINE T == {f \in S : Log[f].account = a}
               s == StreamOf(S, a)
               u == StreamOf(U, a)
    <2>1. {f \in U : Log[f].account = a} = T \cup {e}
      OBVIOUS
    <2>2. DOMAIN s = T /\ DOMAIN u = T \cup {e} /\ u[e] = ev /\ \A i \in T : u[i] = s[i]
      BY <2>1 DEF StreamOf
    <2>3. \A i \in T \cup {e} : u[i] = Log[i].event /\ i \in Position
      BY <2>1 DEF StreamOf
    <2>4. \A i \in T \cup {e} : u[i].type \in EventType /\ u[i].amount \in Int
      BY <2>3, FeedShape
    <2>5. IsFiniteSet(T) /\ e \notin T
      <3>1. T \subseteq Position
        OBVIOUS
      <3> QED  BY <3>1, FeedShape, FS_Subset
    <2> HIDE DEF T, s, u
    <2>6. Fold(u) = Apply(Fold(s), u[e])
      <3>1. DOMAIN s = T /\ DOMAIN u = T \cup {e} /\ \A i \in T : u[i] = s[i]
        BY <2>2
      <3>2. IsFiniteSet(T)
        BY <2>5
      <3>3. e \notin T
        BY <2>5
      <3> HIDE DEF a, ev, U, D
      <3> QED  BY <2>4, <3>1, <3>2, <3>3, FoldOne
    <2> QED  BY <2>2, <2>6 DEF s, u
  <1>5. ASSUME a \notin D(S) PROVE Fold(StreamOf(S, a)) = Zero
    <2>1. DOMAIN StreamOf(S, a) = {}
      BY <1>5 DEF StreamOf
    <2> QED  BY <2>1, FoldNone
  <1> DEFINE old == InsertOrIgnore(FoldAll(S), a, Zero)
  <1>6. old[a] = Fold(StreamOf(S, a))
    BY <1>1, <1>5 DEF InsertOrIgnore, Put
  <1>7. BalancesAfter(FoldAll(S), Log[e]) = Put(FoldAll(S), a, Apply(old[a], ev))
    BY DEF BalancesAfter, Zero
  <1> HIDE DEF old, ev
  <1>8. BalancesAfter(FoldAll(S), Log[e])
          = [b \in D(S) \cup {a} |-> IF b = a THEN Fold(StreamOf(U, a)) ELSE Fold(StreamOf(S, b))]
    BY <1>1, <1>4, <1>6, <1>7 DEF Put
  <1>9. \A b \in D(U) : (IF b = a THEN Fold(StreamOf(U, a)) ELSE Fold(StreamOf(S, b)))
                           = Fold(StreamOf(U, b))
    BY <1>3
  <1> HIDE DEF D, U, a
  <1> QED  BY <1>1, <1>2, <1>8, <1>9 DEF U

(* The events of a set that move money, their set's id and their leg.         *)
Moves(S)  == {e \in S : HasTransferRow(Log[e])}
Gid(e)    == Log[e].event.group
KindOf(e) == Kind(Log[e].event.type)
LegKey(e) == <<Gid(e), Log[e].account>>
LegRow(e) == [amount |-> Log[e].event.amount, direction |-> Direction(Log[e].event.type)]

(* transfer_legs holds exactly the legs of the events in S.                   *)
LegsIn(table, S) ==
  /\ table = [k \in {LegKey(e) : e \in Moves(S)} |-> table[k]]
  /\ \A e \in Moves(S) : table[LegKey(e)] = LegRow(e)

(* The strongest kind of a set's legs.                                        *)
Strongest(kinds) ==
  IF "reversal" \in kinds THEN "reversal"
  ELSE IF "hold_posting" \in kinds THEN "hold_posting" ELSE "transfer"

Kinds(S, id) == {KindOf(e) : e \in {f \in Moves(S) : Gid(f) = id}}

(* transfers holds the sets of the events in S, each with the strongest kind  *)
(* of its legs and the set it reverts.                                        *)
TransfersIn(table, S) ==
  /\ DOMAIN table = {Gid(e) : e \in Moves(S)}
  /\ \A id \in DOMAIN table : /\ DOMAIN table[id] = {"kind", "reverts", "revertedBy"}
                              /\ table[id].kind = Strongest(Kinds(S, id))
  /\ \A e \in Moves(S) : table[Gid(e)].reverts = Log[e].event.reverts

(* The tables, holds and marks aside, are those of the events in S.           *)
Projected(t, S) ==
  /\ t.balances = FoldAll(S)
  /\ LegsIn(t.legs, S)
  /\ TransfersIn(t.transfers, S)

(* Among the events of the feed, a set and an account name one leg.           *)
LEMMA OneLeg ==
  \A e, f \in Moves(Position) :
    Gid(e) = Gid(f) => /\ Log[e].account = Log[f].account => e = f
                       /\ Log[e].event.reverts = Log[f].event.reverts
  BY FeedAssumption, FeedShape, Zenon DEF MovesOnce, Moves, Gid

(* The kinds of movements.                                                    *)
LEMMA KindsOf == \A e \in Moves(Position) : KindOf(e) \in {"transfer", "hold_posting", "reversal"}
  BY DEF Moves, HasTransferRow, KindOf, Kind

(* One more leg.                                                              *)
LEMMA LegsOne ==
  ASSUME NEW S, S \subseteq Position, NEW e \in Position, e \notin S,
         NEW table, LegsIn(table, S)
  PROVE  LegsIn(LegsAfter(table, Log[e]), S \cup {e})
  <1>1. CASE ~HasTransferRow(Log[e])
    <2>1. Moves(S \cup {e}) = Moves(S)
      BY <1>1 DEF Moves
    <2>2. LegsAfter(table, Log[e]) = table
      BY <1>1 DEF LegsAfter
    <2> QED  BY <2>1, <2>2 DEF LegsIn
  <1>2. CASE HasTransferRow(Log[e])
    <2> DEFINE K == {LegKey(f) : f \in Moves(S)}
               k == LegKey(e)
    <2>1. Moves(S \cup {e}) = Moves(S) \cup {e}
      BY <1>2 DEF Moves
    <2>2. Moves(S) \subseteq Moves(Position) /\ e \in Moves(Position) /\ e \notin Moves(S)
      BY <1>2 DEF Moves
    <2>3. \A f \in Moves(S) : LegKey(f) # k
      <3> SUFFICES ASSUME NEW f \in Moves(S), LegKey(f) = k PROVE FALSE
        OBVIOUS
      <3>1. Gid(f) = Gid(e) /\ Log[f].account = Log[e].account
        BY DEF LegKey
      <3> QED  BY <2>2, <3>1, OneLeg
    <2>4. k \notin DOMAIN table /\ DOMAIN table = K
      BY <2>3 DEF LegsIn
    <2>5. LegsAfter(table, Log[e]) = Put(table, k, LegRow(e))
      BY <1>2, <2>4 DEF LegsAfter, InsertOrIgnore, LegKey, LegRow, Gid
    <2>6. {LegKey(f) : f \in Moves(S \cup {e})} = K \cup {k}
      BY <2>1
    <2> DEFINE new == LegsAfter(table, Log[e])
    <2>7. new = [j \in K \cup {k} |-> IF j = k THEN LegRow(e) ELSE table[j]]
      BY <2>4, <2>5 DEF Put
    <2>8. \A f \in Moves(S) : LegKey(f) \in K
      OBVIOUS
    <2> HIDE DEF new, k, K
    <2>9. new = [j \in {LegKey(f) : f \in Moves(S \cup {e})} |-> new[j]]
      BY <2>6, <2>7
    <2>10. \A f \in Moves(S) : new[LegKey(f)] = LegRow(f)
      BY <2>3, <2>7, <2>8 DEF LegsIn
    <2>11. new[LegKey(e)] = LegRow(e)
      BY <2>7 DEF k
    <2> QED  BY <2>1, <2>9, <2>10, <2>11 DEF LegsIn, new
  <1> QED  BY <1>1, <1>2

(* One more leg's set: its kind is upgraded, what it reverts stays.           *)
LEMMA TransfersOne ==
  ASSUME NEW S, S \subseteq Position, NEW e \in Position, e \notin S,
         NEW table, TransfersIn(table, S)
  PROVE  TransfersIn(TransfersAfter(table, Log[e]), S \cup {e})
  <1> DEFINE U == S \cup {e}
  <1>1. CASE ~HasTransferRow(Log[e])
    <2>1. Moves(U) = Moves(S)
      BY <1>1 DEF Moves
    <2>2. TransfersAfter(table, Log[e]) = table
      BY <1>1 DEF TransfersAfter
    <2> QED  BY <2>1, <2>2 DEF TransfersIn, Kinds
  <1>2. CASE HasTransferRow(Log[e])
    <2> DEFINE g == Gid(e)
               k == KindOf(e)
               ev == Log[e].event
               new == [kind |-> k, reverts |-> ev.reverts, revertedBy |-> NoId]
               old == IF g \in DOMAIN table THEN table[g] ELSE new
               rows == Put(table, g, [old EXCEPT !.kind = StrongerKind(@, k)])
               res == TransfersAfter(table, Log[e])
    <2>1. Moves(U) = Moves(S) \cup {e}
      BY <1>2 DEF Moves
    <2>2. Moves(S) \subseteq Moves(Position) /\ e \in Moves(Position) /\ e \notin Moves(S)
      BY <1>2 DEF Moves
    <2>3. k \in {"transfer", "hold_posting", "reversal"}
      BY <2>2, KindsOf
    <2>4. InsertOrIgnore(table, g, new)[g] = old
      BY DEF InsertOrIgnore, Put
    <2>5. res = IF ev.reverts \in DOMAIN rows /\ rows[ev.reverts].revertedBy = NoId
                THEN Put(rows, ev.reverts, [rows[ev.reverts] EXCEPT !.revertedBy = g])
                ELSE rows
      BY <1>2, <2>4 DEF TransfersAfter, Gid, KindOf
    <2>6. DOMAIN old = {"kind", "reverts", "revertedBy"} /\ old.reverts = ev.reverts
      <3>1. CASE g \in DOMAIN table
        <4>1. PICK f \in Moves(S) : Gid(f) = g
          BY <3>1 DEF TransfersIn
        <4>2. table[g].reverts = Log[f].event.reverts
          BY <4>1 DEF TransfersIn
        <4>3. Log[f].event.reverts = ev.reverts
          BY <2>2, <4>1, OneLeg
        <4> QED  BY <3>1, <4>2, <4>3 DEF TransfersIn
      <3>2. CASE g \notin DOMAIN table
        BY <3>2
      <3> QED  BY <3>1, <3>2
    <2>7. Strongest(Kinds(U, g)) = StrongerKind(old.kind, k)
      <3>1. Kinds(U, g) = Kinds(S, g) \cup {k}
        BY <2>1 DEF Kinds
      <3>2. CASE g \in DOMAIN table
        <4>1. old.kind = Strongest(Kinds(S, g))
          BY <3>2 DEF TransfersIn
        <4> QED  BY <2>3, <3>1, <4>1 DEF Strongest, StrongerKind
      <3>3. CASE g \notin DOMAIN table
        <4>1. Kinds(S, g) = {}
          BY <3>3 DEF TransfersIn, Kinds
        <4> QED  BY <2>3, <3>1, <3>3, <4>1 DEF Strongest, StrongerKind
      <3> QED  BY <3>2, <3>3
    <2>8. \A id : id # g => Kinds(U, id) = Kinds(S, id)
      BY <2>1 DEF Kinds
    <2> HIDE DEF old, new
    <2> DEFINE row == [old EXCEPT !.kind = StrongerKind(@, k)]
    <2>9. /\ DOMAIN row = {"kind", "reverts", "revertedBy"}
          /\ row.kind = Strongest(Kinds(U, g)) /\ row.reverts = ev.reverts
      BY <2>6, <2>7
    <2> HIDE DEF row
    <2>10. rows = [id \in DOMAIN table \cup {g} |-> IF id = g THEN row ELSE table[id]]
      BY DEF Put, row
    <2>11. \A id \in DOMAIN rows : /\ DOMAIN rows[id] = {"kind", "reverts", "revertedBy"}
                                   /\ rows[id].kind = Strongest(Kinds(U, id))
                                   /\ rows[id].reverts = IF id = g THEN ev.reverts
                                                                   ELSE table[id].reverts
      BY <2>8, <2>9, <2>10 DEF TransfersIn
    <2>12. DOMAIN rows = DOMAIN table \cup {g}
      BY <2>10
    <2> HIDE DEF rows, res, ev, g, k
    <2> DEFINE mark == [rows[ev.reverts] EXCEPT !.revertedBy = g]
    <2>13. ev.reverts \in DOMAIN rows =>
              /\ DOMAIN mark = DOMAIN rows[ev.reverts]
              /\ mark.kind = rows[ev.reverts].kind /\ mark.reverts = rows[ev.reverts].reverts
      BY <2>11
    <2> HIDE DEF mark
    <2>14. /\ DOMAIN res = DOMAIN rows
           /\ \A id \in DOMAIN rows : /\ DOMAIN res[id] = DOMAIN rows[id]
                                      /\ res[id].kind = rows[id].kind
                                      /\ res[id].reverts = rows[id].reverts
      <3>1. CASE ev.reverts \in DOMAIN rows /\ rows[ev.reverts].revertedBy = NoId
        <4>1. res = Put(rows, ev.reverts, mark)
          BY <2>5, <3>1 DEF mark
        <4> QED  BY <2>13, <3>1, <4>1 DEF Put
      <3>2. CASE ~(ev.reverts \in DOMAIN rows /\ rows[ev.reverts].revertedBy = NoId)
        BY <2>5, <3>2
      <3> QED  BY <3>1, <3>2
    <2>15. DOMAIN res = {Gid(f) : f \in Moves(U)}
      <3>1. {Gid(f) : f \in Moves(U)} = {Gid(f) : f \in Moves(S)} \cup {Gid(e)}
        BY <2>1
      <3> QED  BY <2>12, <2>14, <3>1 DEF TransfersIn, g
    <2>16. ASSUME NEW f \in Moves(U) PROVE res[Gid(f)].reverts = Log[f].event.reverts
      <3>1. Gid(f) \in DOMAIN rows
        BY <2>14, <2>15
      <3>2. CASE Gid(f) = g
        <4>1. f \in Moves(Position)
          BY <2>1, <2>2
        <4>2. Log[f].event.reverts = ev.reverts
          BY <2>2, <3>2, <4>1, OneLeg DEF g, ev
        <4> QED  BY <2>11, <2>14, <3>1, <3>2, <4>2
      <3>3. CASE Gid(f) # g
        <4>1. f \in Moves(S)
          BY <2>1, <3>3 DEF g
        <4> QED  BY <2>11, <2>14, <3>1, <3>3, <4>1 DEF TransfersIn
      <3> QED  BY <3>2, <3>3
    <2>17. \A id \in DOMAIN res : /\ DOMAIN res[id] = {"kind", "reverts", "revertedBy"}
                                  /\ res[id].kind = Strongest(Kinds(U, id))
      BY <2>11, <2>14
    <2> QED  BY <2>15, <2>16, <2>17 DEF TransfersIn, res
  <1> QED  BY <1>1, <1>2

(* Nothing applied, nothing there.                                            *)
LEMMA ProjectedNone == Projected(EmptyTables, {})
  <1>1. FoldAll({}) = EmptyTable
    BY DEF FoldAll, EmptyTable
  <1>2. Moves({}) = {}
    BY DEF Moves
  <1>3. LegsIn(EmptyTable, {}) /\ TransfersIn(EmptyTable, {})
    BY <1>2 DEF LegsIn, TransfersIn, EmptyTable
  <1> QED  BY <1>1, <1>3 DEF Projected, EmptyTables

(* Applied to the tables of S, an event gives the tables of S and the event:  *)
(* in whatever order they come, the same tables.                              *)
LEMMA ProjectedOne ==
  ASSUME NEW S, S \subseteq Position, NEW e \in Position, e \notin S,
         NEW t, Projected(t, S)
  PROVE  Projected(ApplyRow(t, Log[e]), S \cup {e})
  <1>1. /\ ApplyRow(t, Log[e]).balances = BalancesAfter(t.balances, Log[e])
        /\ ApplyRow(t, Log[e]).legs = LegsAfter(t.legs, Log[e])
        /\ ApplyRow(t, Log[e]).transfers = TransfersAfter(t.transfers, Log[e])
    BY DEF ApplyRow
  <1> QED  BY <1>1, FoldAllOne, LegsOne, TransfersOne DEF Projected

-----------------------------------------------------------------------------
(* The tables of the feed, applied in its order *)

Feeds(g) ==
  g = [t \in SUBSET DOMAIN Log |->
         IF t = {} THEN EmptyTables ELSE ApplyRow(g[t \ {Max(t)}], Log[Max(t)])]

Built(m) == (CHOOSE g : Feeds(g))[1..m]

(* What ProjectFeed unfolds to.                                               *)
LEMMA BuiltAll == ProjectFeed(Log) = Built(Len(Log))
  <1>1. ProjectFeed(Log) = (CHOOSE g : Feeds(g))[DOMAIN Log]
    BY DEF ProjectFeed, FoldLeft, MapThenFoldSet, Feeds
  <1> QED  BY <1>1, FeedShape DEF Built

(* g is the recursive function on the sets of at most n positions.            *)
FeedsUpto(n, g) ==
  \A t \in Upto(DOMAIN Log, n) :
    g[t] = IF t = {} THEN EmptyTables ELSE ApplyRow(g[t \ {Max(t)}], Log[Max(t)])

(* From n positions to n + 1.                                                 *)
LEMMA FeedsStep ==
  ASSUME NEW n \in Nat, NEW g, FeedsUpto(n, g)
  PROVE  \E h : FeedsUpto(n + 1, h)
  <1> DEFINE D == DOMAIN Log
             F(k, t) == IF t = {} THEN EmptyTables ELSE ApplyRow(k[t \ {Max(t)}], Log[Max(t)])
             h == [t \in Upto(D, n + 1) |-> F(g, t)]
  <1>1. ASSUME NEW t \in Upto(D, n + 1), t # {}
        PROVE  t \ {Max(t)} \in Upto(D, n)
    <2>1. t \subseteq D /\ IsFiniteSet(t) /\ Cardinality(t) \in Nat /\ Cardinality(t) <= n + 1
      BY FeedShape, FS_Subset, FS_CardinalityType DEF Upto
    <2>2. Max(t) \in t
      BY <1>1, <2>1, FeedShape, MaxIn
    <2>3. Cardinality(t \ {Max(t)}) = Cardinality(t) - 1
      BY <2>1, <2>2, FS_RemoveElement
    <2> QED  BY <2>1, <2>3 DEF Upto
  <1>2. \A t \in Upto(D, n) : t \in Upto(D, n + 1)
    <2> TAKE t \in Upto(D, n)
    <2>1. Cardinality(t) \in Nat
      BY FeedShape, FS_Subset, FS_CardinalityType DEF Upto
    <2> QED  BY <2>1 DEF Upto
  <1>3. \A t \in Upto(D, n) : h[t] = g[t]
    BY <1>2 DEF FeedsUpto
  <1>4. \A t \in Upto(D, n + 1) : h[t] = F(h, t)
    BY <1>1, <1>3
  <1> HIDE DEF h
  <1> QED  BY <1>4 DEF FeedsUpto

(* So the function exists.                                                    *)
LEMMA FeedsExists == \E g : Feeds(g)
  <1> DEFINE D == DOMAIN Log
             N == Cardinality(D)
             T == {n \in Nat : ~\E g : FeedsUpto(n, g)}
  <1>1. T = {}
    <2> SUFFICES ASSUME T # {} PROVE FALSE
      OBVIOUS
    <2>1. T \subseteq Nat
      OBVIOUS
    <2>2. PICK n \in T : \A k \in T : n <= k
      BY <2>1, LeastNat
    <2>3. n # 0
      <3> DEFINE z == [t \in Upto(D, 0) |-> EmptyTables]
      <3>1. \A t \in Upto(D, 0) : t = {}
        BY FeedShape, FS_Subset, FS_EmptySet, FS_CardinalityType DEF Upto
      <3>2. FeedsUpto(0, z)
        BY <3>1 DEF FeedsUpto
      <3> QED  BY <3>2
    <2>4. n - 1 \in Nat /\ n - 1 \notin T
      BY <2>1, <2>2, <2>3
    <2>5. PICK g : FeedsUpto(n - 1, g)
      BY <2>4
    <2>6. \E h : FeedsUpto((n - 1) + 1, h)
      BY <2>4, <2>5, FeedsStep
    <2>7. (n - 1) + 1 = n
      BY <2>1
    <2> QED  BY <2>6, <2>7
  <1>2. N \in Nat /\ IsFiniteSet(D)
    BY FeedShape, FS_CardinalityType
  <1>3. PICK g : FeedsUpto(N, g)
    BY <1>1, <1>2
  <1>4. Upto(D, N) = SUBSET D
    <2>1. \A t \in SUBSET D : Cardinality(t) <= N
      BY <1>2, FS_Subset
    <2> QED  BY <2>1 DEF Upto
  <1> DEFINE h == [t \in SUBSET D |-> g[t]]
  <1>5. \A t \in SUBSET D :
          h[t] = IF t = {} THEN EmptyTables ELSE ApplyRow(h[t \ {Max(t)}], Log[Max(t)])
    <2> TAKE t \in SUBSET D
    <2>1. t \ {Max(t)} \in SUBSET D
      OBVIOUS
    <2> QED  BY <1>3, <1>4, <2>1 DEF FeedsUpto
  <1>6. h = [t \in SUBSET D |-> h[t]]
    OBVIOUS
  <1> HIDE DEF h
  <1>7. Feeds(h)
    BY <1>5, <1>6 DEF Feeds
  <1> QED  BY <1>7

(* The feed's tables, one row after another.                                  *)
LEMMA BuiltStep ==
  /\ Built(0) = EmptyTables
  /\ \A m \in Position : Built(m) = ApplyRow(Built(m - 1), Log[m])
  <1> DEFINE g == CHOOSE h : Feeds(h)
  <1>1. Feeds(g)
    BY FeedsExists
  <1>2. \A m : Built(m) = g[1..m]
    BY DEF Built
  <1> HIDE DEF g
  <1>3. \A t \in SUBSET DOMAIN Log :
          g[t] = IF t = {} THEN EmptyTables ELSE ApplyRow(g[t \ {Max(t)}], Log[Max(t)])
    BY <1>1 DEF Feeds
  <1>4. Built(0) = EmptyTables
    <2>1. 1..0 = {} /\ {} \in SUBSET DOMAIN Log
      OBVIOUS
    <2> QED  BY <1>2, <1>3, <2>1
  <1>5. ASSUME NEW m \in Position PROVE Built(m) = ApplyRow(Built(m - 1), Log[m])
    <2>1. Len(Log) \in Nat /\ DOMAIN Log = 1..Len(Log) /\ m \in 1..Len(Log)
      BY FeedShape
    <2>2. m \in Nat /\ m \in 1..m /\ 1..m \subseteq DOMAIN Log
      BY <2>1
    <2>3. Max(1..m) \in 1..m /\ \A y \in 1..m : y <= Max(1..m)
      <3>1. 1..m \subseteq 1..m /\ 1..m # {}
        BY <2>2
      <3> QED  BY <2>2, <3>1, MaxIn
    <2>4. Max(1..m) = m
      BY <2>2, <2>3
    <2>5. (1..m) \ {m} = 1..(m - 1)
      BY <2>2
    <2>6. g[1..m] = ApplyRow(g[(1..m) \ {m}], Log[m])
      BY <1>3, <2>2, <2>4
    <2> QED  BY <1>2, <2>5, <2>6
  <1> QED  BY <1>4, <1>5

(* Those tables are the tables of the rows so far.                            *)
LEMMA BuiltProjected == \A m \in 0..Len(Log) : Projected(Built(m), 1..m)
  <1> DEFINE T == {m \in 0..Len(Log) : ~Projected(Built(m), 1..m)}
  <1> SUFFICES ASSUME T # {} PROVE FALSE
    OBVIOUS
  <1>1. T \subseteq Nat /\ Len(Log) \in Nat
    BY FeedShape
  <1>2. PICK m \in T : \A k \in T : m <= k
    BY <1>1, LeastNat
  <1>3. m # 0
    <2>1. 1..0 = {}
      OBVIOUS
    <2> QED  BY <1>2, <2>1, BuiltStep, ProjectedNone
  <1>4. m \in Position /\ m \in Nat /\ m - 1 \in 0..Len(Log) /\ m - 1 \notin T
    BY <1>1, <1>2, <1>3 DEF Position
  <1>5. Projected(Built(m - 1), 1..(m - 1))
    BY <1>4
  <1>6. 1..(m - 1) \subseteq Position /\ m \notin 1..(m - 1) /\ 1..(m - 1) \cup {m} = 1..m
    BY <1>1, <1>4 DEF Position
  <1>7. Projected(ApplyRow(Built(m - 1), Log[m]), 1..(m - 1) \cup {m})
    BY <1>4, <1>5, <1>6, ProjectedOne
  <1>8. Built(m) = ApplyRow(Built(m - 1), Log[m])
    BY <1>4, BuiltStep
  <1> QED  BY <1>6, <1>7, <1>8

-----------------------------------------------------------------------------
(* The holds of the feed, applied in its order *)

Placed(e) == Log[e].event.type = "HoldPlaced"

(* The events that end a hold's row.                                          *)
Ends(e) ==
  \/ Log[e].event.type = "HoldPosted"
  \/ Log[e].event.type = "HoldReleased" /\ Log[e].event.reason # "partial"

(* The holds placed among the first m rows; open are those that nothing ended.*)
HoldsIn(table, m) ==
  /\ DOMAIN table = {Gid(e) : e \in {f \in 1..m : Placed(f)}}
  /\ \A h \in DOMAIN table :
       /\ "state" \in DOMAIN table[h]
       /\ (table[h].state = "open") <=> ~\E e \in 1..m : Ends(e) /\ Gid(e) = h

(* One more row.                                                              *)
LEMMA HoldsOne ==
  ASSUME NEW m \in Position, NEW table, HoldsIn(table, m - 1)
  PROVE  HoldsIn(HoldsAfter(table, Log[m]), m)
  <1> DEFINE g == Gid(m)
             ev == Log[m].event
             new == HoldsAfter(table, Log[m])
             row == [source |-> Log[m].account, target |-> ev.counterparty,
                     amount |-> ev.amount, expires |-> ev.expires, state |-> "open"]
  <1>1. Len(Log) \in Nat /\ m \in 1..Len(Log) /\ DOMAIN Log = 1..Len(Log)
    BY FeedShape DEF Position
  <1>2. 1..m = 1..(m - 1) \cup {m} /\ \A e \in 1..(m - 1) : e \in DOMAIN Log /\ e < m
    BY <1>1
  <1>3. CASE Placed(m)
    <2>1. \A e \in 1..(m - 1) : Gid(e) = g => ~Placed(e) /\ Log[e].event.type # "HoldPosted"
                                                 /\ Log[e].event.type # "HoldReleased"
      BY <1>1, <1>2, <1>3, FeedAssumption DEF HoldsInOrder, Settles, Placed, Gid
    <2>2. ~Ends(m)
      BY <1>3 DEF Ends, Placed
    <2>3. g \notin DOMAIN table
      BY <2>1 DEF HoldsIn
    <2>4. new = Put(table, g, row)
      BY <1>3, <2>3 DEF HoldsAfter, InsertOrIgnore, Placed, Gid
    <2>5. {Gid(e) : e \in {f \in 1..m : Placed(f)}}
            = {Gid(e) : e \in {f \in 1..(m - 1) : Placed(f)}} \cup {g}
      BY <1>2, <1>3
    <2>6. "state" \in DOMAIN row /\ row.state = "open"
      OBVIOUS
    <2> HIDE DEF row, new
    <2>7. new = [h \in DOMAIN table \cup {g} |-> IF h = g THEN row ELSE table[h]]
      BY <2>4 DEF Put
    <2>8. DOMAIN new = {Gid(e) : e \in {f \in 1..m : Placed(f)}}
      BY <2>5, <2>7 DEF HoldsIn
    <2>9. ASSUME NEW h \in DOMAIN new
          PROVE  /\ "state" \in DOMAIN new[h]
                 /\ (new[h].state = "open") <=> ~\E e \in 1..m : Ends(e) /\ Gid(e) = h
      <3>1. (\E e \in 1..m : Ends(e) /\ Gid(e) = h)
              <=> \E e \in 1..(m - 1) : Ends(e) /\ Gid(e) = h
        BY <1>2, <2>2
      <3>2. CASE h = g
        <4>1. ~\E e \in 1..(m - 1) : Ends(e) /\ Gid(e) = h
          BY <2>1, <3>2 DEF Ends
        <4> QED  BY <2>6, <2>7, <3>1, <3>2, <4>1
      <3>3. CASE h # g
        <4>1. h \in DOMAIN table /\ new[h] = table[h]
          BY <2>7, <3>3
        <4> QED  BY <3>1, <4>1 DEF HoldsIn
      <3> QED  BY <3>2, <3>3
    <2> QED  BY <2>8, <2>9 DEF HoldsIn, new
  <1>4. CASE ~Placed(m)
    <2>1. {Gid(e) : e \in {f \in 1..m : Placed(f)}}
            = {Gid(e) : e \in {f \in 1..(m - 1) : Placed(f)}}
      BY <1>2, <1>4
    <2>2. CASE ~Ends(m)
      <3>1. new = table
        BY <1>4, <2>2 DEF HoldsAfter, Placed, Ends
      <3>2. \A h : (\E e \in 1..m : Ends(e) /\ Gid(e) = h)
                     <=> \E e \in 1..(m - 1) : Ends(e) /\ Gid(e) = h
        BY <1>2, <2>2
      <3> HIDE DEF new
      <3>3. HoldsIn(new, m)
        BY <2>1, <3>1, <3>2 DEF HoldsIn
      <3> QED  BY <3>3 DEF new
    <2>3. CASE Ends(m)
      <3> DEFINE s == IF ev.type = "HoldPosted" THEN "posted" ELSE ev.reason
                 close == [table[g] EXCEPT !.state = s]
      <3>1. s # "open"
        <4>1. ev.type = "HoldReleased" => ev.reason \in {"voided", "expired", "partial"}
          <5>1. ValidEvent(Log[m].account, ev)
            BY FeedShape
          <5> QED  BY <5>1 DEF ValidEvent, ValidHoldEvent
        <4> QED  BY <2>3, <4>1 DEF Ends
      <3>2. new = IF g \in DOMAIN table THEN Put(table, g, close) ELSE table
        BY <1>4, <2>3 DEF HoldsAfter, Ends, Placed, Gid
      <3>3. g \in DOMAIN table => "state" \in DOMAIN close /\ close.state = s
        BY DEF HoldsIn
      <3> HIDE DEF close, new, s
      <3>4. DOMAIN new = DOMAIN table
        BY <3>2 DEF Put
      <3>5. ASSUME NEW h \in DOMAIN new
            PROVE  /\ "state" \in DOMAIN new[h]
                   /\ (new[h].state = "open") <=> ~\E e \in 1..m : Ends(e) /\ Gid(e) = h
        <4>1. CASE h = g
          <5>1. new[h] = close
            BY <3>2, <3>4, <4>1 DEF Put
          <5> QED  BY <1>2, <2>3, <3>1, <3>3, <3>4, <4>1, <5>1
        <4>2. CASE h # g
          <5>1. new[h] = table[h] /\ h \in DOMAIN table
            BY <3>2, <3>4, <4>2 DEF Put
          <5>2. (\E e \in 1..m : Ends(e) /\ Gid(e) = h)
                  <=> \E e \in 1..(m - 1) : Ends(e) /\ Gid(e) = h
            BY <1>2, <4>2
          <5> QED  BY <5>1, <5>2 DEF HoldsIn
        <4> QED  BY <4>1, <4>2
      <3>6. HoldsIn(new, m)
        BY <2>1, <3>4, <3>5 DEF HoldsIn
      <3> QED  BY <3>6 DEF new
    <2> QED  BY <2>2, <2>3
  <1> QED  BY <1>3, <1>4

(* The holds the read model shows open are those the log has open.            *)
LEMMA BuiltHolds == \A m \in 0..Len(Log) : HoldsIn(Built(m).holds, m)
  <1> DEFINE T == {m \in 0..Len(Log) : ~HoldsIn(Built(m).holds, m)}
  <1> SUFFICES ASSUME T # {} PROVE FALSE
    OBVIOUS
  <1>1. T \subseteq Nat /\ Len(Log) \in Nat
    BY FeedShape
  <1>2. PICK m \in T : \A k \in T : m <= k
    BY <1>1, LeastNat
  <1>3. m # 0
    <2>1. HoldsIn(EmptyTable, 0)
      BY DEF HoldsIn, EmptyTable
    <2>2. Built(0).holds = EmptyTable
      BY BuiltStep DEF EmptyTables
    <2> QED  BY <1>2, <2>1, <2>2
  <1>4. m \in Position /\ m - 1 \in 0..Len(Log) /\ m - 1 \notin T
    BY <1>1, <1>2, <1>3 DEF Position
  <1>5. HoldsIn(HoldsAfter(Built(m - 1).holds, Log[m]), m)
    BY <1>4, HoldsOne
  <1>6. Built(m).holds = HoldsAfter(Built(m - 1).holds, Log[m])
    <2>1. Built(m) = ApplyRow(Built(m - 1), Log[m])
      BY <1>4, BuiltStep
    <2> QED  BY <2>1 DEF ApplyRow
  <1> QED  BY <1>2, <1>5, <1>6

(* And so says the drill's own reading of the log.                            *)
LEMMA BuiltOpenHolds ==
  ASSUME NEW m \in 0..Len(Log)
  PROVE  OpenHoldIds(Built(m)) = OpenHoldsInLog(SubSeq(Log, 1, m))
  <1> DEFINE rows == SubSeq(Log, 1, m)
             Ids(types) == {rows[i].event.group :
                              i \in {j \in DOMAIN rows : rows[j].event.type \in types}}
  <1>1. Len(Log) \in Nat /\ DOMAIN Log = 1..Len(Log) /\ m \in Nat /\ m <= Len(Log)
    BY FeedShape
  <1>2. DOMAIN rows = 1..m /\ \A i \in 1..m : rows[i] = Log[i]
    <2>1. 1 \in 1..(Len(Log) + 1) /\ m \in (1 - 1)..Len(Log)
      BY <1>1
    <2>2. /\ rows \in Seq(Range(Log)) /\ Len(rows) = (IF 1 <= m THEN m - 1 + 1 ELSE 0)
          /\ \A i \in 1..(m - 1 + 1) : rows[i] = Log[1 + i - 1]
      BY <2>1, FeedAssumption, SubSeqProperties
    <2>3. DOMAIN rows = 1..Len(rows)
      BY <2>2, LenProperties
    <2>4. m - 1 + 1 = m /\ (IF 1 <= m THEN m - 1 + 1 ELSE 0) = m /\ \A i \in 1..m : 1 + i - 1 = i
      BY <1>1
    <2> HIDE DEF rows
    <2> QED  BY <2>2, <2>3, <2>4
  <1> HIDE DEF rows
  <1>3. \A types : Ids(types) = {Gid(i) : i \in {j \in 1..m : Log[j].event.type \in types}}
    BY <1>2 DEF Gid
  <1>4. OpenHoldsInLog(SubSeq(Log, 1, m))
          = Ids({"HoldPlaced"}) \ Ids({"HoldPosted", "HoldReleased"})
    BY DEF OpenHoldsInLog, rows
  <1>5. HoldsIn(Built(m).holds, m)
    BY BuiltHolds
  <1>6. Ids({"HoldPlaced"}) = DOMAIN Built(m).holds
    BY <1>3, <1>5 DEF HoldsIn, Placed
  <1>7. Ids({"HoldPosted", "HoldReleased"}) = {Gid(e) : e \in {f \in 1..m : Ends(f)}}
    <2> DEFINE E == {Gid(e) : e \in {f \in 1..m : Ends(f)}}
               I == {Gid(i) : i \in {j \in 1..m : Log[j].event.type \in
                                                  {"HoldPosted", "HoldReleased"}}}
    <2>1. ASSUME NEW h \in E PROVE h \in I
      BY <2>1 DEF Ends
    <2>2. ASSUME NEW h \in I PROVE h \in E
      <3>1. PICK i \in 1..m : Log[i].event.type \in {"HoldPosted", "HoldReleased"} /\ h = Gid(i)
        BY <2>2
      <3>2. CASE Ends(i)
        BY <3>1, <3>2
      <3>3. CASE ~Ends(i)
        <4>1. Log[i].event.type = "HoldReleased" /\ Log[i].event.reason = "partial"
          BY <3>1, <3>3 DEF Ends
        <4>2. i \in DOMAIN Log
          BY <1>1
        <4>3. PICK e \in DOMAIN Log : Settles(e, i) /\ Log[e].event.type = "HoldPosted"
          BY <4>1, <4>2, FeedAssumption DEF HoldsInOrder
        <4>4. e \in 1..m /\ Gid(e) = h /\ Ends(e)
          BY <1>1, <3>1, <4>3 DEF Settles, Ends, Gid
        <4> QED  BY <4>4
      <3> QED  BY <3>2, <3>3
    <2>3. I = Ids({"HoldPosted", "HoldReleased"})
      BY <1>3
    <2> HIDE DEF E, I
    <2>4. E = I
      BY <2>1, <2>2
    <2> QED  BY <2>3, <2>4 DEF E
  <1> HIDE DEF Ids
  <1>8. OpenHoldIds(Built(m))
          = {h \in DOMAIN Built(m).holds : ~\E e \in 1..m : Ends(e) /\ Gid(e) = h}
    BY <1>5 DEF OpenHoldIds, HoldsIn
  <1> QED  BY <1>4, <1>6, <1>7, <1>8

-----------------------------------------------------------------------------
(* The invariant *)

File(claims, letters, offset, tables, applied, ordered) ==
  [claims |-> claims, letters |-> letters, offset |-> offset, tables |-> tables,
   applied |-> applied, ordered |-> ordered]

IsFile(f) == f = File(f.claims, f.letters, f.offset, f.tables, f.applied, f.ordered)

(* What a file holds: a prefix of the feed claimed, the offset within it,     *)
(* and the tables of the claimed events that are not parked, each applied     *)
(* once; if they came in feed order and are all of a prefix, the very tables  *)
(* the feed builds.                                                           *)
FileOK(f, top) ==
  /\ IsFile(f)
  /\ \E n \in 0..top : f.claims = 1..n /\ f.offset \in 0..n
  /\ f.letters \subseteq f.claims
  /\ f.applied = [e \in Position |-> IF e \in Settled(f) THEN 1 ELSE 0]
  /\ Projected(f.tables, Settled(f))
  /\ f.ordered \in BOOLEAN
  /\ \A m \in 0..Len(Log) : f.ordered /\ Settled(f) = 1..m => f.tables = Built(m)

(* A consumer in a pass is at an event of its batch, and all before it are    *)
(* claimed.                                                                   *)
BatchOK(at, this, end, claims, top) ==
  /\ at \in {"poll", "apply", "park"}
  /\ at # "poll" => /\ this \in 1..end /\ end \in 1..top
                    /\ 1..(this - 1) \subseteq claims

FInv ==
  /\ head \in 0..Len(Log)
  /\ open = [p \in Conn |-> FALSE]
  /\ /\ DOMAIN pc = Consumer /\ DOMAIN next = Consumer /\ DOMAIN last = Consumer
     /\ DOMAIN letter = Operator
  /\ \A c \in Consumer : BatchOK(pc[c], next[c], last[c], db.claims, head)
  /\ \A o \in Operator : letter[o] = 0 \/ letter[o] \in db.letters
  /\ FileOK(db, head)
  /\ drills \in Nat
  /\ drills > 0 => FileOK(dump, head) /\ dump.offset = head

(* The setting of the theorems: under write-ahead logging no COMMIT fails,    *)
(* there is a consumer, and operators redrive one at a time.                  *)
Setting ==
  /\ "commit" \notin FailurePoints
  /\ Consumer # {}
  /\ \A o, p \in Operator : o = p

-----------------------------------------------------------------------------
(* What a transaction makes of a file *)

(* The positions a file speaks of.                                            *)
LEMMA FileRange ==
  ASSUME NEW top \in 0..Len(Log), NEW f, FileOK(f, top)
  PROVE  /\ f.claims \subseteq 1..top /\ f.claims \subseteq Position
         /\ Settled(f) \subseteq Position /\ f.letters \subseteq Position
         /\ f.offset \in 0..top /\ 1..f.offset \subseteq f.claims
         /\ \A e \in Position : f.applied[e] = IF e \in Settled(f) THEN 1 ELSE 0
  <1>1. Len(Log) \in Nat
    BY FeedShape
  <1>2. PICK n \in 0..top : f.claims = 1..n /\ f.offset \in 0..n
    BY DEF FileOK
  <1>3. f.claims \subseteq 1..top /\ f.claims \subseteq Position /\ f.offset \in 0..top
          /\ 1..f.offset \subseteq f.claims
    BY <1>1, <1>2 DEF Position
  <1>4. Settled(f) \subseteq Position /\ f.letters \subseteq Position
    BY <1>3 DEF FileOK, Settled
  <1> QED  BY <1>3, <1>4 DEF FileOK

Counted(applied, e)          == [applied EXCEPT ![e] = @ + 1]
InOrder(ordered, applied, e) == ordered /\ \A k \in e..Len(Log) : applied[k] = 0

(* The columns of a file.                                                     *)
LEMMA FileColumns ==
  \A c, l, o, t, a, d :
    LET f == File(c, l, o, t, a, d)
    IN  /\ f.claims = c /\ f.letters = l /\ f.offset = o
        /\ f.tables = t /\ f.applied = a /\ f.ordered = d
        /\ IsFile(f)
  BY DEF File, IsFile

(* What the statements do to them: the effects of an event.                   *)
LEMMA EffectsColumns ==
  ASSUME NEW f, IsFile(f), NEW e
  PROVE  WithEffects(f, e) = File(f.claims, f.letters, f.offset, ApplyRow(f.tables, Log[e]),
                                  Counted(f.applied, e), InOrder(f.ordered, f.applied, e))
  <1>1. DOMAIN f = {"claims", "letters", "offset", "tables", "applied", "ordered"}
    BY DEF IsFile, File
  <1> DEFINE h == WithEffects(f, e)
  <1>2. h = [f EXCEPT !.tables = ApplyRow(f.tables, Log[e]), !.applied = Counted(f.applied, e),
                      !.ordered = InOrder(f.ordered, f.applied, e)]
    BY <1>1 DEF WithEffects, Counted, InOrder
  <1> HIDE DEF h
  <1> QED  BY <1>1, <1>2 DEF File, h

(* The offset.                                                                *)
LEMMA OffsetColumns ==
  ASSUME NEW f, IsFile(f), NEW e
  PROVE  AdvanceOffset(f, e) = File(f.claims, f.letters, IF e > f.offset THEN e ELSE f.offset,
                                    f.tables, f.applied, f.ordered)
  <1>1. DOMAIN f = {"claims", "letters", "offset", "tables", "applied", "ordered"}
    BY DEF IsFile, File
  <1> QED  BY <1>1 DEF File, AdvanceOffset

(* The claim and the letter.                                                  *)
LEMMA ClaimColumns ==
  ASSUME NEW f, IsFile(f), NEW e
  PROVE  /\ [f EXCEPT !.claims = @ \cup {e}]
              = File(f.claims \cup {e}, f.letters, f.offset, f.tables, f.applied, f.ordered)
         /\ [f EXCEPT !.letters = @ \ {e}]
              = File(f.claims, f.letters \ {e}, f.offset, f.tables, f.applied, f.ordered)
         /\ [f EXCEPT !.claims = @ \cup {e}, !.letters = @ \cup {e}]
              = File(f.claims \cup {e}, f.letters \cup {e}, f.offset, f.tables, f.applied,
                     f.ordered)
  <1>1. DOMAIN f = {"claims", "letters", "offset", "tables", "applied", "ordered"}
    BY DEF IsFile, File
  <1>2. [f EXCEPT !.claims = @ \cup {e}]
          = File(f.claims \cup {e}, f.letters, f.offset, f.tables, f.applied, f.ordered)
    BY <1>1 DEF File
  <1>3. [f EXCEPT !.letters = @ \ {e}]
          = File(f.claims, f.letters \ {e}, f.offset, f.tables, f.applied, f.ordered)
    BY <1>1 DEF File
  <1>4. [f EXCEPT !.claims = @ \cup {e}, !.letters = @ \cup {e}]
          = File(f.claims \cup {e}, f.letters \cup {e}, f.offset, f.tables, f.applied, f.ordered)
    <2> SUFFICES ASSUME NEW x, NEW y
                 PROVE  [f EXCEPT !.claims = x, !.letters = y]
                          = File(x, y, f.offset, f.tables, f.applied, f.ordered)
      OBVIOUS
    <2> DEFINE w == [f EXCEPT !.claims = x, !.letters = y]
    <2>1. /\ DOMAIN w = DOMAIN f /\ w.claims = x /\ w.letters = y /\ w.offset = f.offset
          /\ w.tables = f.tables /\ w.applied = f.applied /\ w.ordered = f.ordered
          /\ w = [k \in DOMAIN w |-> w[k]]
      BY <1>1
    <2> HIDE DEF w
    <2>2. w = File(x, y, f.offset, f.tables, f.applied, f.ordered)
      BY <1>1, <2>1 DEF File
    <2> QED  BY <2>2 DEF w
  <1> QED  BY <1>2, <1>3, <1>4

(* An empty file is one.                                                      *)
LEMMA FileEmpty ==
  ASSUME NEW top \in Nat
  PROVE  FileOK(EmptyFile, top) /\ EmptyFile.claims = {} /\ EmptyFile.letters = {}
         /\ EmptyFile.offset = 0
  <1>1. /\ EmptyFile.claims = {} /\ EmptyFile.letters = {} /\ EmptyFile.offset = 0
        /\ EmptyFile.tables = EmptyTables /\ EmptyFile.applied = [e \in Position |-> 0]
        /\ EmptyFile.ordered = TRUE
    BY DEF EmptyFile
  <1>2. Settled(EmptyFile) = {}
    BY <1>1 DEF Settled
  <1>3. \E n \in 0..top : EmptyFile.claims = 1..n /\ EmptyFile.offset \in 0..n
    <2>1. 0 \in 0..top /\ 1..0 = {} /\ 0 \in 0..0
      OBVIOUS
    <2> QED  BY <1>1, <2>1
  <1>4. ASSUME NEW m \in 0..Len(Log), 1..m = {} PROVE Built(m) = EmptyTables
    <2>1. Len(Log) \in Nat
      BY FeedShape
    <2>2. m = 0
      BY <1>4, <2>1
    <2> QED  BY <2>2, BuiltStep
  <1>5. EmptyFile.applied = [e \in Position |-> IF e \in Settled(EmptyFile) THEN 1 ELSE 0]
    BY <1>1, <1>2
  <1>6. IsFile(EmptyFile)
    BY DEF EmptyFile, File, IsFile
  <1> QED  BY <1>1, <1>2, <1>3, <1>4, <1>5, <1>6, ProjectedNone DEF FileOK

(* The effects of an event that is not in yet: claimed and applied, or        *)
(* redriven.                                                                  *)
LEMMA FileApplied ==
  ASSUME NEW top \in 0..Len(Log), NEW f, FileOK(f, top), NEW e \in Position, e \notin Settled(f),
         NEW n \in 0..top, f.claims \cup {e} = 1..n, NEW at \in 0..n,
         NEW h, h = File(f.claims \cup {e}, f.letters \ {e}, at, ApplyRow(f.tables, Log[e]),
                     Counted(f.applied, e), InOrder(f.ordered, f.applied, e))
  PROVE  FileOK(h, top)
  <1>1. /\ h.claims = f.claims \cup {e} /\ h.letters = f.letters \ {e} /\ h.offset = at
        /\ h.tables = ApplyRow(f.tables, Log[e])
        /\ h.applied = Counted(f.applied, e)
        /\ h.ordered = InOrder(f.ordered, f.applied, e)
    BY FileColumns
  <1>2. Settled(h) = Settled(f) \cup {e}
    BY <1>1 DEF Settled
  <1>3. /\ Settled(f) \subseteq Position
        /\ \A k \in Position : f.applied[k] = IF k \in Settled(f) THEN 1 ELSE 0
    BY FileRange
  <1>4. h.letters \subseteq h.claims
    BY <1>1 DEF FileOK
  <1>5. h.applied = [k \in Position |-> IF k \in Settled(h) THEN 1 ELSE 0]
    <2>1. f.applied = [k \in Position |-> IF k \in Settled(f) THEN 1 ELSE 0]
      BY DEF FileOK
    <2>2. h.applied = [k \in Position |-> IF k = e THEN f.applied[e] + 1 ELSE f.applied[k]]
      BY <1>1, <2>1 DEF Counted
    <2>3. \A k \in Position : (IF k = e THEN f.applied[e] + 1 ELSE f.applied[k])
                                = IF k \in Settled(h) THEN 1 ELSE 0
      <3> TAKE k \in Position
      <3>1. CASE k = e
        <4>1. f.applied[e] = 0 /\ e \in Settled(h)
          BY <1>2, <1>3
        <4> QED  BY <3>1, <4>1
      <3>2. CASE k # e
        BY <1>2, <1>3, <3>2
      <3> QED  BY <3>1, <3>2
    <2> QED  BY <2>2, <2>3
  <1>6. Projected(h.tables, Settled(h))
    <2>1. Projected(f.tables, Settled(f))
      BY DEF FileOK
    <2>2. Projected(ApplyRow(f.tables, Log[e]), Settled(f) \cup {e})
      BY <1>3, <2>1, ProjectedOne
    <2> QED  BY <1>1, <1>2, <2>2
  <1>7. h.ordered \in BOOLEAN
    BY <1>1, Zenon DEF InOrder
  <1>8. ASSUME NEW m \in 0..Len(Log), h.ordered, Settled(h) = 1..m PROVE h.tables = Built(m)
    <2>1. Len(Log) \in Nat /\ Position = 1..Len(Log)
      BY FeedShape
    <2>2. f.ordered /\ \A k \in e..Len(Log) : f.applied[k] = 0
      BY <1>1, <1>8 DEF InOrder
    <2>3. \A k \in Position : k >= e => k \notin Settled(f)
      BY <1>3, <2>1, <2>2
    <2>4. m = e
      <3>1. e \in 1..m /\ \A k \in 1..m : k \in Settled(f) \/ k = e
        BY <1>2, <1>8
      <3>2. m \in Position /\ m >= e
        BY <2>1, <3>1
      <3> QED  BY <2>3, <3>1, <3>2
    <2>5. Settled(f) = 1..(e - 1)
      <3>1. \A k \in 1..(e - 1) : k \in 1..e /\ k # e
        BY <2>1
      <3>2. \A k \in Settled(f) : k \in 1..e /\ k # e
        BY <1>2, <1>8, <2>4
      <3>3. \A k \in 1..e : k # e => k \in 1..(e - 1)
        BY <2>1
      <3> QED  BY <1>2, <1>8, <2>4, <3>1, <3>2, <3>3
    <2>6. e - 1 \in 0..Len(Log)
      BY <2>1
    <2>7. f.tables = Built(e - 1)
      BY <2>2, <2>5, <2>6 DEF FileOK
    <2> QED  BY <1>1, <2>4, <2>7, BuiltStep
  <1>9. \E j \in 0..top : h.claims = 1..j /\ h.offset \in 0..j
    BY <1>1
  <1>10. IsFile(h)
    BY FileColumns
  <1> QED  BY <1>4, <1>5, <1>6, <1>7, <1>8, <1>9, <1>10 DEF FileOK

(* A letter, or the offset alone: the tables stay.                            *)
LEMMA FileKept ==
  ASSUME NEW top \in 0..Len(Log), NEW f, FileOK(f, top), NEW L, NEW C, L \subseteq C,
         NEW n \in 0..top, C = 1..n, NEW at \in 0..n,
         NEW h, h = File(C, L, at, f.tables, f.applied, f.ordered),
         C \ L = Settled(f)
  PROVE  FileOK(h, top)
  <1>1. /\ h.claims = C /\ h.letters = L /\ h.offset = at /\ h.tables = f.tables
        /\ h.applied = f.applied /\ h.ordered = f.ordered
        /\ IsFile(h)
    BY FileColumns
  <1>2. Settled(h) = C \ L
    BY <1>1 DEF Settled
  <1>3. Settled(h) = Settled(f)
    BY <1>2
  <1>4. \E j \in 0..top : h.claims = 1..j /\ h.offset \in 0..j
    BY <1>1
  <1>5. h.letters \subseteq h.claims
    BY <1>1
  <1> QED  BY <1>1, <1>3, <1>4, <1>5 DEF FileOK

(* The rows of the feed may grow.                                             *)
LEMMA FileGrows ==
  ASSUME NEW top \in Nat, NEW more \in Nat, top <= more, NEW f, FileOK(f, top)
  PROVE  FileOK(f, more)
  <1>1. \E n \in 0..more : f.claims = 1..n /\ f.offset \in 0..n
    <2>1. PICK n \in 0..top : f.claims = 1..n /\ f.offset \in 0..n
      BY DEF FileOK
    <2>2. n \in 0..more
      OBVIOUS
    <2> QED  BY <2>1, <2>2
  <1> QED  BY <1>1 DEF FileOK

(* What one delivery does to the file, whether it is applied or parked.       *)
Delivered(f, h, e) ==
  /\ h.claims = f.claims \cup {e}
  /\ h.letters = f.letters \/ (e \notin f.claims /\ h.letters = f.letters \cup {e})
  /\ h.offset \in {f.offset, e} /\ h.offset >= f.offset

(* What apply and _dead_letter commit keeps a file in order.                  *)
LEMMA Delivery ==
  ASSUME NEW top \in 0..Len(Log), NEW f, FileOK(f, top), NEW e \in 1..top,
         1..(e - 1) \subseteq f.claims,
         NEW h,
         h \in IF e \in f.claims THEN {AdvanceOffset(f, e)}
               ELSE {AdvanceOffset(WithEffects([f EXCEPT !.claims = @ \cup {e}], e), e),
                     AdvanceOffset([f EXCEPT !.claims = @ \cup {e}, !.letters = @ \cup {e}], e)}
  PROVE  FileOK(h, top) /\ Delivered(f, h, e)
  <1> DEFINE at == IF e > f.offset THEN e ELSE f.offset
  <1>1. Len(Log) \in Nat /\ e \in Position /\ e \in Nat
    BY FeedShape DEF Position
  <1>2. IsFile(f)
    BY DEF FileOK
  <1>3. PICK n \in 0..top : f.claims = 1..n /\ f.offset \in 0..n
    BY DEF FileOK
  <1>4. /\ f.letters \subseteq f.claims
        /\ Settled(f) = f.claims \ f.letters
    BY DEF FileOK, Settled
  <1>5. at \in {f.offset, e} /\ at >= f.offset /\ at \in Nat
    BY <1>1, <1>3
  <1>6. CASE e \in f.claims
    <2>1. h = File(f.claims, f.letters, at, f.tables, f.applied, f.ordered)
      BY <1>2, <1>6, OffsetColumns
    <2>2. at \in 0..n
      BY <1>3, <1>6
    <2> HIDE DEF at
    <2>3. FileOK(h, top)
      BY <1>3, <1>4, <2>1, <2>2, FileKept
    <2>4. f.claims \cup {e} = f.claims
      BY <1>6
    <2> QED  BY <1>5, <2>1, <2>3, <2>4, FileColumns DEF Delivered
  <1>7. CASE e \notin f.claims
    <2>1. e = n + 1
      <3>1. e > n
        BY <1>1, <1>3, <1>7
      <3>2. e - 1 = 0 \/ e - 1 \in 1..n
        BY <1>1, <1>3
      <3> QED  BY <1>1, <3>1, <3>2
    <2>2. n + 1 \in 0..top /\ f.claims \cup {e} = 1..(n + 1) /\ at \in 0..(n + 1)
      BY <1>1, <1>3, <2>1
    <2>3. e \notin f.letters /\ e \notin Settled(f) /\ f.letters \ {e} = f.letters
      BY <1>4, <1>7
    <2>4. CASE h = AdvanceOffset(WithEffects([f EXCEPT !.claims = @ \cup {e}], e), e)
      <3> DEFINE g == [f EXCEPT !.claims = @ \cup {e}]
      <3>1. g = File(f.claims \cup {e}, f.letters, f.offset, f.tables, f.applied, f.ordered)
        BY <1>2, ClaimColumns
      <3> HIDE DEF g
      <3>2. WithEffects(g, e)
              = File(f.claims \cup {e}, f.letters, f.offset, ApplyRow(f.tables, Log[e]),
                     Counted(f.applied, e), InOrder(f.ordered, f.applied, e))
        <4>1. /\ IsFile(g) /\ g.claims = f.claims \cup {e} /\ g.letters = f.letters
              /\ g.offset = f.offset /\ g.tables = f.tables /\ g.applied = f.applied
              /\ g.ordered = f.ordered
          BY <3>1, FileColumns
        <4> QED  BY <4>1, EffectsColumns
      <3>3. h = File(f.claims \cup {e}, f.letters \ {e}, at, ApplyRow(f.tables, Log[e]),
                     Counted(f.applied, e), InOrder(f.ordered, f.applied, e))
        <4> DEFINE w == WithEffects(g, e)
        <4>1. /\ IsFile(w) /\ w.claims = f.claims \cup {e} /\ w.letters = f.letters
              /\ w.offset = f.offset /\ w.tables = ApplyRow(f.tables, Log[e])
              /\ w.applied = Counted(f.applied, e)
              /\ w.ordered = InOrder(f.ordered, f.applied, e)
          BY <3>2, FileColumns
        <4>2. h = AdvanceOffset(w, e)
          BY <2>4 DEF g
        <4> HIDE DEF w
        <4> QED  BY <2>3, <4>1, <4>2, OffsetColumns
      <3> HIDE DEF at
      <3>4. FileOK(h, top)
        BY <1>1, <2>2, <2>3, <3>3, FileApplied
      <3>5. h.claims = f.claims \cup {e} /\ h.letters = f.letters /\ h.offset = at
        BY <2>3, <3>3 DEF File
      <3> QED  BY <1>5, <3>4, <3>5 DEF Delivered
    <2>5. CASE h = AdvanceOffset([f EXCEPT !.claims = @ \cup {e}, !.letters = @ \cup {e}], e)
      <3>1. h = File(f.claims \cup {e}, f.letters \cup {e}, at, f.tables, f.applied, f.ordered)
        <4> DEFINE w == [f EXCEPT !.claims = @ \cup {e}, !.letters = @ \cup {e}]
        <4>1. w = File(f.claims \cup {e}, f.letters \cup {e}, f.offset, f.tables, f.applied,
                       f.ordered)
          BY <1>2, ClaimColumns
        <4>2. h = AdvanceOffset(w, e)
          BY <2>5
        <4> HIDE DEF w
        <4>3. /\ IsFile(w) /\ w.claims = f.claims \cup {e} /\ w.letters = f.letters \cup {e}
              /\ w.offset = f.offset /\ w.tables = f.tables /\ w.applied = f.applied
              /\ w.ordered = f.ordered
          BY <4>1, FileColumns
        <4> QED  BY <4>2, <4>3, OffsetColumns
      <3>2. (f.claims \cup {e}) \ (f.letters \cup {e}) = Settled(f)
              /\ f.letters \cup {e} \subseteq f.claims \cup {e}
        BY <1>4, <1>7
      <3> HIDE DEF at
      <3>3. FileOK(h, top)
        BY <2>2, <3>1, <3>2, FileKept
      <3> QED  BY <1>5, <1>7, <3>1, <3>3, FileColumns DEF Delivered
    <2> QED  BY <1>7, <2>4, <2>5
  <1> QED  BY <1>6, <1>7

Redrawn(f, e) == [WithEffects(f, e) EXCEPT !.letters = @ \ {e}]

(* What a redrive does to it.                                                 *)
LEMMA Redriven ==
  ASSUME NEW top \in 0..Len(Log), NEW f, FileOK(f, top), NEW e \in f.letters,
         NEW h, h = Redrawn(f, e)
  PROVE  /\ FileOK(h, top)
         /\ h.claims = f.claims /\ h.letters = f.letters \ {e} /\ h.offset = f.offset
  <1>1. e \in Position /\ e \in f.claims /\ f.claims \cup {e} = f.claims
    BY FileRange DEF FileOK
  <1>2. IsFile(f)
    BY DEF FileOK
  <1>3. PICK n \in 0..top : f.claims = 1..n /\ f.offset \in 0..n
    BY DEF FileOK
  <1>4. e \notin Settled(f)
    BY DEF Settled
  <1>5. WithEffects(f, e)
          = File(f.claims, f.letters, f.offset, ApplyRow(f.tables, Log[e]),
                     Counted(f.applied, e), InOrder(f.ordered, f.applied, e))
    BY <1>2, EffectsColumns
  <1>6. h = File(f.claims \cup {e}, f.letters \ {e}, f.offset, ApplyRow(f.tables, Log[e]),
                     Counted(f.applied, e), InOrder(f.ordered, f.applied, e))
    <2> DEFINE w == WithEffects(f, e)
    <2>1. /\ IsFile(w) /\ w.claims = f.claims /\ w.letters = f.letters
          /\ w.offset = f.offset /\ w.tables = ApplyRow(f.tables, Log[e])
          /\ w.applied = Counted(f.applied, e)
          /\ w.ordered = InOrder(f.ordered, f.applied, e)
      BY <1>5, FileColumns
    <2> HIDE DEF w
    <2>2. h = File(w.claims, w.letters \ {e}, w.offset, w.tables, w.applied, w.ordered)
      BY <2>1, ClaimColumns DEF w, Redrawn
    <2> QED  BY <1>1, <2>1, <2>2
  <1>7. FileOK(h, top)
    BY <1>1, <1>3, <1>4, <1>6, FileApplied
  <1>8. h.claims = f.claims /\ h.letters = f.letters \ {e} /\ h.offset = f.offset
    <2> DEFINE r == File(f.claims \cup {e}, f.letters \ {e}, f.offset, ApplyRow(f.tables, Log[e]),
                         Counted(f.applied, e), InOrder(f.ordered, f.applied, e))
    <2>1. r.claims = f.claims \cup {e} /\ r.letters = f.letters \ {e} /\ r.offset = f.offset
      BY FileColumns
    <2>2. h = r
      BY <1>6
    <2> HIDE DEF r
    <2> QED  BY <1>1, <2>1, <2>2
  <1> QED  BY <1>7, <1>8

-----------------------------------------------------------------------------
(* Every step keeps the invariant *)

(* How a step changes the file: not at all, by a delivery, by a redrive, or   *)
(* by starting over.                                                          *)
FileStep ==
  \/ db' = db
  \/ \E e \in Position : Delivered(db, db', e)
  \/ \E e \in db.letters : /\ db'.claims = db.claims /\ db'.letters = db.letters \ {e}
                           /\ db'.offset = db.offset
  \/ db' = EmptyFile

(* No transaction is ever left open, so all see what is committed.            *)
LEMMA NoneOpen ==
  ASSUME FInv, NEW p \in Conn
  PROVE  /\ ~open[p] /\ View(p) = db
         /\ \A h : Commit(p, h) => db' = h /\ open' = open
         /\ Rollback(p) => db' = db /\ open' = open
  BY DEF FInv, View, Commit, Rollback

(* Initially.                                                                 *)
LEMMA Initially == Init => FInv
  <1> SUFFICES ASSUME Init PROVE FInv
    OBVIOUS
  <1>1. Len(Log) \in Nat
    BY FeedShape
  <1>2. FileOK(db, head)
    BY FileEmpty DEF Init
  <1>3. \A c \in Consumer : BatchOK(pc[c], next[c], last[c], db.claims, head)
    BY DEF Init, BatchOK
  <1>4. head \in 0..Len(Log) /\ drills \in Nat /\ ~(drills > 0)
    BY <1>1 DEF Init
  <1> QED  BY <1>2, <1>3, <1>4 DEF Init, FInv

(* A pass that ends leaves every consumer in order, whatever more is claimed. *)
LEMMA EndPassOK ==
  ASSUME FInv, NEW c \in Consumer, EndPass(c), NEW H, db.claims \subseteq H
  PROVE  /\ DOMAIN pc' = Consumer /\ DOMAIN next' = Consumer /\ DOMAIN last' = Consumer
         /\ \A x \in Consumer : BatchOK(pc'[x], next'[x], last'[x], H, head)
  <1>1. DOMAIN pc' = Consumer /\ DOMAIN next' = Consumer /\ DOMAIN last' = Consumer
    BY DEF FInv, EndPass
  <1>2. ASSUME NEW x \in Consumer PROVE BatchOK(pc'[x], next'[x], last'[x], H, head)
    <2>1. CASE x = c
      BY <2>1 DEF FInv, EndPass, BatchOK
    <2>2. CASE x # c
      <3>1. pc'[x] = pc[x] /\ next'[x] = next[x] /\ last'[x] = last[x]
        BY <2>2 DEF FInv, EndPass
      <3>2. BatchOK(pc[x], next[x], last[x], db.claims, head)
        BY DEF FInv
      <3> QED  BY <3>1, <3>2 DEF BatchOK
    <2> QED  BY <2>1, <2>2
  <1> QED  BY <1>1, <1>2

(* So does one that goes on to the event after the one it claimed.            *)
LEMMA MoveOnOK ==
  ASSUME FInv, NEW c \in Consumer, pc[c] # "poll", MoveOn(c),
         NEW H, db.claims \cup {next[c]} \subseteq H
  PROVE  /\ DOMAIN pc' = Consumer /\ DOMAIN next' = Consumer /\ DOMAIN last' = Consumer
         /\ \A x \in Consumer : BatchOK(pc'[x], next'[x], last'[x], H, head)
  <1>1. CASE next[c] < last[c]
    <2>1. /\ next' = [next EXCEPT ![c] = @ + 1] /\ pc' = [pc EXCEPT ![c] = "apply"]
          /\ last' = last
      BY <1>1 DEF MoveOn
    <2>2. DOMAIN pc' = Consumer /\ DOMAIN next' = Consumer /\ DOMAIN last' = Consumer
      BY <2>1 DEF FInv
    <2>3. ASSUME NEW x \in Consumer PROVE BatchOK(pc'[x], next'[x], last'[x], H, head)
      <3>1. BatchOK(pc[x], next[x], last[x], db.claims, head)
        BY DEF FInv
      <3>2. CASE x = c
        <4>1. next[c] \in 1..last[c] /\ last[c] \in 1..head /\ 1..(next[c] - 1) \subseteq db.claims
          BY <3>1, <3>2 DEF BatchOK
        <4>2. pc'[c] = "apply" /\ next'[c] = next[c] + 1 /\ last'[c] = last[c]
          BY <2>1 DEF FInv
        <4>3. next[c] + 1 \in 1..last[c]
          BY <1>1, <4>1
        <4>4. 1..((next[c] + 1) - 1) \subseteq H
          <5>1. \A k \in 1..((next[c] + 1) - 1) : k \in 1..(next[c] - 1) \/ k = next[c]
            BY <4>1
          <5> QED  BY <4>1, <5>1
        <4> QED  BY <3>2, <4>1, <4>2, <4>3, <4>4 DEF BatchOK
      <3>3. CASE x # c
        <4>1. pc'[x] = pc[x] /\ next'[x] = next[x] /\ last'[x] = last[x]
          BY <2>1, <3>3 DEF FInv
        <4> QED  BY <3>1, <4>1 DEF BatchOK
      <3> QED  BY <3>2, <3>3
    <2> QED  BY <2>2, <2>3
  <1>2. CASE ~(next[c] < last[c])
    BY <1>2, EndPassOK DEF MoveOn
  <1> QED  BY <1>1, <1>2

(* A delivery: what apply and park commit.                                    *)
LEMMA DeliveryStep ==
  ASSUME FInv, NEW c \in Consumer, pc[c] # "poll",
         Commit(c, ApplyEvent(c, next[c])) \/ Commit(c, DeadLetter(c, next[c])),
         MoveOn(c), UNCHANGED <<head, letter, drill>>
  PROVE  FInv' /\ FileStep
  <1> DEFINE e == next[c]
  <1>1. c \in Conn /\ View(c) = db
    BY NoneOpen DEF Conn
  <1>2. open' = open /\ db' \in {ApplyEvent(c, e), DeadLetter(c, e)}
    BY <1>1, NoneOpen
  <1>3. head \in 0..Len(Log) /\ Len(Log) \in Nat /\ FileOK(db, head)
    BY FeedShape DEF FInv
  <1>4. e \in 1..last[c] /\ last[c] \in 1..head /\ 1..(e - 1) \subseteq db.claims
    BY DEF FInv, BatchOK
  <1>5. e \in 1..head /\ e \in Position
    BY <1>3, <1>4 DEF Position
  <1>6. db' \in IF e \in db.claims THEN {AdvanceOffset(db, e)}
                ELSE {AdvanceOffset(WithEffects([db EXCEPT !.claims = @ \cup {e}], e), e),
                      AdvanceOffset([db EXCEPT !.claims = @ \cup {e}, !.letters = @ \cup {e}], e)}
    BY <1>1, <1>2 DEF ApplyEvent, DeadLetter
  <1> HIDE DEF e
  <1>7. FileOK(db', head) /\ Delivered(db, db', e)
    BY <1>3, <1>4, <1>5, <1>6, Delivery
  <1>8. db.claims \cup {e} \subseteq db'.claims /\ db.letters \subseteq db'.letters
    BY <1>7 DEF Delivered
  <1>9. /\ DOMAIN pc' = Consumer /\ DOMAIN next' = Consumer /\ DOMAIN last' = Consumer
        /\ \A x \in Consumer : BatchOK(pc'[x], next'[x], last'[x], db'.claims, head)
    BY <1>8, MoveOnOK DEF e
  <1>10. FInv'
    <2>1. \A o \in Operator : letter'[o] = 0 \/ letter'[o] \in db'.letters
      BY <1>8 DEF FInv
    <2>2. /\ head' = head /\ letter' = letter /\ dump' = dump /\ drills' = drills
      BY DEF drill
    <2> QED  BY <1>2, <1>7, <1>9, <2>1, <2>2 DEF FInv
  <1> QED  BY <1>5, <1>7, <1>10 DEF FileStep

(* The other steps of a consumer leave the file alone.                        *)
LEMMA QuietStep ==
  ASSUME FInv, UNCHANGED <<head, db, open, letter, drill>>,
         DOMAIN pc' = Consumer, DOMAIN next' = Consumer, DOMAIN last' = Consumer,
         \A x \in Consumer : BatchOK(pc'[x], next'[x], last'[x], db.claims, head)
  PROVE  FInv' /\ FileStep
  <1>1. /\ head' = head /\ db' = db /\ open' = open /\ letter' = letter
        /\ dump' = dump /\ drills' = drills
    BY DEF drill
  <1>2. FInv'
    BY <1>1 DEF FInv
  <1> QED  BY <1>1, <1>2 DEF FileStep

(* All the steps of a consumer.                                               *)
LEMMA RunStep ==
  ASSUME Setting, FInv, NEW c \in Consumer, Run(c) \/ Crash(c)
  PROVE  FInv' /\ FileStep
  <1> DEFINE B(x) == BatchOK(pc[x], next[x], last[x], db.claims, head)
  <1>1. /\ \A x \in Consumer : B(x)
        /\ DOMAIN pc = Consumer /\ DOMAIN next = Consumer /\ DOMAIN last = Consumer
    BY DEF FInv
  <1>2. head \in 0..Len(Log) /\ Len(Log) \in Nat /\ FileOK(db, head)
    BY FeedShape DEF FInv
  <1>3. c \in Conn /\ View(c) = db /\ ~open[c]
    BY NoneOpen DEF Conn
  <1>4. CASE Poll(c)
    <2> DEFINE from == db.offset + 1
               to == IF head < from + Batch - 1 THEN head ELSE from + Batch - 1
    <2>1. /\ from <= head
          /\ next' = [next EXCEPT ![c] = from] /\ last' = [last EXCEPT ![c] = to]
          /\ pc' = [pc EXCEPT ![c] = "apply"]
          /\ UNCHANGED <<head, db, open, letter, drill>>
      BY <1>3, <1>4 DEF Poll
    <2>2. db.offset \in 0..head /\ 1..db.offset \subseteq db.claims
      BY <1>2, FileRange
    <2>3. from \in 1..to /\ to \in 1..head /\ 1..(from - 1) \subseteq db.claims
      BY <1>2, <2>1, <2>2, SqliteAssumption
    <2> HIDE DEF from, to
    <2>4. ASSUME NEW x \in Consumer
          PROVE  BatchOK(pc'[x], next'[x], last'[x], db.claims, head)
      <3>1. CASE x = c
        <4>1. pc'[x] = "apply" /\ next'[x] = from /\ last'[x] = to
          BY <1>1, <2>1, <3>1
        <4> QED  BY <2>3, <4>1 DEF BatchOK
      <3>2. CASE x # c
        <4>1. pc'[x] = pc[x] /\ next'[x] = next[x] /\ last'[x] = last[x]
          BY <1>1, <2>1, <3>2
        <4> QED  BY <1>1, <4>1
      <3> QED  BY <3>1, <3>2
    <2>5. DOMAIN pc' = Consumer /\ DOMAIN next' = Consumer /\ DOMAIN last' = Consumer
      BY <1>1, <2>1
    <2> QED  BY <2>1, <2>4, <2>5, QuietStep
  <1>5. CASE ApplyOk(c)
    BY <1>5, DeliveryStep DEF ApplyOk
  <1>6. CASE Park(c)
    BY <1>6, DeliveryStep DEF Park
  <1>7. CASE Halt(c)
    <2>1. EndPass(c) /\ UNCHANGED <<head, db, open, letter, drill>>
      BY <1>7 DEF Halt
    <2> QED  BY <2>1, EndPassOK, QuietStep
  <1>8. CASE Crash(c)
    <2>1. EndPass(c) /\ Rollback(c) /\ UNCHANGED <<head, letter, drill>>
      BY <1>8 DEF Crash
    <2>2. db' = db /\ open' = open
      BY <1>3, <2>1, NoneOpen
    <2> QED  BY <2>1, <2>2, EndPassOK, QuietStep
  <1>9. CASE ApplyFails(c) \/ Refuse(c)
    <2>1. /\ pc[c] = "apply" /\ next' = next /\ last' = last
          /\ pc' = pc \/ pc' = [pc EXCEPT ![c] = "park"]
          /\ UNCHANGED <<head, letter, drill>>
      BY <1>9 DEF ApplyFails, Refuse
    <2>2. UNCHANGED <<db, open>>
      <3>1. CASE ApplyFails(c)
        <4>1. BeginFails(c)
          BY <3>1 DEF ApplyFails, CommitFails, Setting
        <4> QED  BY <4>1 DEF BeginFails
      <3>2. CASE Refuse(c)
        BY <3>2 DEF Refuse
      <3> QED  BY <1>9, <3>1, <3>2
    <2>3. DOMAIN pc' = Consumer /\ DOMAIN next' = Consumer /\ DOMAIN last' = Consumer
      BY <1>1, <2>1
    <2>4. ASSUME NEW x \in Consumer
          PROVE  BatchOK(pc'[x], next'[x], last'[x], db.claims, head)
      <3>1. B(x) /\ next'[x] = next[x] /\ last'[x] = last[x]
        BY <1>1, <2>1
      <3>2. pc'[x] = pc[x] \/ (pc'[x] = "park" /\ pc[x] = "apply")
        BY <1>1, <2>1
      <3> QED  BY <3>1, <3>2 DEF BatchOK
    <2> QED  BY <2>1, <2>2, <2>3, <2>4, QuietStep
  <1> QED  BY <1>4, <1>5, <1>6, <1>7, <1>8, <1>9 DEF Run

(* The steps of the one operator.                                             *)
LEMMA OperatorStep ==
  ASSUME Setting, FInv, NEW o \in Operator,
         RedriveOk(o) \/ RedriveFails(o) \/ \E e \in Position : ReadLetter(o, e)
  PROVE  FInv' /\ FileStep
  <1>1. o \in Conn /\ View(o) = db /\ DOMAIN letter = Operator
    BY NoneOpen DEF Conn, FInv
  <1>2. head \in 0..Len(Log) /\ FileOK(db, head)
    BY DEF FInv
  <1>3. \A p \in Operator : p = o
    BY DEF Setting
  <1>4. ASSUME UNCHANGED <<head, db, open, loop, drill>>, DOMAIN letter' = Operator,
               letter'[o] = 0 \/ letter'[o] \in db.letters
        PROVE  FInv' /\ FileStep
    <2>1. /\ head' = head /\ db' = db /\ open' = open /\ pc' = pc /\ next' = next
          /\ last' = last /\ dump' = dump /\ drills' = drills
      BY <1>4 DEF loop, drill
    <2>2. \A p \in Operator : letter'[p] = 0 \/ letter'[p] \in db'.letters
      BY <1>3, <1>4, <2>1
    <2>3. FInv'
      BY <1>4, <2>1, <2>2 DEF FInv
    <2> QED  BY <2>1, <2>3 DEF FileStep
  <1>5. CASE RedriveFails(o)
    <2>1. Rollback(o) /\ letter' = [letter EXCEPT ![o] = 0] /\ UNCHANGED <<head, loop, drill>>
      BY <1>5 DEF RedriveFails
    <2>2. db' = db /\ open' = open
      BY <1>1, <2>1, NoneOpen
    <2> QED  BY <1>1, <1>4, <2>1, <2>2
  <1>6. CASE \E e \in Position : ReadLetter(o, e)
    <2>1. PICK e \in Position : ReadLetter(o, e)
      BY <1>6
    <2>2. e \in db.letters /\ letter' = [letter EXCEPT ![o] = e]
            /\ UNCHANGED <<head, db, open, loop, drill>>
      BY <1>1, <2>1 DEF ReadLetter
    <2> QED  BY <1>1, <1>4, <2>2
  <1>7. CASE RedriveOk(o)
    <2> DEFINE e == letter[o]
    <2>1. /\ e # 0 /\ letter' = [letter EXCEPT ![o] = 0]
          /\ Commit(o, [WithEffects(db, e) EXCEPT !.letters = @ \ {e}])
          /\ UNCHANGED <<head, loop, drill>>
      BY <1>7 DEF RedriveOk
    <2>2. db' = [WithEffects(db, e) EXCEPT !.letters = @ \ {e}] /\ open' = open
      BY <1>1, <2>1, NoneOpen
    <2>3. e \in db.letters
      BY <2>1 DEF FInv
    <2> HIDE DEF e
    <2>4. /\ FileOK(db', head) /\ db'.claims = db.claims /\ db'.letters = db.letters \ {e}
          /\ db'.offset = db.offset
      <3>1. db' = Redrawn(db, e)
        BY <2>2 DEF Redrawn
      <3> QED  BY <1>2, <2>3, <3>1, Redriven
    <2>5. /\ head' = head /\ pc' = pc /\ next' = next
          /\ last' = last /\ dump' = dump /\ drills' = drills
      BY <2>1 DEF loop, drill
    <2>6. /\ DOMAIN letter' = Operator
          /\ \A p \in Operator : letter'[p] = 0 \/ letter'[p] \in db'.letters
      BY <1>1, <1>3, <2>1
    <2>7. FInv'
      BY <2>2, <2>4, <2>5, <2>6 DEF FInv
    <2> QED  BY <2>3, <2>4, <2>7 DEF FileStep
  <1> QED  BY <1>5, <1>6, <1>7

(* The ledger, a deployment and a drill.                                      *)
LEMMA SurroundingStep ==
  ASSUME Setting, FInv, Publish \/ Deploy \/ TruncateDerived
  PROVE  FInv' /\ FileStep
  <1>1. head \in 0..Len(Log) /\ FileOK(db, head) /\ Len(Log) \in Nat
    BY FeedShape DEF FInv
  <1>2. CASE Publish
    <2>1. PICK n \in Commits : n > head /\ head' = n
      BY <1>2 DEF Publish
    <2>2. head' \in 0..Len(Log) /\ head' >= head /\ head' \in Nat /\ head \in Nat
      BY <1>1, <2>1, SqliteAssumption
    <2>3. /\ db' = db /\ open' = open /\ pc' = pc /\ next' = next /\ last' = last
          /\ letter' = letter /\ dump' = dump /\ drills' = drills /\ drills = 0
      BY <1>2 DEF Publish, loop, drill
    <2>4. FileOK(db, head')
      BY <1>1, <2>2, FileGrows
    <2>5. \A c \in Consumer : BatchOK(pc[c], next[c], last[c], db.claims, head')
      <3> TAKE c \in Consumer
      <3>1. BatchOK(pc[c], next[c], last[c], db.claims, head)
        BY DEF FInv
      <3>2. \A k \in 1..head : k \in 1..head'
        BY <2>2
      <3> QED  BY <3>1, <3>2 DEF BatchOK
    <2>6. FInv'
      BY <2>2, <2>3, <2>4, <2>5 DEF FInv
    <2> QED  BY <2>3, <2>6 DEF FileStep
  <1>3. CASE Deploy
    <2>1. /\ pc' = [c \in Consumer |-> "poll"] /\ next' = [c \in Consumer |-> 1]
          /\ last' = [c \in Consumer |-> 0] /\ open' = [p \in Conn |-> FALSE]
          /\ letter' = [o \in Operator |-> 0] /\ head' = head /\ db' = db
          /\ dump' = dump /\ drills' = drills
      BY <1>3 DEF Deploy, drill
    <2>2. \A c \in Consumer : BatchOK(pc'[c], next'[c], last'[c], db'.claims, head')
      BY <2>1 DEF BatchOK
    <2>3. /\ DOMAIN pc' = Consumer /\ DOMAIN next' = Consumer /\ DOMAIN last' = Consumer
          /\ DOMAIN letter' = Operator /\ \A o \in Operator : letter'[o] = 0
      BY <2>1
    <2>4. FInv'
      BY <2>1, <2>2, <2>3 DEF FInv
    <2> QED  BY <2>1, <2>4 DEF FileStep
  <1>4. CASE TruncateDerived
    <2>1. /\ drills' = drills + 1 /\ dump' = db /\ db' = EmptyFile
          /\ head' = head /\ open' = open /\ pc' = pc /\ next' = next /\ last' = last
          /\ letter' = letter
          /\ \A c \in Consumer : pc[c] = "poll" /\ View(c).offset = head
          /\ \A o \in Operator : letter[o] = 0
      BY <1>4 DEF TruncateDerived, loop
    <2>2. db.offset = head
      <3>1. PICK c \in Consumer : TRUE
        BY DEF Setting
      <3>2. View(c) = db
        BY NoneOpen DEF Conn
      <3> QED  BY <2>1, <3>2
    <2>3. FileOK(EmptyFile, head)
      BY <1>1, FileEmpty
    <2>4. \A c \in Consumer : BatchOK(pc'[c], next'[c], last'[c], db'.claims, head')
      BY <2>1 DEF BatchOK
    <2>5. drills' \in Nat
      BY <2>1 DEF FInv
    <2>6. FInv'
      BY <1>1, <2>1, <2>2, <2>3, <2>4, <2>5 DEF FInv
    <2> QED  BY <2>1, <2>6 DEF FileStep
  <1> QED  BY <1>2, <1>3, <1>4

(* Every step.                                                                *)
LEMMA Preserved ==
  ASSUME Setting, FInv, [Next]_vars
  PROVE  FInv' /\ FileStep
  <1>1. CASE UNCHANGED vars
    <2>1. /\ head' = head /\ db' = db /\ open' = open /\ pc' = pc /\ next' = next
          /\ last' = last /\ letter' = letter /\ dump' = dump /\ drills' = drills
      BY <1>1 DEF vars, loop, drill
    <2>2. FInv'
      BY <2>1 DEF FInv
    <2> QED  BY <2>1, <2>2 DEF FileStep
  <1>2. CASE Next
    BY <1>2, RunStep, OperatorStep, SurroundingStep DEF Next
  <1> QED  BY <1>1, <1>2

-----------------------------------------------------------------------------
(* What follows *)

(* The invariant, always.                                                     *)
LEMMA Always == Setting => (Spec => []FInv)
  <1>1. Setting /\ FInv /\ [Next]_vars => FInv'
    BY Preserved
  <1>2. SUFFICES ASSUME Setting PROVE Spec => []FInv
    OBVIOUS
  <1>3. FInv /\ [Next]_vars => FInv'
    BY <1>1, <1>2
  <1> QED  BY <1>3, Initially, PTL DEF Spec

(* Without letters of its own an account's row is the fold of a prefix of its *)
(* stream, or there is none yet.                                              *)
LEMMA ReadsServedIs ==
  ASSUME FInv
  PROVE  ReadsServed
  <1> SUFFICES ASSUME NEW a \in Account, \A e \in db.letters : Log[e].account # a
               PROVE  ValidView(BalanceView(db.tables, a))
    BY DEF ReadsServed, GetBalanceServed
  <1>1. head \in 0..Len(Log) /\ Len(Log) \in Nat /\ FileOK(db, head)
    BY FeedShape DEF FInv
  <1>2. PICK n \in 0..head : db.claims = 1..n
    BY <1>1 DEF FileOK
  <1>3. db.tables.balances = FoldAll(Settled(db))
    BY <1>1 DEF FileOK, Projected
  <1>4. {f \in Settled(db) : Log[f].account = a} = {f \in 1..n : Log[f].account = a}
    BY <1>2 DEF Settled
  <1>5. CASE \E f \in Settled(db) : Log[f].account = a
    <2>1. /\ a \in DOMAIN db.tables.balances
          /\ db.tables.balances[a]
               = Fold([e \in {f \in Settled(db) : Log[f].account = a} |-> Log[e].event])
      BY <1>3, <1>5 DEF FoldAll
    <2>2. db.tables.balances[a] = Fold(StreamUpto(n, a))
      BY <1>4, <2>1 DEF StreamUpto
    <2>3. n \in 0..Len(Log)
      BY <1>1
    <2> QED  BY <2>1, <2>2, <2>3, FeedAssumption DEF BalanceView
  <1>6. CASE ~\E f \in Settled(db) : Log[f].account = a
    <2>1. a \notin DOMAIN db.tables.balances
      BY <1>3, <1>6 DEF FoldAll
    <2>2. BalanceView(db.tables, a) = Zero
      BY <2>1 DEF BalanceView, Zero
    <2> QED  BY <2>2, DomainAssumption DEF ValidView, Zero
  <1> QED  BY <1>5, <1>6

(* Tables of the same events agree, holds and marks aside.                    *)
LEMMA SameTables ==
  ASSUME NEW S, NEW t, NEW r, Projected(t, S), Projected(r, S)
  PROVE  /\ t.balances = r.balances /\ t.legs = r.legs
         /\ DOMAIN t.transfers = DOMAIN r.transfers
         /\ \A id \in DOMAIN r.transfers : /\ ShownKind(t, id) = ShownKind(r, id)
                                           /\ t.transfers[id].reverts = r.transfers[id].reverts
  <1>1. t.balances = r.balances
    BY DEF Projected
  <1>2. t.legs = r.legs
    <2> DEFINE K == {LegKey(e) : e \in Moves(S)}
    <2>1. /\ t.legs = [k \in K |-> t.legs[k]] /\ r.legs = [k \in K |-> r.legs[k]]
          /\ \A e \in Moves(S) : t.legs[LegKey(e)] = r.legs[LegKey(e)]
      BY DEF Projected, LegsIn
    <2>2. \A k \in K : t.legs[k] = r.legs[k]
      BY <2>1
    <2> HIDE DEF K
    <2> QED  BY <2>1, <2>2
  <1>3. DOMAIN t.transfers = DOMAIN r.transfers
    BY DEF Projected, TransfersIn
  <1>4. ASSUME NEW id \in DOMAIN r.transfers
        PROVE  ShownKind(t, id) = ShownKind(r, id)
                 /\ t.transfers[id].reverts = r.transfers[id].reverts
    <2>1. t.transfers[id].kind = r.transfers[id].kind
      BY <1>3 DEF Projected, TransfersIn
    <2>2. PICK e \in Moves(S) : id = Gid(e)
      BY DEF Projected, TransfersIn
    <2>3. t.transfers[id].reverts = r.transfers[id].reverts
      BY <2>2 DEF Projected, TransfersIn
    <2> QED  BY <1>2, <2>1, <2>3 DEF ShownKind
  <1> QED  BY <1>1, <1>2, <1>3, <1>4

(* So in whatever order the whole feed came, the tables agree with its own.   *)
LEMMA OrderIndependentIs ==
  ASSUME FInv
  PROVE  OrderIndependent
  <1> SUFFICES ASSUME Settled(db) = Position PROVE OrderIndependent
    BY DEF OrderIndependent
  <1>1. Len(Log) \in Nat /\ Position = 1..Len(Log) /\ Len(Log) \in 0..Len(Log)
    BY FeedShape
  <1>2. Projected(db.tables, Position)
    BY DEF FInv, FileOK
  <1>3. Projected(ProjectFeed(Log), Position)
    BY <1>1, BuiltAll, BuiltProjected
  <1> QED  BY <1>2, <1>3, SameTables DEF OrderIndependent

(* A dumped and a rebuilt file that took all of the feed in order hold the    *)
(* very same tables.                                                          *)
LEMMA DrillPassesIs ==
  ASSUME FInv
  PROVE  DrillPasses
  <1> SUFFICES ASSUME drills > 0, db.offset = head,
                      \A f \in {dump, db} : f.letters = {} /\ f.ordered
               PROVE  Compare(dump, db)
    BY DEF DrillPasses
  <1>1. head \in 0..Len(Log) /\ Len(Log) \in Nat
    BY FeedShape DEF FInv
  <1>2. ASSUME NEW f, FileOK(f, head), f.offset = head, f.letters = {}, f.ordered
        PROVE  /\ f.claims = 1..head /\ f.tables = Built(head)
               /\ f.tables.balances = FoldAll(1..head)
    <2>1. PICK n \in 0..head : f.claims = 1..n /\ f.offset \in 0..n
      BY <1>2 DEF FileOK
    <2>2. n = head
      BY <1>1, <1>2, <2>1
    <2>3. Settled(f) = 1..head
      BY <1>2, <2>1, <2>2 DEF Settled
    <2> QED  BY <1>1, <1>2, <2>1, <2>2, <2>3 DEF FileOK, Projected
  <1>3. /\ db.claims = 1..head /\ db.tables = Built(head)
        /\ db.tables.balances = FoldAll(1..head)
    BY <1>2 DEF FInv
  <1>4. dump.tables = Built(head)
    BY <1>2 DEF FInv
  <1>5. OpenHoldIds(db.tables) = OpenHoldsInLog(SubSeq(Log, 1, head))
    BY <1>1, <1>3, BuiltOpenHolds
  <1>6. db.letters \subseteq dump.letters
    OBVIOUS
  <1> QED  BY <1>3, <1>4, <1>5, <1>6 DEF Compare

(* Where no COMMIT fails, no event at or below the offset is left out of both *)
(* the read models and the queue.                                             *)
THEOREM NothingIsSkipped == Setting => (Spec => []NothingSkipped)
  <1>1. FInv => NothingSkipped
    BY FileRange DEF FInv, NothingSkipped
  <1> QED  BY <1>1, Always, PTL

(* For any feed the ledger writes: under redelivery by any number of          *)
(* consumers, stale batches, crashes, retries, redrives and drills, balances  *)
(* is the fold of exactly the events claimed and not parked, each once.       *)
THEOREM BalancesStayExact == Setting => (Spec => []BalancesExact)
  <1>1. FInv => BalancesExact
    BY DEF FInv, FileOK, Projected, BalancesExact
  <1> QED  BY <1>1, Always, PTL

(* A letter of one account never makes another account's balance unreadable.  *)
THEOREM ReadsStayServed == Setting => (Spec => []ReadsServed)
  <1>1. FInv => ReadsServed
    BY ReadsServedIs
  <1> QED  BY <1>1, Always, PTL

(* Once all of the feed is in, the tables that KIND_RANK makes independent of *)
(* the order of arrival are those of the feed, whatever was redriven when.    *)
THEOREM OrderNeverMatters == Setting => (Spec => []OrderIndependent)
  <1>1. FInv => OrderIndependent
    BY OrderIndependentIs
  <1> QED  BY <1>1, Always, PTL

(* A drill on a file that was drained without letters and in feed order       *)
(* passes: the rebuilt tables, open holds included, are the dumped ones.      *)
THEOREM DrillsPass == Setting => (Spec => []DrillPasses)
  <1>1. FInv => DrillPasses
    BY DrillPassesIs
  <1> QED  BY <1>1, Always, PTL

-----------------------------------------------------------------------------
(* The promise both tiers make *)

(* What the queue and the claims say of an event.                             *)
LEMMA StatusIs ==
  ASSUME NEW top \in 0..Len(Log), NEW f, FileOK(f, top), NEW e \in Position
  PROVE  Status(f, e) = IF e \notin f.claims THEN "pending"
                        ELSE IF e \in f.letters THEN "parked" ELSE "applied"
  <1>1. f.applied[e] = IF e \in Settled(f) THEN 1 ELSE 0
    BY FileRange
  <1>2. f.letters \subseteq f.claims
    BY DEF FileOK
  <1> QED  BY <1>1, <1>2 DEF Status, Settled

(* Every step is a delivery, a redrive, a rebuild or nothing.                 *)
LEMMA PromiseStep ==
  ASSUME FInv, FInv', FileStep
  PROVE  [Promise!Next]_(Promise!vars)
  <1> DEFINE st(f) == [e \in Position |-> Status(f, e)]
             Is(f, e) == IF e \notin f.claims THEN "pending"
                         ELSE IF e \in f.letters THEN "parked" ELSE "applied"
  <1>1. /\ head \in 0..Len(Log) /\ FileOK(db, head)
        /\ head' \in 0..Len(Log) /\ FileOK(db', head')
    BY DEF FInv
  <1>2. \A e \in Position : Status(db, e) = Is(db, e) /\ Status(db', e) = Is(db', e)
    BY <1>1, StatusIs
  <1>3. st(db) = [e \in Position |-> Is(db, e)] /\ st(db') = [e \in Position |-> Is(db', e)]
    BY <1>2
  <1>4. Promise!vars = <<st(db), db.offset>> /\ Promise!vars' = <<st(db'), db'.offset>>
    BY DEF Promise!vars
  <1>5. Len(Log) \in Nat /\ Position = 1..Len(Log)
    BY FeedShape
  <1>6. db.letters \subseteq db.claims /\ db.letters \subseteq Position
    BY <1>1, FileRange DEF FileOK
  <1>7. Promise!Covered(db'.offset, st(db'))
    <2>1. 1..db'.offset \subseteq db'.claims /\ db'.offset \in 0..head'
      BY <1>1, FileRange
    <2>2. ASSUME NEW e \in Position, e <= db'.offset PROVE st(db')[e] # "pending"
      <3>1. e \in db'.claims
        BY <1>1, <1>5, <2>1, <2>2
      <3> QED  BY <1>3, <3>1
    <2> QED  BY <2>2 DEF Promise!Covered
  <1>8. CASE db' = db
    BY <1>4, <1>8
  <1>9. ASSUME NEW e \in Position, Delivered(db, db', e) PROVE Promise!Deliver(e)
    <2>1. db'.offset \in {db.offset, e} /\ db'.offset >= db.offset
      BY <1>9 DEF Delivered
    <2>2. CASE e \in db.claims
      <3>1. db'.claims = db.claims /\ db'.letters = db.letters
        BY <1>9, <2>2 DEF Delivered
      <3>2. \A k \in Position : Is(db', k) = Is(db, k)
        BY <3>1
      <3>3. st(db') = st(db)
        BY <1>3, <3>2
      <3> HIDE DEF st, Is
      <3> QED  BY <1>7, <2>1, <3>3 DEF Promise!Deliver, st
    <2>3. CASE e \notin db.claims
      <3>1. st(db)[e] = "pending"
        BY <1>3, <2>3
      <3>2. PICK s \in {"applied", "parked"} :
              \A k \in Position : Is(db', k) = IF k = e THEN s ELSE Is(db, k)
        <4>1. db'.claims = db.claims \cup {e} /\ e \notin db.letters
          BY <1>6, <1>9, <2>3 DEF Delivered
        <4>2. CASE db'.letters = db.letters
          <5>1. \A k \in Position : Is(db', k) = IF k = e THEN "applied" ELSE Is(db, k)
            BY <4>1, <4>2
          <5> HIDE DEF Is
          <5> QED  BY <5>1
        <4>3. CASE db'.letters = db.letters \cup {e}
          <5>1. \A k \in Position : Is(db', k) = IF k = e THEN "parked" ELSE Is(db, k)
            BY <4>1, <4>3
          <5> HIDE DEF Is
          <5> QED  BY <5>1
        <4> QED  BY <1>9, <4>2, <4>3 DEF Delivered
      <3> HIDE DEF Is
      <3>3. st(db') = [st(db) EXCEPT ![e] = s]
        BY <1>3, <3>2
      <3> HIDE DEF st
      <3> QED  BY <1>7, <2>1, <3>1, <3>3 DEF Promise!Deliver, st
    <2> QED  BY <2>2, <2>3
  <1>10. ASSUME NEW e \in db.letters, db'.claims = db.claims, db'.letters = db.letters \ {e},
                db'.offset = db.offset
         PROVE  Promise!Redrive(e)
    <2>1. \A k \in Position : Is(db', k) = IF k = e THEN "applied" ELSE Is(db, k)
      BY <1>6, <1>10
    <2>2. st(db)[e] = "parked" /\ e \in Position
      BY <1>3, <1>6
    <2> HIDE DEF Is
    <2>3. st(db') = [st(db) EXCEPT ![e] = "applied"]
      BY <1>3, <2>1
    <2> HIDE DEF st
    <2> QED  BY <1>10, <2>2, <2>3 DEF Promise!Redrive, st
  <1>11. CASE db' = EmptyFile
    <2>1. db'.claims = {} /\ db'.offset = 0
      BY <1>11 DEF EmptyFile
    <2>2. st(db') = [e \in Position |-> "pending"]
      BY <1>3, <2>1
    <2>3. Promise!Rebuild
      BY <2>1, <2>2 DEF Promise!Rebuild
    <2> QED  BY <2>3 DEF Promise!Next
  <1>12. \A e \in db.letters : e \in Position
    BY <1>6
  <1> HIDE DEF st, Is
  <1> QED  BY <1>8, <1>9, <1>10, <1>11, <1>12 DEF FileStep, Promise!Next

(* The SQLite tier keeps the promise of both tiers: an event is pending, then *)
(* applied once or parked, from there applied once, and the offset never      *)
(* passes a pending one.                                                      *)
THEOREM Promised == Setting => (Spec => KeepsPromise)
  <1> SUFFICES ASSUME Setting PROVE Spec => KeepsPromise
    OBVIOUS
  <1>1. Init => Promise!Init
    <2> SUFFICES ASSUME Init PROVE Promise!Init
      OBVIOUS
    <2>1. db.claims = {} /\ db.offset = 0
      BY DEF Init, EmptyFile
    <2>2. \A e \in Position : Status(db, e) = "pending"
      BY <2>1, Initially, StatusIs DEF FInv
    <2> QED  BY <2>1, <2>2 DEF Promise!Init
  <1>2. FInv /\ [Next]_vars => FInv' /\ FileStep
    BY Preserved
  <1>3. FInv /\ FInv' /\ [Next]_vars => [Promise!Next]_(Promise!vars)
    BY <1>2, PromiseStep
  <1> QED  BY <1>1, <1>2, <1>3, Initially, PTL DEF Spec, KeepsPromise, Promise!Spec
=============================================================================
