----------------------------- MODULE LedgerProofs -----------------------------
(***************************************************************************)
(* Proofs about the committed log and the stored results, for any number   *)
(* of accounts, commands and clock values, executed one at a time or by a  *)
(* concurrent unit of work.                                                *)
(*                                                                         *)
(* The argument has four parts.  Sums over finite sets, by the minimal     *)
(* counterexample: every fact about a fold is one about such a sum.  The   *)
(* decisions: on streams that fold, an accepted command plans one of six   *)
(* shapes of rows, that `apply` takes.  The invariant: a group moves each  *)
(* account at most once and cancels out, a hold is placed once and moves   *)
(* money only when captured, a reversal mirrors its set.  And its          *)
(* preservation by an append of each shape.                                *)
(***************************************************************************)
EXTENDS Ledger, FiniteSetTheorems, NaturalsInduction, WellFoundedInduction, SequenceTheorems, TLAPS

(* A nonempty set of naturals has a least element.                            *)
LEMMA LeastNat ==
  ASSUME NEW T, T \subseteq Nat, T # {}
  PROVE  \E x \in T : \A y \in T : x <= y
  <1> DEFINE R == OpToRel(<, Nat)
  <1>1. \A x, y \in Nat : <<x, y>> \in R <=> x < y
    BY DEF OpToRel
  <1>2. IsWellFoundedOn(R, Nat)
    BY NatLessThanWellFounded
  <1> HIDE DEF R
  <1>3. PICK x \in T : \A y \in T : <<y, x>> \notin R
    BY <1>2, WFMin
  <1>4. \A y \in T : y \in Nat /\ x \in Nat /\ ~(y < x)
    BY <1>1, <1>3
  <1>5. \A y \in T : x <= y
    BY <1>4
  <1> QED  BY <1>5

(* Induction over finite sets, for a property given by the set of the         *)
(* counterexamples: among them is one that no removal of an element makes a   *)
(* smaller one.                                                               *)
LEMMA Smallest ==
  ASSUME NEW S, IsFiniteSet(S), NEW B, B \subseteq SUBSET S, B # {}
  PROVE  \E s \in B : \A x \in s : s \ {x} \notin B
  <1> DEFINE T == {Cardinality(s) : s \in B}
  <1>1. \A s \in B : IsFiniteSet(s) /\ Cardinality(s) \in Nat
    BY FS_Subset, FS_CardinalityType
  <1>2. T \subseteq Nat /\ T # {}
    BY <1>1
  <1>3. PICK n \in T : \A m \in T : n <= m
    BY <1>2, LeastNat
  <1>4. PICK s \in B : n = Cardinality(s)
    BY <1>3
  <1>5. ASSUME NEW x \in s, s \ {x} \in B PROVE FALSE
    <2>1. Cardinality(s \ {x}) = Cardinality(s) - 1
      BY <1>1, FS_RemoveElement
    <2>2. Cardinality(s \ {x}) \in T
      BY <1>5
    <2> HIDE DEF T
    <2> QED  BY <1>1, <1>3, <1>4, <2>1, <2>2
  <1> QED  BY <1>5

-----------------------------------------------------------------------------
(* Sums over finite sets *)

Some(s) == CHOOSE x \in s : TRUE

(* g sums f over s, if it does so over s without one of its elements.         *)
Adds(f, s, g) == IF s = {} THEN g[s] = 0 ELSE g[s] = f[Some(s)] + g[s \ {Some(s)}]

Sums(f, S, g) ==
  g = [s \in SUBSET S |-> IF s = {} THEN 0 ELSE f[Some(s)] + g[s \ {Some(s)}]]

(* What the community modules' sum unfolds to.                                *)
LEMMA SumDef ==
  ASSUME NEW f, NEW S
  PROVE  SumFunctionOnSet(f, S) = (CHOOSE g : Sums(f, S, g))[S]
  BY DEF SumFunctionOnSet, FoldFunctionOnSet, MapThenFoldSet, Sums, Some

(* Some picks an element.                                                     *)
LEMMA SomeIn == \A s : s # {} => Some(s) \in s
  BY DEF Some

(* Sums of the subsets with at most n elements.                               *)
Upto(S, n) == {s \in SUBSET S : Cardinality(s) <= n}

PartSums(f, S, n) == {g \in [Upto(S, n) -> Int] : \A s \in Upto(S, n) : Adds(f, s, g)}

(* From the sums of the subsets of n elements to those of n + 1.              *)
LEMMA PartStep ==
  ASSUME NEW S, IsFiniteSet(S), NEW f, \A x \in S : f[x] \in Int,
         NEW n \in Nat, NEW g \in PartSums(f, S, n)
  PROVE  PartSums(f, S, n + 1) # {}
  <1> DEFINE h == [s \in Upto(S, n + 1) |->
                     IF s = {} THEN 0 ELSE f[Some(s)] + g[s \ {Some(s)}]]
  <1>1. ASSUME NEW s \in Upto(S, n + 1), s # {}
        PROVE  s \ {Some(s)} \in Upto(S, n) /\ s \ {Some(s)} \in Upto(S, n + 1) /\ f[Some(s)] \in Int
    <2>1. IsFiniteSet(s) /\ Cardinality(s) \in Nat /\ Some(s) \in s /\ s \subseteq S
      BY <1>1, SomeIn, FS_Subset, FS_CardinalityType DEF Upto
    <2>2. Cardinality(s \ {Some(s)}) = Cardinality(s) - 1
      BY <2>1, FS_RemoveElement
    <2> QED  BY <1>1, <2>1, <2>2 DEF Upto
  <1>2. \A s \in Upto(S, n) : Adds(f, s, g) /\ g[s] \in Int
    BY DEF PartSums
  <1>3. h \in [Upto(S, n + 1) -> Int]
    BY <1>1, <1>2
  <1>4. \A s \in Upto(S, n) : s \in Upto(S, n + 1) /\ h[s] = g[s]
    <2>1. \A s \in Upto(S, n) : s \in Upto(S, n + 1)
      <3> TAKE s \in Upto(S, n)
      <3>1. Cardinality(s) \in Nat
        BY FS_Subset, FS_CardinalityType DEF Upto
      <3> QED  BY <3>1 DEF Upto
    <2> QED  BY <1>2, <2>1 DEF Adds
  <1>5. \A s \in Upto(S, n + 1) : Adds(f, s, h)
    BY <1>1, <1>4 DEF Adds
  <1> HIDE DEF h
  <1> QED  BY <1>3, <1>5 DEF PartSums

(* So the subsets of any size have their sums.                                *)
LEMMA PartExists ==
  ASSUME NEW S, IsFiniteSet(S), NEW f, \A x \in S : f[x] \in Int, NEW m \in Nat
  PROVE  PartSums(f, S, m) # {}
  <1> DEFINE T == {n \in Nat : PartSums(f, S, n) = {}}
  <1> SUFFICES ASSUME T # {} PROVE FALSE
    OBVIOUS
  <1>1. T \subseteq Nat
    OBVIOUS
  <1>2. PICK n \in T : \A k \in T : n <= k
    BY <1>1, LeastNat
  <1>3. n # 0
    <2> DEFINE z == [s \in Upto(S, 0) |-> 0]
    <2>1. \A s \in Upto(S, 0) : s = {}
      BY FS_Subset, FS_EmptySet, FS_CardinalityType DEF Upto
    <2>2. z \in [Upto(S, 0) -> Int] /\ \A s \in Upto(S, 0) : Adds(f, s, z)
      BY <2>1 DEF Adds
    <2> HIDE DEF z
    <2>3. z \in PartSums(f, S, 0)
      BY <2>2 DEF PartSums
    <2> QED  BY <2>3
  <1>4. n - 1 \in Nat /\ n - 1 \notin T
    BY <1>1, <1>2, <1>3
  <1>5. PICK g : g \in PartSums(f, S, n - 1)
    BY <1>4
  <1>6. PartSums(f, S, (n - 1) + 1) # {}
    BY <1>4, <1>5, PartStep
  <1>7. (n - 1) + 1 = n
    BY <1>1
  <1> QED  BY <1>6, <1>7

(* The recursive function behind a sum over a finite set exists.              *)
LEMMA SumsExists ==
  ASSUME NEW S, IsFiniteSet(S), NEW f, \A x \in S : f[x] \in Int
  PROVE  \E g : Sums(f, S, g) /\ g[S] \in Int
  <1> DEFINE n == Cardinality(S)
  <1>1. n \in Nat
    BY FS_CardinalityType
  <1>2. PICK g : g \in PartSums(f, S, n)
    BY <1>1, PartExists
  <1>3. Upto(S, n) = SUBSET S
    <2>1. \A s \in SUBSET S : Cardinality(s) <= n
      BY FS_Subset
    <2> QED  BY <2>1 DEF Upto
  <1>4. g \in [SUBSET S -> Int] /\ \A s \in SUBSET S : Adds(f, s, g)
    BY <1>2, <1>3 DEF PartSums
  <1>5. Sums(f, S, g)
    BY <1>4 DEF Sums, Adds
  <1> QED  BY <1>4, <1>5

(* Two such functions agree where both are defined.                           *)
LEMMA SumsUnique ==
  ASSUME NEW f, NEW g, NEW S, IsFiniteSet(S), NEW T, T \subseteq S,
         NEW a, Sums(f, S, a), NEW b, Sums(g, T, b), \A x \in T : f[x] = g[x]
  PROVE  a[T] = b[T]
  <1> DEFINE B == {s \in SUBSET T : a[s] # b[s]}
  <1> SUFFICES ASSUME B # {} PROVE FALSE
    OBVIOUS
  <1>1. IsFiniteSet(T) /\ B \subseteq SUBSET T
    BY FS_Subset
  <1>2. PICK s \in B : \A x \in s : s \ {x} \notin B
    BY <1>1, Smallest
  <1>3. s \in SUBSET T /\ s \in SUBSET S /\ a[s] # b[s]
    OBVIOUS
  <1>4. a[s] = (IF s = {} THEN 0 ELSE f[Some(s)] + a[s \ {Some(s)}])
    BY <1>3 DEF Sums
  <1>5. b[s] = (IF s = {} THEN 0 ELSE g[Some(s)] + b[s \ {Some(s)}])
    BY <1>3 DEF Sums
  <1>6. s # {} /\ Some(s) \in s
    BY <1>3, <1>4, <1>5, SomeIn
  <1>7. a[s \ {Some(s)}] = b[s \ {Some(s)}] /\ f[Some(s)] = g[Some(s)]
    BY <1>2, <1>3, <1>6
  <1> QED  BY <1>3, <1>4, <1>5, <1>6, <1>7

(* The library's sum is one of these functions, and an integer.               *)
LEMMA SumIs ==
  ASSUME NEW S, IsFiniteSet(S), NEW f, \A x \in S : f[x] \in Int
  PROVE  \E g : Sums(f, S, g) /\ g[S] = SumFunctionOnSet(f, S) /\ g[S] \in Int
  <1> DEFINE g == CHOOSE h : Sums(f, S, h)
  <1>1. PICK h : Sums(f, S, h) /\ h[S] \in Int
    BY SumsExists
  <1>2. Sums(f, S, g)
    BY <1>1
  <1>3. g[S] = SumFunctionOnSet(f, S)
    BY SumDef
  <1> HIDE DEF g
  <1>4. g[S] = h[S]
    BY <1>1, <1>2, SumsUnique
  <1> QED  BY <1>1, <1>2, <1>3, <1>4

(* The laws of sums: of functions that agree, of no elements, without one     *)
(* element, and without two.                                                  *)
LEMMA SumInt ==
  ASSUME NEW S, IsFiniteSet(S), NEW f, \A x \in S : f[x] \in Int
  PROVE  SumFunctionOnSet(f, S) \in Int
  BY SumIs

(* A sum depends only on the values summed.                                   *)
LEMMA SumSame ==
  ASSUME NEW S, IsFiniteSet(S), NEW f, \A x \in S : f[x] \in Int, NEW g, \A x \in S : f[x] = g[x]
  PROVE  SumFunctionOnSet(f, S) = SumFunctionOnSet(g, S)
  <1>1. PICK a : Sums(f, S, a) /\ a[S] = SumFunctionOnSet(f, S)
    BY SumIs
  <1>2. \A x \in S : g[x] \in Int
    OBVIOUS
  <1>3. PICK b : Sums(g, S, b) /\ b[S] = SumFunctionOnSet(g, S)
    BY <1>2, SumIs
  <1>4. a[S] = b[S]
    BY <1>1, <1>3, SumsUnique
  <1> QED  BY <1>1, <1>3, <1>4

(* The empty sum.                                                             *)
LEMMA SumEmpty == \A f : SumFunctionOnSet(f, {}) = 0
  <1> TAKE f
  <1>1. IsFiniteSet({})
    BY FS_EmptySet
  <1>2. PICK g : Sums(f, {}, g) /\ g[{}] = SumFunctionOnSet(f, {})
    BY <1>1, SumIs
  <1> QED  BY <1>2 DEF Sums

(* A sum is one summand and the rest, for the element CHOOSE takes.           *)
LEMMA SumSome ==
  ASSUME NEW S, IsFiniteSet(S), NEW f, \A x \in S : f[x] \in Int, S # {}
  PROVE  SumFunctionOnSet(f, S) = f[Some(S)] + SumFunctionOnSet(f, S \ {Some(S)})
  <1> DEFINE T == S \ {Some(S)}
  <1>1. PICK a : Sums(f, S, a) /\ a[S] = SumFunctionOnSet(f, S)
    BY SumIs
  <1>2. IsFiniteSet(T) /\ \A x \in T : f[x] \in Int
    BY FS_Subset
  <1>3. PICK b : Sums(f, T, b) /\ b[T] = SumFunctionOnSet(f, T)
    BY <1>2, SumIs
  <1>4. a[T] = b[T]
    BY <1>1, <1>3, SumsUnique
  <1>5. a[S] = f[Some(S)] + a[T]
    BY <1>1 DEF Sums
  <1> QED  BY <1>1, <1>3, <1>4, <1>5

(* And for any element: the order of summation does not matter.               *)
LEMMA SumWithout ==
  ASSUME NEW S, IsFiniteSet(S), NEW f, \A x \in S : f[x] \in Int, NEW x \in S
  PROVE  SumFunctionOnSet(f, S) = f[x] + SumFunctionOnSet(f, S \ {x})
  <1> DEFINE F(s) == SumFunctionOnSet(f, s)
             B == {s \in SUBSET S : \E y \in s : F(s) # f[y] + F(s \ {y})}
  <1> SUFFICES ASSUME B # {} PROVE FALSE
    OBVIOUS
  <1>1. B \subseteq SUBSET S
    OBVIOUS
  <1>2. PICK s \in B : \A y \in s : s \ {y} \notin B
    BY <1>1, Smallest
  <1>3. PICK y \in s : F(s) # f[y] + F(s \ {y})
    OBVIOUS
  <1>4. s \subseteq S /\ Some(s) \in s
    BY <1>1, <1>3, SomeIn
  <1> DEFINE c == Some(s)
  <1> HIDE DEF c
  <1>5. ASSUME NEW t \in SUBSET s
        PROVE  IsFiniteSet(t) /\ (\A z \in t : f[z] \in Int) /\ F(t) \in Int
    <2>1. t \in SUBSET S
      BY <1>4
    <2> QED  BY <2>1, FS_Subset, SumInt
  <1>6. F(s) = f[c] + F(s \ {c})
    BY <1>3, <1>5, SumSome DEF c
  <1>7. c # y /\ c \in s
    BY <1>3, <1>4, <1>6 DEF c
  <1>8. \A z, w \in s : z # w => F(s \ {z}) = f[w] + F((s \ {z}) \ {w})
    BY <1>2, <1>4
  <1>9. (s \ {c}) \ {y} = (s \ {y}) \ {c}
    OBVIOUS
  <1>10. F(s \ {c}) = f[y] + F((s \ {c}) \ {y}) /\ F(s \ {y}) = f[c] + F((s \ {c}) \ {y})
    BY <1>7, <1>8, <1>9
  <1>11. f[c] \in Int /\ f[y] \in Int /\ F((s \ {c}) \ {y}) \in Int
    BY <1>5, <1>7
  <1> HIDE DEF F
  <1> QED  BY <1>3, <1>6, <1>10, <1>11

(* A sum over one more element.                                               *)
LEMMA SumWith ==
  ASSUME NEW S, IsFiniteSet(S), NEW f, \A x \in S : f[x] \in Int, NEW x, x \notin S, f[x] \in Int
  PROVE  SumFunctionOnSet(f, S \cup {x}) = f[x] + SumFunctionOnSet(f, S)
  <1> DEFINE T == S \cup {x}
  <1>1. IsFiniteSet(T) /\ x \in T /\ \A y \in T : f[y] \in Int
    BY FS_AddElement
  <1>2. T \ {x} = S
    OBVIOUS
  <1> HIDE DEF T
  <1>3. SumFunctionOnSet(f, T) = f[x] + SumFunctionOnSet(f, T \ {x})
    BY <1>1, SumWithout
  <1> QED  BY <1>2, <1>3 DEF T

(* The sum of sums, and what follows from it: a sum of zeros is zero, and     *)
(* functions that differ at one point have sums that differ as much.          *)
LEMMA SumPlus ==
  ASSUME NEW S, IsFiniteSet(S), NEW f, NEW g, NEW h,
         \A x \in S : f[x] \in Int /\ g[x] \in Int /\ h[x] = f[x] + g[x]
  PROVE  SumFunctionOnSet(h, S) = SumFunctionOnSet(f, S) + SumFunctionOnSet(g, S)
  <1> DEFINE F(s) == SumFunctionOnSet(f, s)
             G(s) == SumFunctionOnSet(g, s)
             H(s) == SumFunctionOnSet(h, s)
             B == {s \in SUBSET S : H(s) # F(s) + G(s)}
  <1> SUFFICES ASSUME B # {} PROVE FALSE
    OBVIOUS
  <1>1. B \subseteq SUBSET S
    OBVIOUS
  <1>2. PICK s \in B : \A x \in s : s \ {x} \notin B
    BY <1>1, Smallest
  <1>3. s # {}
    <2>1. F({}) = 0 /\ G({}) = 0 /\ H({}) = 0
      BY SumEmpty
    <2> QED  BY <1>2, <2>1
  <1>4. PICK x \in s : TRUE
    BY <1>3
  <1>5. \A y \in s : f[y] \in Int /\ g[y] \in Int /\ h[y] \in Int /\ h[y] = f[y] + g[y]
    OBVIOUS
  <1>6. IsFiniteSet(s) /\ IsFiniteSet(s \ {x})
    BY FS_Subset
  <1>7. F(s) = f[x] + F(s \ {x}) /\ G(s) = g[x] + G(s \ {x}) /\ H(s) = h[x] + H(s \ {x})
    BY <1>4, <1>5, <1>6, SumWithout
  <1>8. F(s \ {x}) \in Int /\ G(s \ {x}) \in Int
    BY <1>5, <1>6, SumInt
  <1>9. H(s \ {x}) = F(s \ {x}) + G(s \ {x}) /\ H(s) # F(s) + G(s)
    BY <1>2, <1>4
  <1>10. f[x] \in Int /\ g[x] \in Int /\ h[x] = f[x] + g[x]
    BY <1>4, <1>5
  <1> HIDE DEF F, G, H
  <1> QED  BY <1>7, <1>8, <1>9, <1>10

(* A sum of zeros.                                                            *)
LEMMA SumZero ==
  ASSUME NEW S, IsFiniteSet(S), NEW f, \A x \in S : f[x] = 0
  PROVE  SumFunctionOnSet(f, S) = 0
  <1>1. \A x \in S : f[x] \in Int /\ f[x] \in Int /\ f[x] = f[x] + f[x]
    OBVIOUS
  <1>2. SumFunctionOnSet(f, S) = SumFunctionOnSet(f, S) + SumFunctionOnSet(f, S)
    BY <1>1, SumPlus
  <1>3. SumFunctionOnSet(f, S) \in Int
    BY <1>1, SumInt
  <1>4. \A n \in Int : n = n + n => n = 0
    OBVIOUS
  <1> QED  BY <1>2, <1>3, <1>4

(* A sum when one summand changes.                                            *)
LEMMA SumChange ==
  ASSUME NEW S, IsFiniteSet(S), NEW f, NEW g, NEW x \in S,
         \A y \in S : f[y] \in Int /\ g[y] \in Int, \A y \in S : y # x => g[y] = f[y]
  PROVE  SumFunctionOnSet(g, S) = SumFunctionOnSet(f, S) + (g[x] - f[x])
  <1>1. IsFiniteSet(S \ {x})
    BY FS_Subset
  <1>2. SumFunctionOnSet(g, S \ {x}) = SumFunctionOnSet(f, S \ {x})
    <2>1. \A y \in S \ {x} : f[y] \in Int /\ f[y] = g[y]
      OBVIOUS
    <2> QED  BY <1>1, <2>1, SumSame
  <1>3. SumFunctionOnSet(f, S \ {x}) \in Int
    BY <1>1, SumInt
  <1>4. /\ SumFunctionOnSet(f, S) = f[x] + SumFunctionOnSet(f, S \ {x})
        /\ SumFunctionOnSet(g, S) = g[x] + SumFunctionOnSet(g, S \ {x})
    BY SumWithout
  <1>5. f[x] \in Int /\ g[x] \in Int
    OBVIOUS
  <1> QED  BY <1>2, <1>3, <1>4, <1>5

(* Where a function is zero it can be left out of the sum.                    *)
LEMMA SumSupport ==
  ASSUME NEW S, IsFiniteSet(S), NEW T, T \subseteq S, NEW f,
         \A x \in S : f[x] \in Int, \A x \in S \ T : f[x] = 0
  PROVE  SumFunctionOnSet(f, S) = SumFunctionOnSet(f, T)
  <1> DEFINE F(s) == SumFunctionOnSet(f, s)
             U == S \ T
             B == {s \in SUBSET U : F(T \cup s) # F(T)}
  <1> SUFFICES ASSUME B # {} PROVE FALSE
    <2>1. S = T \cup U /\ U \in SUBSET U
      OBVIOUS
    <2>2. F(T \cup U) = F(T)
      BY <2>1
    <2> QED  BY <2>1, <2>2
  <1>1. B \subseteq SUBSET U /\ IsFiniteSet(U) /\ IsFiniteSet(T)
    BY FS_Subset
  <1>2. PICK s \in B : \A x \in s : s \ {x} \notin B
    BY <1>1, Smallest
  <1>3. s # {}
    BY <1>2
  <1>4. PICK x \in s : TRUE
    BY <1>3
  <1>5. T \cup s \in SUBSET S /\ x \in T \cup s
    BY <1>1, <1>4
  <1>6. IsFiniteSet(T \cup s) /\ \A y \in T \cup s : f[y] \in Int
    BY <1>5, FS_Subset
  <1>7. F(T \cup s) = f[x] + F((T \cup s) \ {x})
    BY <1>5, <1>6, SumWithout
  <1>8. (T \cup s) \ {x} = T \cup (s \ {x})
    BY <1>1, <1>4
  <1>9. F(T \cup (s \ {x})) = F(T) /\ F(T \cup s) # F(T) /\ f[x] = 0
    BY <1>2, <1>4
  <1>10. F(T) \in Int
    BY <1>1, SumInt
  <1>11. F(T \cup s) = 0 + F(T)
    BY <1>7, <1>8, <1>9
  <1> HIDE DEF F
  <1> QED  BY <1>9, <1>10, <1>11

(* Summing over names instead of what they name.                              *)
LEMMA SumRenamed ==
  ASSUME NEW S, IsFiniteSet(S), NEW m, \A x, y \in S : m[x] = m[y] => x = y,
         NEW f, NEW g, \A x \in S : f[m[x]] \in Int /\ g[x] = f[m[x]]
  PROVE  SumFunctionOnSet(f, {m[x] : x \in S}) = SumFunctionOnSet(g, S)
  <1> DEFINE I(s) == {m[x] : x \in s}
             B == {s \in SUBSET S : SumFunctionOnSet(f, I(s)) # SumFunctionOnSet(g, s)}
  <1> SUFFICES ASSUME B # {} PROVE FALSE
    OBVIOUS
  <1>1. B \subseteq SUBSET S
    OBVIOUS
  <1>2. PICK s \in B : \A x \in s : s \ {x} \notin B
    BY <1>1, Smallest
  <1>3. s # {}
    <2> SUFFICES ASSUME s = {} PROVE FALSE
      OBVIOUS
    <2>1. I(s) = {}
      OBVIOUS
    <2> QED  BY <1>2, <2>1, SumEmpty
  <1>4. PICK x \in s : TRUE
    BY <1>3
  <1>5. IsFiniteSet(s) /\ IsFiniteSet(s \ {x}) /\ IsFiniteSet(I(s))
    <2>1. IsFiniteSet(s) /\ IsFiniteSet(s \ {x})
      BY FS_Subset
    <2>2. [y \in s |-> m[y]] \in Surjection(s, I(s))
      BY DEF Surjection
    <2> QED  BY <2>1, <2>2, FS_Surjection
  <1>6. I(s) \ {m[x]} = I(s \ {x})
    BY <1>1, <1>4
  <1>7. SumFunctionOnSet(f, I(s)) = f[m[x]] + SumFunctionOnSet(f, I(s) \ {m[x]})
    <2>1. (\A y \in I(s) : f[y] \in Int) /\ m[x] \in I(s)
      BY <1>1, <1>4
    <2> HIDE DEF I
    <2> QED  BY <1>5, <2>1, SumWithout
  <1>8. SumFunctionOnSet(g, s) = g[x] + SumFunctionOnSet(g, s \ {x})
    BY <1>1, <1>4, <1>5, SumWithout
  <1>9. SumFunctionOnSet(f, I(s \ {x})) = SumFunctionOnSet(g, s \ {x})
    BY <1>2, <1>4
  <1> QED  BY <1>1, <1>2, <1>4, <1>6, <1>7, <1>8, <1>9

(* A sum of naturals is one.                                                  *)
LEMMA SumNonNegative ==
  ASSUME NEW S, IsFiniteSet(S), NEW f, \A x \in S : f[x] \in Nat
  PROVE  SumFunctionOnSet(f, S) \in Nat
  <1> DEFINE F(s) == SumFunctionOnSet(f, s)
             B == {s \in SUBSET S : F(s) \notin Nat}
  <1> SUFFICES ASSUME B # {} PROVE FALSE
    OBVIOUS
  <1>1. B \subseteq SUBSET S
    OBVIOUS
  <1>2. PICK s \in B : \A x \in s : s \ {x} \notin B
    BY <1>1, Smallest
  <1>3. s # {}
    BY <1>2, SumEmpty
  <1>4. PICK x \in s : TRUE
    BY <1>3
  <1>5. IsFiniteSet(s) /\ \A y \in s : f[y] \in Int
    BY FS_Subset
  <1>6. F(s) = f[x] + F(s \ {x})
    BY <1>4, <1>5, SumWithout
  <1>7. F(s \ {x}) \in Nat /\ F(s) \notin Nat /\ f[x] \in Nat
    BY <1>2, <1>4
  <1> HIDE DEF F
  <1> QED  BY <1>6, <1>7

-----------------------------------------------------------------------------
(* The fold is a sum *)

State == [balance : Int, held : Int, version : Int]

Countable(s) == \A i \in DOMAIN s : s[i].type \in EventType /\ s[i].amount \in Int

Moved(s)    == [i \in DOMAIN s |-> BalanceDelta(s[i])]
Reserved(s) == [i \in DOMAIN s |-> HeldDelta(s[i])]

(* The state st after the rows t of s.                                        *)
After(st, s, t) ==
  [balance |-> st.balance + SumFunctionOnSet(Moved(s), t),
   held    |-> st.held + SumFunctionOnSet(Reserved(s), t),
   version |-> st.version + Cardinality(t)]

Folds(st, s, g) ==
  g = [t \in SUBSET DOMAIN s |-> IF t = {} THEN st ELSE Apply(g[t \ {Max(t)}], s[Max(t)])]

(* What FoldLeft unfolds to.                                                  *)
LEMMA FoldLeftDef ==
  ASSUME NEW st, NEW s
  PROVE  FoldLeft(Apply, st, s) = (CHOOSE g : Folds(st, s, g))[DOMAIN s]
  BY DEF FoldLeft, MapThenFoldSet, Folds

(* Every event type has its signs.                                            *)
LEMMA Signs ==
  \A type \in EventType : BalanceSign(type) \in Int /\ HeldSign(type) \in Int
  BY DEF EventType, BalanceSign, HeldSign

(* An event's deltas are integers.                                            *)
LEMMA Deltas ==
  ASSUME NEW e, e.type \in EventType, e.amount \in Int
  PROVE  BalanceDelta(e) \in Int /\ HeldDelta(e) \in Int
  <1>1. \A m, n \in Int : m * n \in Int
    OBVIOUS
  <1> QED  BY <1>1, Signs DEF BalanceDelta, HeldDelta

(* The greatest of a nonempty set of indices is in it.                        *)
LEMMA MaxIn ==
  ASSUME NEW n \in Nat, NEW T, T \subseteq 1..n, T # {}
  PROVE  Max(T) \in T /\ \A y \in T : y <= Max(T)
  <1> DEFINE U == {k \in 0..n : n - k \in T}
  <1>1. U \subseteq Nat /\ U # {}
    <2>1. PICK x \in T : TRUE
      OBVIOUS
    <2>2. n - x \in 0..n /\ n - (n - x) = x
      OBVIOUS
    <2>3. n - x \in U
      BY <2>1, <2>2
    <2>4. U \subseteq Nat
      OBVIOUS
    <2> HIDE DEF U
    <2> QED  BY <2>3, <2>4
  <1>2. PICK u \in U : \A y \in U : u =< y
    BY <1>1, LeastNat
  <1>3. \A y \in T : n - y \in U
    OBVIOUS
  <1>4. n - u \in T /\ \A y \in T : n - u >= y
    BY <1>2, <1>3
  <1>5. \A y \in T : y <= n - u
    BY <1>4
  <1> QED  BY <1>4, <1>5 DEF Max

(* One more row.                                                              *)
LEMMA AfterOne ==
  ASSUME NEW st \in State, NEW s, Countable(s), NEW t \in SUBSET DOMAIN s, IsFiniteSet(t),
         NEW i \in t
  PROVE  After(st, s, t) = Apply(After(st, s, t \ {i}), s[i])
  <1> DEFINE u == t \ {i}
  <1>1. \A j \in t : Moved(s)[j] \in Int /\ Reserved(s)[j] \in Int
    BY Deltas DEF Countable, Moved, Reserved
  <1>2. IsFiniteSet(u) /\ Cardinality(u) = Cardinality(t) - 1 /\ Cardinality(t) \in Nat
    BY FS_RemoveElement, FS_CardinalityType
  <1>3. /\ SumFunctionOnSet(Moved(s), t) = Moved(s)[i] + SumFunctionOnSet(Moved(s), u)
        /\ SumFunctionOnSet(Reserved(s), t) = Reserved(s)[i] + SumFunctionOnSet(Reserved(s), u)
    BY <1>1, SumWithout
  <1>4. SumFunctionOnSet(Moved(s), u) \in Int /\ SumFunctionOnSet(Reserved(s), u) \in Int
    BY <1>1, <1>2, SumInt
  <1>5. Moved(s)[i] = BalanceDelta(s[i]) /\ Reserved(s)[i] = HeldDelta(s[i])
    BY DEF Moved, Reserved
  <1>6. Moved(s)[i] \in Int /\ Reserved(s)[i] \in Int
    BY <1>1
  <1>7. st.balance \in Int /\ st.held \in Int /\ st.version \in Int
    BY DEF State
  <1> HIDE DEF u
  <1>8. /\ st.balance + SumFunctionOnSet(Moved(s), t)
             = (st.balance + SumFunctionOnSet(Moved(s), u)) + BalanceDelta(s[i])
        /\ st.held + SumFunctionOnSet(Reserved(s), t)
             = (st.held + SumFunctionOnSet(Reserved(s), u)) + HeldDelta(s[i])
        /\ st.version + Cardinality(t) = (st.version + Cardinality(u)) + 1
    BY <1>2, <1>3, <1>4, <1>5, <1>6, <1>7
  <1> QED  BY <1>8 DEF After, Apply, u

(* No rows, no change.                                                        *)
LEMMA AfterNone ==
  ASSUME NEW st \in State, NEW s
  PROVE  After(st, s, {}) = st
  <1>1. Cardinality({}) = 0
    BY FS_EmptySet
  <1>2. \A f : SumFunctionOnSet(f, {}) = 0
    BY SumEmpty
  <1> QED  BY <1>1, <1>2 DEF After, State

(* Applying events one by one gives the sum.                                  *)
LEMMA FoldLeftSum ==
  ASSUME NEW st \in State, NEW s, NEW n \in Nat, DOMAIN s = 1..n, Countable(s)
  PROVE  FoldLeft(Apply, st, s) = After(st, s, 1..n)
  <1> DEFINE D == DOMAIN s
             w == [t \in SUBSET D |-> After(st, s, t)]
             g == CHOOSE h : Folds(st, s, h)
             B == {t \in SUBSET D : g[t] # w[t]}
  <1>1. IsFiniteSet(D)
    BY FS_Interval
  <1>2. \A t \in SUBSET D : t # {} => Max(t) \in t
    BY MaxIn
  <1>3. Folds(st, s, w)
    <2>1. ASSUME NEW t \in SUBSET D
          PROVE  w[t] = IF t = {} THEN st ELSE Apply(w[t \ {Max(t)}], s[Max(t)])
      <3>1. IsFiniteSet(t)
        BY <1>1, FS_Subset
      <3>2. CASE t = {}
        BY <3>2, AfterNone
      <3>3. CASE t # {}
        BY <1>2, <3>1, <3>3, AfterOne
      <3> QED  BY <3>2, <3>3
    <2> QED  BY <2>1 DEF Folds
  <1>4. Folds(st, s, g)
    BY <1>3
  <1>5. FoldLeft(Apply, st, s) = g[D]
    BY FoldLeftDef
  <1> HIDE DEF g, w
  <1> SUFFICES ASSUME B # {} PROVE FALSE
    <2>1. g[D] = w[D] /\ w[D] = After(st, s, 1..n)
      BY DEF w
    <2> QED  BY <1>5, <2>1
  <1>6. PICK t \in B : \A x \in t : t \ {x} \notin B
    <2>1. B \subseteq SUBSET D
      OBVIOUS
    <2> QED  BY <1>1, <2>1, Smallest
  <1>7. /\ g[t] = IF t = {} THEN st ELSE Apply(g[t \ {Max(t)}], s[Max(t)])
        /\ w[t] = IF t = {} THEN st ELSE Apply(w[t \ {Max(t)}], s[Max(t)])
    BY <1>3, <1>4 DEF Folds
  <1>8. t # {} /\ Max(t) \in t
    BY <1>2, <1>7
  <1>9. g[t \ {Max(t)}] = w[t \ {Max(t)}]
    BY <1>6, <1>8
  <1> QED  BY <1>7, <1>8, <1>9

Zero == [balance |-> 0, held |-> 0, version |-> 0]

Dense(s) == \E n \in Nat : DOMAIN s = 1..n

(* The version of a stream numbered 1..n is n.                                *)
LEMMA DenseVersion ==
  ASSUME NEW s, NEW n \in Nat, DOMAIN s = 1..n
  PROVE  Version(s) = n /\ IsFiniteSet(DOMAIN s)
  <1>1. Cardinality(1..n) = n /\ IsFiniteSet(1..n)
    BY FS_Interval, SMT
  <1> QED  BY <1>1 DEF Version

(* Rows lead to a state.                                                      *)
LEMMA AfterType ==
  ASSUME NEW st \in State, NEW s, Countable(s), NEW t \in SUBSET DOMAIN s, IsFiniteSet(t)
  PROVE  After(st, s, t) \in State
  <1>1. \A j \in t : Moved(s)[j] \in Int /\ Reserved(s)[j] \in Int
    BY Deltas DEF Countable, Moved, Reserved
  <1>2. SumFunctionOnSet(Moved(s), t) \in Int /\ SumFunctionOnSet(Reserved(s), t) \in Int
    BY <1>1, SumInt
  <1>3. Cardinality(t) \in Nat
    BY FS_CardinalityType
  <1> QED  BY <1>2, <1>3 DEF After, State

(* An empty stream's state is one.                                            *)
LEMMA ZeroState == Zero \in State
  BY DEF Zero, State

(* The fold of a stream is the state after all its rows.                      *)
LEMMA FoldAfter ==
  ASSUME NEW s, Dense(s), Countable(s)
  PROVE  Fold(s) = After(Zero, s, DOMAIN s) /\ Fold(s) \in State
  <1>1. IsFiniteSet(DOMAIN s)
    BY DenseVersion DEF Dense
  <1>2. After(Zero, s, DOMAIN s) \in State
    BY <1>1, AfterType, ZeroState
  <1>3. \A j \in DOMAIN s : Moved(s)[j] \in Int /\ Reserved(s)[j] \in Int
    BY Deltas DEF Countable, Moved, Reserved
  <1>4. /\ SumFunctionOnSet(Moved(s), DOMAIN s) \in Int
        /\ SumFunctionOnSet(Reserved(s), DOMAIN s) \in Int
    BY <1>1, <1>3, SumInt
  <1>5. Cardinality(DOMAIN s) \in Nat
    BY <1>1, FS_CardinalityType
  <1>6. DOMAIN Moved(s) = DOMAIN s /\ DOMAIN Reserved(s) = DOMAIN s
    BY DEF Moved, Reserved
  <1>7. Fold(s) = [balance |-> SumFunctionOnSet(Moved(s), DOMAIN s),
                   held    |-> SumFunctionOnSet(Reserved(s), DOMAIN s),
                   version |-> Cardinality(DOMAIN s)]
    BY <1>6 DEF Fold, SumFunction, Moved, Reserved, Version
  <1>8. \A n \in Int : 0 + n = n
    OBVIOUS
  <1>9. After(Zero, s, DOMAIN s) = [balance |-> 0 + SumFunctionOnSet(Moved(s), DOMAIN s),
                   held    |-> 0 + SumFunctionOnSet(Reserved(s), DOMAIN s),
                   version |-> 0 + Cardinality(DOMAIN s)]
    BY DEF After, Zero
  <1> QED  BY <1>2, <1>4, <1>5, <1>7, <1>8, <1>9

(* Rows that two streams share give the same state.                           *)
LEMMA AfterSame ==
  ASSUME NEW st, NEW s, Countable(s), NEW u, NEW t, t \subseteq DOMAIN s, t \subseteq DOMAIN u,
         IsFiniteSet(t), \A i \in t : s[i] = u[i]
  PROVE  After(st, s, t) = After(st, u, t)
  <1>1. \A j \in t : /\ Moved(s)[j] \in Int /\ Reserved(s)[j] \in Int
                     /\ Moved(s)[j] = Moved(u)[j] /\ Reserved(s)[j] = Reserved(u)[j]
    BY Deltas DEF Countable, Moved, Reserved
  <1>2. SumFunctionOnSet(Moved(s), t) = SumFunctionOnSet(Moved(u), t)
    BY <1>1, SumSame
  <1>3. SumFunctionOnSet(Reserved(s), t) = SumFunctionOnSet(Reserved(u), t)
    BY <1>1, SumSame
  <1> QED  BY <1>2, <1>3 DEF After

(* Stream u is stream s and the rows after it, one or two of them.            *)
Extends(s, u, rows) ==
  \E n \in Nat, m \in {1, 2} :
    /\ DOMAIN s = 1..n /\ DOMAIN rows = 1..m /\ Len(rows) = m
    /\ DOMAIN u = 1..(n + m)
    /\ \A i \in 1..n : u[i] = s[i]
    /\ \A k \in 1..m : u[n + k] = rows[k]

(* `apply` raises on no prefix.                                               *)
Sound(s) == \A k \in DOMAIN s : ~ApplyRaises(After(Zero, s, 1..(k - 1)), s[k])

Counts(e) == e.type \in EventType /\ e.amount \in Int

(* Applying no events.                                                        *)
LEMMA FoldLeftNone ==
  ASSUME NEW st \in State
  PROVE  FoldLeft(Apply, st, << >>) = st
  <1> DEFINE s == << >>
  <1>1. DOMAIN s = 1..0 /\ Countable(s) /\ 1..0 = {}
    BY DEF Countable
  <1> HIDE DEF s
  <1>2. FoldLeft(Apply, st, s) = After(st, s, 1..0)
    BY <1>1, FoldLeftSum
  <1>3. FoldLeft(Apply, st, s) = st
    BY <1>1, <1>2, AfterNone
  <1> QED  BY <1>3 DEF s

(* Applying one event.                                                        *)
LEMMA FoldLeftOne ==
  ASSUME NEW st \in State, NEW s, DOMAIN s = 1..1, Counts(s[1])
  PROVE  FoldLeft(Apply, st, s) = Apply(st, s[1])
  <1>1. Countable(s) /\ 1..1 = {1} /\ {1} \ {1} = {}
    BY DEF Countable, Counts
  <1>2. FoldLeft(Apply, st, s) = After(st, s, {1})
    BY <1>1, FoldLeftSum
  <1>3. IsFiniteSet({1})
    BY FS_Singleton
  <1>4. After(st, s, {1}) = Apply(After(st, s, {}), s[1])
    BY <1>1, <1>3, AfterOne
  <1> QED  BY <1>2, <1>4, AfterNone

(* An append of one event raises where `apply` does.                          *)
LEMMA AppendOne ==
  ASSUME NEW st \in State, NEW e
  PROVE  AppendRaises(st, <<e>>) <=> ApplyRaises(st, e)
  <1>1. DOMAIN <<e>> = {1} /\ <<e>>[1] = e /\ 1 - 1 = 0
    OBVIOUS
  <1>2. SubSeq(<<e>>, 1, 0) = << >>
    OBVIOUS
  <1>3. FoldLeft(Apply, st, SubSeq(<<e>>, 1, 1 - 1)) = st
    BY <1>1, <1>2, FoldLeftNone
  <1> QED  BY <1>1, <1>3 DEF AppendRaises

(* An append of two raises on the first, or on the second after it.           *)
LEMMA AppendTwo ==
  ASSUME NEW st \in State, NEW e, NEW f, Counts(e)
  PROVE  AppendRaises(st, <<e, f>>) <=> ApplyRaises(st, e) \/ ApplyRaises(Apply(st, e), f)
  <1> DEFINE s == <<e, f>>
  <1>1. DOMAIN s = {1, 2} /\ s[1] = e /\ s[2] = f /\ 1 - 1 = 0 /\ 2 - 1 = 1
    OBVIOUS
  <1>2. SubSeq(s, 1, 0) = << >> /\ DOMAIN SubSeq(s, 1, 1) = 1..1 /\ SubSeq(s, 1, 1)[1] = e
    OBVIOUS
  <1> HIDE DEF s
  <1>3. FoldLeft(Apply, st, SubSeq(s, 1, 1 - 1)) = st
    BY <1>1, <1>2, FoldLeftNone
  <1>4. FoldLeft(Apply, st, SubSeq(s, 1, 2 - 1)) = Apply(st, e)
    BY <1>1, <1>2, FoldLeftOne
  <1>5. AppendRaises(st, s) <=> ApplyRaises(st, e) \/ ApplyRaises(Apply(st, e), f)
    BY <1>1, <1>3, <1>4 DEF AppendRaises
  <1> QED  BY <1>5 DEF s

(* The rows of one execution: one, or a partial capture's two.                *)
Shape(rows) ==
  \/ \E e : rows = <<e>>
  \/ \E e, f : /\ rows = <<e, f>> /\ e.type = "HoldPosted" /\ f.type = "HoldReleased"
               /\ f.reason = "partial" /\ f.group = e.group

(* The rows of one execution number one or two.                               *)
LEMMA ShapeLen ==
  ASSUME NEW rows, Shape(rows)
  PROVE  \E m \in {1, 2} : DOMAIN rows = 1..m /\ Len(rows) = m
  <1>1. CASE \E e : rows = <<e>>
    BY <1>1
  <1>2. CASE \E e, f : rows = <<e, f>>
    BY <1>2
  <1> QED  BY <1>1, <1>2 DEF Shape

(* InsertRows extends a dense stream by the rows.                             *)
LEMMA Inserted ==
  ASSUME NEW s, Dense(s), NEW rows, Shape(rows)
  PROVE  Extends(s, InsertRows(s, Version(s), rows), rows)
  <1> DEFINE u == InsertRows(s, Version(s), rows)
  <1>1. PICK n \in Nat : DOMAIN s = 1..n
    BY DEF Dense
  <1>2. PICK m \in {1, 2} : DOMAIN rows = 1..m /\ Len(rows) = m
    BY ShapeLen
  <1>3. u = [i \in 1..n \cup (n + 1)..(n + m) |-> IF i \in 1..n THEN s[i] ELSE rows[i - n]]
    BY <1>1, <1>2, DenseVersion DEF InsertRows
  <1> HIDE DEF u
  <1>4. m \in Nat /\ 1..n \cup (n + 1)..(n + m) = 1..(n + m)
    OBVIOUS
  <1>5. DOMAIN u = 1..(n + m) /\ \A i \in 1..n : u[i] = s[i]
    BY <1>3, <1>4
  <1>6. ASSUME NEW k \in 1..m PROVE u[n + k] = rows[k]
    <2>1. n + k \in (n + 1)..(n + m) /\ n + k \notin 1..n /\ (n + k) - n = k
      BY <1>4
    <2> QED  BY <1>3, <2>1
  <1> QED  BY <1>1, <1>2, <1>5, <1>6 DEF Extends, u

(* `apply` returns a state.                                                   *)
LEMMA ApplyType ==
  ASSUME NEW st \in State, NEW e, Counts(e)
  PROVE  Apply(st, e) \in State
  BY Deltas DEF Apply, State, Counts

(* How a stream's fold grows.                                                 *)
LEMMA FoldGrows ==
  ASSUME NEW s, Countable(s), NEW u, Countable(u), NEW rows, Extends(s, u, rows), Shape(rows),
         \A k \in DOMAIN rows : Counts(rows[k])
  PROVE  /\ Fold(u) \in State /\ Fold(s) \in State
         /\ \/ \E e : rows = <<e>> /\ Fold(u) = Apply(Fold(s), e)
            \/ \E e, f : rows = <<e, f>> /\ Fold(u) = Apply(Apply(Fold(s), e), f)
         /\ Sound(s) /\ ~AppendRaises(Fold(s), rows) => Sound(u)
  <1>1. PICK n \in Nat, m \in {1, 2} :
          /\ DOMAIN s = 1..n /\ DOMAIN rows = 1..m /\ Len(rows) = m
          /\ DOMAIN u = 1..(n + m)
          /\ \A i \in 1..n : u[i] = s[i]
          /\ \A k \in 1..m : u[n + k] = rows[k]
    BY DEF Extends
  <1>2. Dense(s) /\ Dense(u) /\ n + m \in Nat
    BY <1>1 DEF Dense
  <1>3. /\ Fold(s) = After(Zero, s, 1..n) /\ Fold(s) \in State
        /\ Fold(u) = After(Zero, u, 1..(n + m)) /\ Fold(u) \in State
    BY <1>1, <1>2, FoldAfter
  <1>4. ASSUME NEW k \in 0..n PROVE After(Zero, u, 1..k) = After(Zero, s, 1..k)
    <2>1. 1..k \subseteq 1..n /\ 1..k \subseteq 1..(n + m) /\ IsFiniteSet(1..k)
      BY FS_Interval
    <2>2. \A i \in 1..k : s[i] = u[i]
      BY <1>1, <2>1
    <2> QED  BY <1>1, <2>1, <2>2, AfterSame
  <1>5. ASSUME NEW k \in 1..(n + m)
        PROVE  After(Zero, u, 1..k) = Apply(After(Zero, u, 1..(k - 1)), u[k])
    <2>0. k \in Nat /\ k >= 1 /\ k <= n + m
      BY <1>2
    <2>1. /\ 1..k \subseteq 1..(n + m) /\ k \in 1..k /\ (1..k) \ {k} = 1..(k - 1)
          /\ IsFiniteSet(1..k)
      <3>1. 1..k \subseteq 1..(n + m) /\ k \in 1..k
        BY <1>2, <2>0
      <3>2. (1..k) \ {k} = 1..(k - 1)
        BY <2>0
      <3>3. IsFiniteSet(1..k)
        BY <2>0, FS_Interval
      <3> QED  BY <3>1, <3>2, <3>3
    <2> QED  BY <1>1, <2>1, AfterOne, ZeroState
  <1>6. After(Zero, u, 1..n) = Fold(s)
    BY <1>3, <1>4
  <1>7. n + 1 \in 1..(n + m) /\ (n + 1) - 1 = n
    OBVIOUS
  <1>8. After(Zero, u, 1..(n + 1)) = Apply(Fold(s), rows[1])
    BY <1>1, <1>5, <1>6, <1>7
  <1>9. CASE m = 1
    <2>1. PICK e : rows = <<e>>
      <3>1. \A e, f : Len(<<e, f>>) = 2
        OBVIOUS
      <3> QED  BY <1>1, <1>9, <3>1 DEF Shape
    <2>2. rows[1] = e
      BY <2>1
    <2>3. Fold(u) = Apply(Fold(s), e)
      BY <1>3, <1>8, <1>9, <2>2
    <2>4. ASSUME Sound(s), ~AppendRaises(Fold(s), rows) PROVE Sound(u)
      <3> SUFFICES ASSUME NEW k \in 1..(n + 1) PROVE ~ApplyRaises(After(Zero, u, 1..(k - 1)), u[k])
        BY <1>1, <1>9 DEF Sound
      <3>1. CASE k \in 1..n
        <4>1. k - 1 \in 0..n
          BY <3>1
        <4>2. ~ApplyRaises(After(Zero, s, 1..(k - 1)), s[k])
          BY <1>1, <2>4, <3>1 DEF Sound
        <4> QED  BY <1>1, <1>4, <3>1, <4>1, <4>2
      <3>2. CASE k = n + 1
        <4>1. ~ApplyRaises(Fold(s), e)
          BY <1>3, <2>1, <2>4, AppendOne
        <4> QED  BY <1>1, <1>6, <1>7, <1>9, <2>2, <3>2, <4>1
      <3> QED  BY <3>1, <3>2
    <2> QED  BY <1>3, <2>1, <2>3, <2>4
  <1>10. CASE m = 2
    <2>1. PICK e, f : rows = <<e, f>>
      <3>1. \A e : Len(<<e>>) = 1
        OBVIOUS
      <3> QED  BY <1>1, <1>10, <3>1 DEF Shape
    <2>2. rows[1] = e /\ rows[2] = f /\ 1 \in 1..m /\ 2 \in 1..m
      BY <1>10, <2>1
    <2>3. n + 2 \in 1..(n + m) /\ (n + 2) - 1 = n + 1
      BY <1>10
    <2>4. Fold(u) = Apply(Apply(Fold(s), e), f)
      BY <1>1, <1>3, <1>5, <1>8, <1>10, <2>2, <2>3
    <2>5. ASSUME Sound(s), ~AppendRaises(Fold(s), rows) PROVE Sound(u)
      <3> SUFFICES ASSUME NEW k \in 1..(n + 2) PROVE ~ApplyRaises(After(Zero, u, 1..(k - 1)), u[k])
        BY <1>1, <1>10 DEF Sound
      <3>0. ~ApplyRaises(Fold(s), e) /\ ~ApplyRaises(Apply(Fold(s), e), f)
        <4>1. Counts(e)
          BY <1>1, <2>2
        <4> QED  BY <1>3, <2>1, <2>5, <4>1, AppendTwo
      <3>1. CASE k \in 1..n
        <4>1. k - 1 \in 0..n
          BY <3>1
        <4>2. ~ApplyRaises(After(Zero, s, 1..(k - 1)), s[k])
          BY <1>1, <2>5, <3>1 DEF Sound
        <4> QED  BY <1>1, <1>4, <3>1, <4>1, <4>2
      <3>2. CASE k = n + 1
        BY <1>1, <1>6, <1>7, <2>2, <3>0, <3>2
      <3>3. CASE k = n + 2
        BY <1>1, <1>8, <2>2, <2>3, <3>0, <3>3
      <3> QED  BY <3>1, <3>2, <3>3
    <2> QED  BY <1>3, <2>1, <2>4, <2>5
  <1> QED  BY <1>9, <1>10

(* What a sound stream folds to.                                              *)
Bounded(st) ==
  /\ st \in State
  /\ 0 <= st.held /\ st.held <= st.balance /\ st.balance <= MaxBigint

(* On such a stream 0 <= held <= balance <= MaxBigint.                        *)
LEMMA SoundBounded ==
  ASSUME NEW s, Dense(s), Countable(s), Sound(s)
  PROVE  Bounded(Fold(s))
  <1>1. PICK n \in Nat : DOMAIN s = 1..n
    BY DEF Dense
  <1>2. Fold(s) = After(Zero, s, 1..n) /\ Fold(s) \in State
    BY <1>1, FoldAfter
  <1>3. CASE n = 0
    <2>1. Fold(s) = Zero
      <3>1. 1..n = {}
        BY <1>3
      <3> QED  BY <1>2, <3>1, AfterNone, ZeroState
    <2> QED  BY <1>2, <2>1, DomainAssumption DEF Bounded, Zero
  <1>4. CASE n # 0
    <2> DEFINE before == After(Zero, s, 1..(n - 1))
    <2>1. n \in 1..n /\ (1..n) \ {n} = 1..(n - 1) /\ IsFiniteSet(1..n) /\ IsFiniteSet(1..(n - 1))
      BY <1>4, FS_Interval
    <2>2. Fold(s) = Apply(before, s[n])
      BY <1>1, <1>2, <2>1, AfterOne, ZeroState
    <2>3. ~ApplyRaises(before, s[n])
      BY <1>1, <2>1 DEF Sound
    <2>4. before \in State
      BY <1>1, <2>1, AfterType, ZeroState
    <2>5. BalanceDelta(s[n]) \in Int /\ HeldDelta(s[n]) \in Int
      BY <1>1, <2>1, Deltas DEF Countable
    <2>6. before.balance \in Int /\ before.held \in Int
      BY <2>4 DEF State
    <2> HIDE DEF before
    <2> QED  BY <1>2, <2>2, <2>3, <2>5, <2>6, DomainAssumption DEF Bounded, ApplyRaises, Apply
  <1> QED  BY <1>3, <1>4

-----------------------------------------------------------------------------
(* What an accepted command appends *)

(* A row that its constructor accepts; only reversals name what they revert.  *)
Typed(a, e) ==
  /\ ValidEvent(a, e)
  /\ {e.cmd, e.group, e.reverts} \subseteq CommandId \cup {NoId}
  /\ e.type \in {"Deposited", "Withdrawn"} => e.group = NoId
  /\ e.type \notin {"ReversalDebited", "ReversalCredited"} => e.reverts = NoId

(* The movement rows of group g in stream s, and what they do to the balance. *)
Moves(s, g) == {i \in DOMAIN s : s[i].group = g /\ s[i].type \in MovementTypes}

Net(s, g) == IF Moves(s, g) = {} THEN 0 ELSE BalanceDelta(s[CHOOSE i \in Moves(s, g) : TRUE])

Planned(legs, id, c) ==
  /\ c.account \in DOMAIN legs /\ DOMAIN legs \subseteq Account
  /\ \A a \in DOMAIN legs :
       /\ Shape(legs[a])
       /\ \A k \in DOMAIN legs[a] : Typed(a, legs[a][k]) /\ legs[a][k].cmd = id

(* `apply` accepts the rows, if there are version numbers for them.           *)
Fits(st, rows) == st.version + Len(rows) <= MaxVersion => ~AppendRaises(st, rows)

(* The six shapes of a plan.                                                  *)
Cash(legs, c) ==
  DOMAIN legs = {c.account} /\ \E e : legs[c.account] = <<e>> /\ e.type \in {"Deposited", "Withdrawn"}

Place(legs, id, c) ==
  DOMAIN legs = {c.account} /\ \E e : legs[c.account] = <<e>> /\ e.type = "HoldPlaced" /\ e.group = id

Release(streams, legs, c) ==
  /\ DOMAIN legs = {c.account}
  /\ OpenHold(streams[c.account], c.hold) # NoHold
  /\ \E e : /\ legs[c.account] = <<e>> /\ e.type = "HoldReleased" /\ e.group = c.hold
            /\ e.reason # "partial" /\ e.amount = OpenHold(streams[c.account], c.hold).amount

Capture(streams, legs, c) ==
  LET hold == OpenHold(streams[c.account], c.hold)
  IN  /\ hold # NoHold /\ hold.counterparty \in Account \ {c.account}
      /\ DOMAIN legs = {c.account, hold.counterparty}
      /\ \E p, q : /\ legs[hold.counterparty] = <<q>>
                   /\ q.type = "TransferCredited" /\ q.group = c.hold /\ q.amount = p.amount
                   /\ p.type = "HoldPosted" /\ p.group = c.hold
                   /\ \/ legs[c.account] = <<p>> /\ p.amount = hold.amount
                      \/ \E f : /\ legs[c.account] = <<p, f>> /\ f.group = c.hold
                                /\ f.amount = hold.amount - p.amount

(* What a row of a plan with one row per account does to the balance.         *)
LegNet(legs) == [a \in Account |-> IF a \in DOMAIN legs THEN BalanceDelta(legs[a][1]) ELSE 0]

Move(legs, id) ==
  /\ \A a \in DOMAIN legs : \E e : /\ legs[a] = <<e>> /\ e.group = id
                                   /\ e.type \in {"TransferDebited", "TransferCredited"}
  /\ SumFunctionOnSet(LegNet(legs), Account) = 0

Revert(streams, legs, id, c) ==
  /\ RevertersOf(streams, c.transfer) = {}
  /\ \A a \in DOMAIN legs : \E e : /\ legs[a] = <<e>> /\ e.group = id /\ e.reverts = c.transfer
                                   /\ e.type \in {"ReversalDebited", "ReversalCredited"}
                                   /\ \E i \in Moves(streams[a], c.transfer) :
                                        BalanceDelta(e) = -BalanceDelta(streams[a][i])
  /\ \A a \in Account \ DOMAIN legs : Moves(streams[a], c.transfer) = {}

Plan(streams, legs, id, c) ==
  \/ Cash(legs, c) \/ Place(legs, id, c) \/ Release(streams, legs, c)
  \/ Capture(streams, legs, c) \/ Move(legs, id) \/ Revert(streams, legs, id, c)

(* A decision on the states st of the streams.                                *)
Good(d, st, streams, id, c) ==
  /\ d.outcome # "accepted" => d.legs = NoLegs
  /\ d.outcome = "accepted" =>
       /\ Planned(d.legs, id, c) /\ Plan(streams, d.legs, id, c)
       /\ \A a \in DOMAIN d.legs : Fits(st[a], d.legs[a])

(* A rejection plans nothing.                                                 *)
LEMMA RejectedGood ==
  ASSUME NEW o, o # "accepted", NEW st, NEW streams, NEW id, NEW c
  PROVE  Good(Rejected(o), st, streams, id, c)
  BY DEF Good, Rejected

(* An acceptance is good if its plan is.                                      *)
LEMMA AcceptedGood ==
  ASSUME NEW legs, NEW st, NEW streams, NEW id, NEW c, Planned(legs, id, c),
         Plan(streams, legs, id, c), \A a \in DOMAIN legs : Fits(st[a], legs[a])
  PROVE  Good(Accepted(legs), st, streams, id, c)
  BY DEF Good, Accepted

(* No error is called accepted.                                               *)
LEMMA Errors ==
  ASSUME NEW st, NEW n
  PROVE  DebitError(st, n) # "accepted" /\ CreditError(st, n) # "accepted"
  BY DEF DebitError, CreditError

(* What the checks of a decision are for.                                     *)
LEMMA DebitFits ==
  ASSUME NEW st, Bounded(st), NEW n \in Nat, DebitError(st, n) = "none", NEW e,
         BalanceDelta(e) = -n, HeldDelta(e) = 0
  PROVE  Fits(st, <<e>>)
  <1>1. ~ApplyRaises(st, e)
    BY DomainAssumption DEF Bounded, State, DebitError, Available, ApplyRaises
  <1> QED  BY <1>1, AppendOne DEF Fits, Bounded

(* CreditError rules out what `apply` would refuse of a credit.               *)
LEMMA CreditFits ==
  ASSUME NEW st, Bounded(st), NEW n \in Nat, CreditError(st, n) = "none", NEW e,
         BalanceDelta(e) = n, HeldDelta(e) = 0
  PROVE  Fits(st, <<e>>)
  <1>1. ~ApplyRaises(st, e)
    BY DomainAssumption DEF Bounded, State, CreditError, ApplyRaises
  <1> QED  BY <1>1, AppendOne DEF Fits, Bounded

(* DebitError rules out what `apply` would refuse of a hold.                  *)
LEMMA ReserveFits ==
  ASSUME NEW st, Bounded(st), NEW n \in Nat, DebitError(st, n) = "none", NEW e,
         BalanceDelta(e) = 0, HeldDelta(e) = n
  PROVE  Fits(st, <<e>>)
  <1>1. ~ApplyRaises(st, e)
    BY DomainAssumption DEF Bounded, State, DebitError, Available, ApplyRaises
  <1> QED  BY <1>1, AppendOne DEF Fits, Bounded

(* The deltas by type.                                                        *)
LEMMA DeltaOf ==
  ASSUME NEW e, e.amount \in Int
  PROVE  /\ e.type \in {"Deposited", "TransferCredited", "ReversalCredited"} =>
              BalanceDelta(e) = e.amount /\ HeldDelta(e) = 0
         /\ e.type \in {"Withdrawn", "TransferDebited", "ReversalDebited"} =>
              BalanceDelta(e) = -e.amount /\ HeldDelta(e) = 0
         /\ e.type = "HoldPlaced" => BalanceDelta(e) = 0 /\ HeldDelta(e) = e.amount
         /\ e.type = "HoldReleased" => BalanceDelta(e) = 0 /\ HeldDelta(e) = -e.amount
         /\ e.type = "HoldPosted" => BalanceDelta(e) = -e.amount /\ HeldDelta(e) = -e.amount
  BY DEF BalanceDelta, HeldDelta, BalanceSign, HeldSign

(* A plan of one row on the command's own account.                            *)
LEMMA SingleGood ==
  ASSUME NEW e, NEW st, NEW streams, NEW id, NEW c, c.account \in Account,
         Typed(c.account, e), e.cmd = id, Fits(st[c.account], <<e>>),
         NEW legs, legs = [a \in {c.account} |-> <<e>>], Plan(streams, legs, id, c)
  PROVE  Good(Accepted(legs), st, streams, id, c)
  <1>1. DOMAIN legs = {c.account} /\ \A a \in DOMAIN legs : legs[a] = <<e>>
    OBVIOUS
  <1>2. DOMAIN <<e>> = {1} /\ <<e>>[1] = e
    OBVIOUS
  <1>3. Planned(legs, id, c)
    BY <1>1, <1>2 DEF Planned, Shape
  <1> QED  BY <1>1, <1>3, AcceptedGood

(* Deposits and withdrawals.                                                  *)
LEMMA DecideGood ==
  ASSUME NEW st, NEW streams, NEW c, ValidCommand(c), c.kind \in {"Deposit", "Withdraw"},
         NEW id \in CommandId, Bounded(st[c.account])
  PROVE  Good(Decide(st[c.account], c, id), st, streams, id, c)
  <1> DEFINE s == st[c.account]
             error == IF c.kind = "Deposit" THEN CreditError(s, c.amount) ELSE DebitError(s, c.amount)
             e == Event(IF c.kind = "Deposit" THEN "Deposited" ELSE "Withdrawn", c.amount, id)
             legs == [a \in {c.account} |-> <<e>>]
  <1>1. Decide(s, c, id) = IF error # "none" THEN Rejected(error) ELSE Accepted(legs)
    BY Zenon DEF Decide
  <1>2. error # "accepted"
    BY Errors
  <1>3. c.account \in Account /\ c.amount \in 1..MaxBigint
    BY DEF ValidCommand, ValidFollowUp, ValidAmount
  <1>4. /\ e.type = (IF c.kind = "Deposit" THEN "Deposited" ELSE "Withdrawn")
        /\ e.amount = c.amount /\ e.cmd = id /\ e.group = NoId /\ e.reverts = NoId
    BY DEF Event
  <1> HIDE DEF e
  <1>5. Typed(c.account, e)
    BY <1>3, <1>4 DEF Typed, ValidEvent, ValidAmount, EventType
  <1>6. c.amount \in Nat /\ e.amount \in Int
    BY <1>3, <1>4, DomainAssumption
  <1>7. error = "none" => Fits(s, <<e>>)
    <2>1. CASE c.kind = "Deposit"
      BY <1>4, <1>6, <2>1, DeltaOf, CreditFits
    <2>2. CASE c.kind # "Deposit"
      BY <1>4, <1>6, <2>2, DeltaOf, DebitFits
    <2> QED  BY <2>1, <2>2
  <1>8. Plan(streams, legs, id, c)
    <2>1. DOMAIN legs = {c.account} /\ legs[c.account] = <<e>>
      OBVIOUS
    <2> HIDE DEF legs
    <2> QED  BY <1>4, <2>1 DEF Plan, Cash
  <1> HIDE DEF error
  <1>9. error = "none" => Good(Accepted(legs), st, streams, id, c)
    BY <1>3, <1>4, <1>5, <1>7, <1>8, SingleGood
  <1> HIDE DEF legs
  <1> QED  BY <1>1, <1>2, <1>9, RejectedGood

(* Holds.                                                                     *)
LEMMA DecideHoldGood ==
  ASSUME NEW st, NEW streams, NEW c, ValidCommand(c), c.kind = "Hold",
         NEW id \in CommandId, Bounded(st[c.account]), NEW t \in Nat
  PROVE  Good(DecideHold(st[c.account], c, id, t), st, streams, id, c)
  <1> DEFINE s == st[c.account]
             error == DebitError(s, c.amount)
             e == [GroupedEvent("HoldPlaced", c.amount, id, id, c.target) EXCEPT !.expires = t + c.ttl]
             legs == [a \in {c.account} |-> <<e>>]
  <1>1. DecideHold(s, c, id, t) = IF error # "none" THEN Rejected(error) ELSE Accepted(legs)
    BY Zenon DEF DecideHold
  <1>2. error # "accepted"
    BY Errors
  <1>3. c.account \in Account /\ c.amount \in 1..MaxBigint /\ c.target \in Account \ {c.account}
    BY DEF ValidCommand, ValidFollowUp, ValidAmount
  <1>4. /\ e.type = "HoldPlaced" /\ e.amount = c.amount /\ e.cmd = id /\ e.group = id
        /\ e.counterparty = c.target /\ e.reverts = NoId
    BY DEF GroupedEvent, Event
  <1> HIDE DEF e
  <1>5. Typed(c.account, e)
    BY <1>3, <1>4 DEF Typed, ValidEvent, ValidAmount, EventType, ValidHoldEvent
  <1>6. c.amount \in Nat /\ e.amount \in Int
    BY <1>3, <1>4, DomainAssumption
  <1>7. error = "none" => Fits(s, <<e>>)
    BY <1>4, <1>6, DeltaOf, ReserveFits
  <1>8. Plan(streams, legs, id, c)
    <2>1. DOMAIN legs = {c.account} /\ legs[c.account] = <<e>>
      OBVIOUS
    <2> HIDE DEF legs
    <2> QED  BY <1>4, <2>1 DEF Plan, Place
  <1> HIDE DEF error
  <1>9. error = "none" => Good(Accepted(legs), st, streams, id, c)
    BY <1>3, <1>4, <1>5, <1>7, <1>8, SingleGood
  <1> HIDE DEF legs
  <1> QED  BY <1>1, <1>2, <1>9, RejectedGood

(* An open hold is the placement of a row, and no row closes it.              *)
LEMMA OpenHoldIs ==
  ASSUME NEW s, Dense(s), NEW h, OpenHold(s, h) # NoHold
  PROVE  /\ \E i \in DOMAIN s :
              /\ s[i].type = "HoldPlaced" /\ s[i].group = h
              /\ OpenHold(s, h) = [amount |-> s[i].amount, counterparty |-> s[i].counterparty,
                                   expires |-> s[i].expires]
         /\ \A i \in DOMAIN s : s[i].group = h => ~ClosesHold(s[i])
  <1> DEFINE rows == HoldEvents(s, h)
             placed == {i \in rows : s[i].type = "HoldPlaced"}
             e == s[Max(placed)]
  <1>1. OpenHold(s, h) = IF placed = {} \/ \E i \in rows : ClosesHold(s[i]) THEN NoHold
                         ELSE [amount |-> e.amount, counterparty |-> e.counterparty,
                               expires |-> e.expires]
    BY Zenon DEF OpenHold
  <1>2. placed # {} /\ \A i \in rows : ~ClosesHold(s[i])
    BY <1>1
  <1>3. PICK n \in Nat : DOMAIN s = 1..n
    BY DEF Dense
  <1>4. placed \subseteq 1..n
    BY <1>3 DEF HoldEvents
  <1>5. Max(placed) \in placed
    BY <1>2, <1>4, MaxIn
  <1>6. Max(placed) \in DOMAIN s /\ e.type = "HoldPlaced" /\ e.group = h
    BY <1>5 DEF HoldEvents
  <1>7. \A i \in DOMAIN s : s[i].group = h /\ ClosesHold(s[i]) => i \in rows
    BY DEF HoldEvents, ClosesHold
  <1>8. OpenHold(s, h) = [amount |-> e.amount, counterparty |-> e.counterparty,
                          expires |-> e.expires]
    BY <1>1, <1>2
  <1> HIDE DEF placed, rows
  <1> QED  BY <1>2, <1>6, <1>7, <1>8

(* An open hold has an amount and another account to pay.                     *)
LEMMA OpenHoldType ==
  ASSUME NEW a \in Account, NEW s, Dense(s), \A i \in DOMAIN s : Typed(a, s[i]),
         NEW h, OpenHold(s, h) # NoHold
  PROVE  /\ OpenHold(s, h).amount \in 1..MaxBigint
         /\ OpenHold(s, h).counterparty \in Account \ {a}
  <1>1. PICK i \in DOMAIN s :
          /\ s[i].type = "HoldPlaced" /\ s[i].group = h
          /\ OpenHold(s, h) = [amount |-> s[i].amount, counterparty |-> s[i].counterparty,
                               expires |-> s[i].expires]
    BY OpenHoldIs
  <1>2. ValidEvent(a, s[i])
    BY DEF Typed
  <1>3. s[i].amount \in 1..MaxBigint /\ s[i].counterparty \in Account \ {a}
    BY <1>1, <1>2 DEF ValidEvent, ValidAmount, ValidHoldEvent
  <1> QED  BY <1>1, <1>3

(* Voids and expiries.                                                        *)
LEMMA DecideReleaseGood ==
  ASSUME NEW st, NEW streams, NEW c, ValidCommand(c), c.kind \in {"VoidHold", "ExpireHold"},
         NEW id \in CommandId, Bounded(st[c.account]), NEW t \in Nat,
         Dense(streams[c.account]),
         \A i \in DOMAIN streams[c.account] : Typed(c.account, streams[c.account][i]),
         NEW hold, hold = OpenHold(streams[c.account], c.hold)
  PROVE  Good(DecideReleaseHold(st[c.account], hold, c, id, t), st, streams, id, c)
  <1> DEFINE s == st[c.account]
             reason == IF c.kind = "VoidHold" THEN "voided" ELSE "expired"
             e == [GroupedEvent("HoldReleased", hold.amount, id, c.hold, NoAccount)
                     EXCEPT !.reason = reason]
             legs == [a \in {c.account} |-> <<e>>]
  <1>1. \/ DecideReleaseHold(s, hold, c, id, t) = Rejected("domain_rejected")
        \/ /\ hold # NoHold /\ s.version # MaxVersion /\ ~(hold.amount > s.held)
           /\ DecideReleaseHold(s, hold, c, id, t) = Accepted(legs)
    BY Zenon DEF DecideReleaseHold
  <1>2. c.account \in Account /\ c.hold \in CommandId
    BY DEF ValidCommand, ValidFollowUp
  <1>3. /\ e.type = "HoldReleased" /\ e.amount = hold.amount /\ e.cmd = id /\ e.group = c.hold
        /\ e.reason \in {"voided", "expired"} /\ e.reverts = NoId
    BY DEF GroupedEvent, Event
  <1> HIDE DEF e
  <1>4. ASSUME hold # NoHold, s.version # MaxVersion, ~(hold.amount > s.held)
        PROVE  Good(Accepted(legs), st, streams, id, c)
    <2>1. hold.amount \in 1..MaxBigint
      BY <1>2, <1>4, OpenHoldType
    <2>2. Typed(c.account, e)
      BY <1>2, <1>3, <2>1 DEF Typed, ValidEvent, ValidAmount, EventType, ValidHoldEvent
    <2>3. BalanceDelta(e) = 0 /\ HeldDelta(e) = -hold.amount /\ hold.amount \in Nat
      BY <1>3, <2>1, DeltaOf, DomainAssumption
    <2>4. ~ApplyRaises(s, e)
      BY <1>4, <2>3, DomainAssumption DEF Bounded, State, ApplyRaises
    <2>5. Fits(s, <<e>>)
      BY <2>4, AppendOne DEF Fits, Bounded
    <2>6. Plan(streams, legs, id, c)
      <3>1. DOMAIN legs = {c.account} /\ legs[c.account] = <<e>>
        OBVIOUS
      <3> HIDE DEF legs
      <3>2. Release(streams, legs, c)
        BY <1>3, <1>4, <3>1 DEF Release
      <3> QED  BY <3>2 DEF Plan
    <2> QED  BY <1>2, <1>3, <2>2, <2>5, <2>6, SingleGood
  <1> HIDE DEF legs
  <1> QED  BY <1>1, <1>4, RejectedGood

(* A capture, whole or in part, takes from the balance what was reserved.     *)
LEMMA CaptureFits ==
  ASSUME NEW st, Bounded(st), NEW n \in Nat, NEW m \in Nat, 1 <= n, n <= m, m <= st.held,
         st.version # MaxVersion, NEW p, Counts(p), BalanceDelta(p) = -n, HeldDelta(p) = -n
  PROVE  /\ Fits(st, <<p>>)
         /\ \A f : BalanceDelta(f) = 0 /\ HeldDelta(f) = -(m - n) => Fits(st, <<p, f>>)
  <1>1. st.balance \in Int /\ st.held \in Int /\ st.version \in Int /\ st \in State
    BY DEF Bounded, State
  <1>2. 0 <= st.held /\ st.held <= st.balance /\ st.balance <= MaxBigint /\ MaxBigint \in Nat
    BY DomainAssumption DEF Bounded
  <1>3. ~ApplyRaises(st, p)
    BY <1>1, <1>2 DEF ApplyRaises
  <1>4. Fits(st, <<p>>)
    BY <1>1, <1>3, AppendOne DEF Fits
  <1>5. ASSUME NEW f, BalanceDelta(f) = 0, HeldDelta(f) = -(m - n) PROVE Fits(st, <<p, f>>)
    <2> SUFFICES ASSUME st.version + Len(<<p, f>>) <= MaxVersion PROVE ~AppendRaises(st, <<p, f>>)
      BY DEF Fits
    <2>1. st.version + 2 <= MaxVersion /\ MaxVersion \in Nat
      <3>1. Len(<<p, f>>) = 2
        OBVIOUS
      <3> QED  BY <3>1, DomainAssumption
    <2> DEFINE u == Apply(st, p)
    <2>2. u.balance = st.balance - n /\ u.held = st.held - n /\ u.version = st.version + 1
      BY <1>1 DEF Apply
    <2> HIDE DEF u
    <2>3. ~ApplyRaises(u, f)
      <3>1. u.version # MaxVersion
        BY <1>1, <2>1, <2>2
      <3>2. ~(BalanceDelta(f) > MaxBigint - u.balance)
        BY <1>1, <1>2, <1>5, <2>2
      <3>3. ~(u.balance + BalanceDelta(f) < 0)
        BY <1>1, <1>2, <1>5, <2>2
      <3>4. ~(u.held + HeldDelta(f) < 0)
        BY <1>1, <1>2, <1>5, <2>2
      <3>5. ~(u.held + HeldDelta(f) > u.balance + BalanceDelta(f))
        BY <1>1, <1>2, <1>5, <2>2
      <3> QED  BY <3>1, <3>2, <3>3, <3>4, <3>5 DEF ApplyRaises
    <2> QED  BY <1>1, <1>3, <2>3, AppendTwo DEF u
  <1> QED  BY <1>4, <1>5

(* Captures.                                                                  *)
LEMMA DecidePostHoldGood ==
  ASSUME NEW st, NEW streams, NEW c, ValidCommand(c), c.kind = "PostHold",
         NEW id \in CommandId, \A a \in Account : Bounded(st[a]), NEW t \in Nat,
         Dense(streams[c.account]),
         \A i \in DOMAIN streams[c.account] : Typed(c.account, streams[c.account][i]),
         NEW hold, hold = OpenHold(streams[c.account], c.hold)
  PROVE  Good(DecidePostHold(st, hold, c, id, t), st, streams, id, c)
  <1> DEFINE a == c.account
             b == hold.counterparty
             amount == IF c.amount = 0 THEN hold.amount ELSE c.amount
             posted == GroupedEvent("HoldPosted", amount, id, c.hold, b)
             rest == [GroupedEvent("HoldReleased", hold.amount - amount, id, c.hold, NoAccount)
                        EXCEPT !.reason = "partial"]
             credit == GroupedEvent("TransferCredited", amount, id, c.hold, a)
             legs == [x \in {a, b} |-> IF x # a THEN <<credit>>
                                       ELSE IF amount < hold.amount THEN <<posted, rest>>
                                       ELSE <<posted>>]
             Checked == /\ hold # NoHold /\ ~(amount > hold.amount)
                        /\ st[a].version # MaxVersion /\ ~(hold.amount > st[a].held)
                        /\ CreditError(st[b], amount) = "none"
  <1>1. \/ DecidePostHold(st, hold, c, id, t) = Rejected("domain_rejected")
        \/ Checked /\ DecidePostHold(st, hold, c, id, t) = Accepted(legs)
    BY Zenon DEF DecidePostHold
  <1>2. a \in Account /\ c.hold \in CommandId /\ (c.amount = 0 \/ c.amount \in 1..MaxBigint)
    BY DEF ValidCommand, ValidFollowUp, ValidAmount
  <1>3. /\ posted.type = "HoldPosted" /\ posted.amount = amount /\ posted.cmd = id
        /\ posted.group = c.hold /\ posted.counterparty = b /\ posted.reverts = NoId
        /\ rest.type = "HoldReleased" /\ rest.amount = hold.amount - amount /\ rest.cmd = id
        /\ rest.group = c.hold /\ rest.reason = "partial" /\ rest.reverts = NoId
        /\ credit.type = "TransferCredited" /\ credit.amount = amount /\ credit.cmd = id
        /\ credit.group = c.hold /\ credit.counterparty = a /\ credit.reverts = NoId
    BY DEF GroupedEvent, Event
  <1>4. amount = hold.amount \/ amount \in 1..MaxBigint
    BY <1>2
  <1> HIDE DEF posted, rest, credit, amount
  <1>5. ASSUME Checked PROVE Good(Accepted(legs), st, streams, id, c)
    <2>1. hold.amount \in 1..MaxBigint /\ b \in Account \ {a}
      BY <1>2, <1>5, OpenHoldType
    <2>2. amount \in Nat /\ 1 <= amount /\ amount <= hold.amount /\ hold.amount \in Nat
      BY <1>4, <1>5, <2>1, DomainAssumption
    <2>3. amount \in 1..MaxBigint
      BY <2>1, <2>2, DomainAssumption
    <2>4. DOMAIN legs = {a, b} /\ legs[b] = <<credit>>
      BY <2>1
    <2>5. IF amount < hold.amount THEN legs[a] = <<posted, rest>> ELSE legs[a] = <<posted>>
      BY <2>1
    <2> HIDE DEF legs
    <2>6. Typed(a, posted) /\ Typed(b, credit)
      BY <1>2, <1>3, <2>1, <2>3
      DEF Typed, ValidEvent, ValidAmount, EventType, ValidHoldEvent, ValidTransferLeg
    <2>7. amount < hold.amount => Typed(a, rest)
      <3> SUFFICES ASSUME amount < hold.amount PROVE Typed(a, rest)
        OBVIOUS
      <3>1. rest.amount \in 1..MaxBigint
        BY <1>3, <2>1, <2>2, DomainAssumption
      <3> QED  BY <1>2, <1>3, <3>1
               DEF Typed, ValidEvent, ValidAmount, EventType, ValidHoldEvent
    <2>8. Planned(legs, id, c)
      <3>1. \A e, f : DOMAIN <<e>> = {1} /\ <<e>>[1] = e
                      /\ DOMAIN <<e, f>> = {1, 2} /\ <<e, f>>[1] = e /\ <<e, f>>[2] = f
        OBVIOUS
      <3>2. Shape(legs[b]) /\ \A k \in DOMAIN legs[b] : Typed(b, legs[b][k]) /\ legs[b][k].cmd = id
        BY <1>3, <2>4, <2>6, <3>1 DEF Shape
      <3>3. Shape(legs[a]) /\ \A k \in DOMAIN legs[a] : Typed(a, legs[a][k]) /\ legs[a][k].cmd = id
        <4>1. CASE amount < hold.amount
          BY <1>3, <2>5, <2>6, <2>7, <3>1, <4>1 DEF Shape
        <4>2. CASE ~(amount < hold.amount)
          BY <1>3, <2>5, <2>6, <3>1, <4>2 DEF Shape
        <4> QED  BY <4>1, <4>2
      <3> QED  BY <1>2, <2>1, <2>4, <3>2, <3>3 DEF Planned
    <2>9. Capture(streams, legs, c)
      <3>1. \/ legs[a] = <<posted>> /\ posted.amount = hold.amount
            \/ \E f : /\ legs[a] = <<posted, f>> /\ f.group = c.hold
                      /\ f.amount = hold.amount - posted.amount
        <4>1. CASE amount < hold.amount
          BY <1>3, <2>5, <4>1
        <4>2. CASE ~(amount < hold.amount)
          <5>1. amount = hold.amount
            BY <2>2, <4>2
          <5> QED  BY <1>3, <2>5, <4>2, <5>1
        <4> QED  BY <4>1, <4>2
      <3> QED  BY <1>3, <1>5, <2>1, <2>4, <3>1 DEF Capture
    <2>10. Fits(st[b], legs[b])
      <3>1. BalanceDelta(credit) = amount /\ HeldDelta(credit) = 0
        BY <1>3, <2>2, DeltaOf
      <3> QED  BY <1>5, <2>1, <2>2, <2>4, <3>1, CreditFits
    <2>11. Fits(st[a], legs[a])
      <3>1. BalanceDelta(posted) = -amount /\ HeldDelta(posted) = -amount /\ Counts(posted)
        BY <1>3, <2>2, DeltaOf DEF Counts, EventType
      <3>2. BalanceDelta(rest) = 0 /\ HeldDelta(rest) = -(hold.amount - amount)
        BY <1>3, <2>2, DeltaOf
      <3>3. hold.amount <= st[a].held
        BY <1>2, <1>5, <2>2 DEF Bounded, State
      <3>4. Fits(st[a], <<posted>>) /\ Fits(st[a], <<posted, rest>>)
        BY <1>2, <1>5, <2>2, <3>1, <3>2, <3>3, CaptureFits
      <3> QED  BY <2>5, <3>4
    <2> QED  BY <2>4, <2>8, <2>9, <2>10, <2>11, AcceptedGood DEF Plan
  <1> HIDE DEF legs, Checked
  <1> QED  BY <1>1, <1>5, RejectedGood

(* The legs of a transfer or a posting set, whose payer is a.                 *)
WellFormed(legs, a) ==
  /\ \E n \in Nat : n >= 2 /\ DOMAIN legs = 1..n /\ Len(legs) = n
  /\ \A i \in DOMAIN legs : ValidLeg(legs[i])
  /\ \A i, j \in DOMAIN legs : legs[i].account = legs[j].account => i = j
  /\ LegTotal(legs, "debit") = LegTotal(legs, "credit")
  /\ \E i \in DOMAIN legs : legs[i].account = a /\ legs[i].direction = "debit"

(* The constructors let only such legs through.                               *)
LEMMA LegsWellFormed ==
  ASSUME NEW c, ValidCommand(c), c.kind \in {"Transfer", "Post"}
  PROVE  WellFormed(LegsOf(c), c.account)
  <1>1. CASE c.kind = "Post"
    <2>1. LegsOf(c) = c.postings /\ ValidPostings(c)
      BY <1>1 DEF LegsOf, ValidCommand, ValidFollowUp
    <2>2. Len(c.postings) \in Nat /\ Len(c.postings) >= 2
      <3>1. Len(c.postings) \in 2..16
        BY <2>1, Zenon DEF ValidPostings, MaxLegs
      <3>2. \A k \in 2..16 : k \in Nat /\ k >= 2
        OBVIOUS
      <3> QED  BY <3>1, <3>2, Zenon
    <2> QED  BY <2>1, <2>2 DEF ValidPostings, WellFormed
  <1>2. CASE c.kind = "Transfer"
    <2> DEFINE p == Leg(c.account, c.amount, "debit")
               q == Leg(c.target, c.amount, "credit")
               legs == <<p, q>>
               f == [i \in DOMAIN legs |-> legs[i].amount]
    <2>1. c.account \in Account /\ c.amount \in 1..MaxBigint /\ c.target \in Account \ {c.account}
      BY <1>2 DEF ValidCommand, ValidAmount, ValidFollowUp
    <2>2. LegsOf(c) = legs
      BY <1>2 DEF LegsOf
    <2>3. /\ p.account = c.account /\ p.amount = c.amount /\ p.direction = "debit"
          /\ q.account = c.target /\ q.amount = c.amount /\ q.direction = "credit"
      BY DEF Leg
    <2> HIDE DEF p, q
    <2>4. DOMAIN legs = 1..2 /\ 1..2 = {1, 2} /\ Len(legs) = 2 /\ legs[1] = p /\ legs[2] = q
      OBVIOUS
    <2> HIDE DEF legs
    <2>5. f[1] = c.amount /\ f[2] = c.amount
      BY <2>3, <2>4
    <2> HIDE DEF f
    <2>6. /\ {i \in DOMAIN legs : legs[i].direction = "debit"} = {} \cup {1}
          /\ {i \in DOMAIN legs : legs[i].direction = "credit"} = {} \cup {2}
      BY <2>3, <2>4
    <2>7. c.amount \in Int /\ IsFiniteSet({})
      BY <2>1, FS_EmptySet
    <2>8. \A x \in {1, 2} : SumFunctionOnSet(f, {} \cup {x}) = f[x] + SumFunctionOnSet(f, {})
      BY <2>5, <2>7, SumWith
    <2>9. LegTotal(legs, "debit") = LegTotal(legs, "credit")
      BY <2>5, <2>6, <2>8 DEF LegTotal, f
    <2>10. \A i \in DOMAIN legs : ValidLeg(legs[i])
      BY <2>1, <2>3, <2>4 DEF ValidLeg, ValidAmount
    <2> QED  BY <2>1, <2>2, <2>3, <2>4, <2>9, <2>10 DEF WellFormed
  <1> QED  BY <1>1, <1>2

(* Credits and debits of the legs cancel out.                                 *)
LEMMA LegsCancel ==
  ASSUME NEW legs, NEW a, WellFormed(legs, a), NEW g,
         \A i \in DOMAIN legs : g[i] = IF legs[i].direction = "debit" THEN -legs[i].amount
                                                                     ELSE legs[i].amount
  PROVE  SumFunctionOnSet(g, DOMAIN legs) = 0
  <1> DEFINE D == DOMAIN legs
             amount == [i \in D |-> legs[i].amount]
             Side(d) == {i \in D : legs[i].direction = d}
             Part(d) == [i \in D |-> IF i \in Side(d) THEN legs[i].amount ELSE 0]
  <1>1. IsFiniteSet(D) /\ \A i \in D : legs[i].amount \in Nat /\ legs[i].amount \in Int
    <2>1. IsFiniteSet(D)
      BY DenseVersion DEF WellFormed
    <2>2. \A i \in D : legs[i].amount \in 1..MaxBigint
      BY DEF WellFormed, ValidLeg, ValidAmount
    <2> QED  BY <2>1, <2>2, DomainAssumption
  <1>2. ASSUME NEW d PROVE SumFunctionOnSet(Part(d), D) = LegTotal(legs, d)
    <2>1. Side(d) \subseteq D /\ IsFiniteSet(Side(d))
      BY <1>1, FS_Subset
    <2>2. \A i \in D : Part(d)[i] \in Int /\ (i \notin Side(d) => Part(d)[i] = 0)
      BY <1>1
    <2>3. SumFunctionOnSet(Part(d), D) = SumFunctionOnSet(Part(d), Side(d))
      <3> HIDE DEF Part, Side
      <3> QED  BY <1>1, <2>1, <2>2, SumSupport
    <2>4. \A i \in Side(d) : Part(d)[i] \in Int /\ Part(d)[i] = amount[i]
      BY <1>1
    <2>5. SumFunctionOnSet(Part(d), Side(d)) = SumFunctionOnSet(amount, Side(d))
      <3> HIDE DEF Part, Side, amount
      <3> QED  BY <2>1, <2>4, SumSame
    <2> QED  BY <2>3, <2>5 DEF LegTotal
  <1>3. \A i \in D : /\ g[i] \in Int /\ Part("debit")[i] \in Int
                     /\ Part("credit")[i] = g[i] + Part("debit")[i]
    <2> TAKE i \in D
    <2>1. legs[i].amount \in Int /\ legs[i].direction \in {"debit", "credit"}
      BY <1>1 DEF WellFormed, ValidLeg
    <2> QED  BY <2>1
  <1>4. SumFunctionOnSet(Part("credit"), D)
          = SumFunctionOnSet(g, D) + SumFunctionOnSet(Part("debit"), D)
    <2> HIDE DEF Part
    <2> QED  BY <1>1, <1>3, SumPlus
  <1>5. SumFunctionOnSet(g, D) \in Int /\ SumFunctionOnSet(Part("debit"), D) \in Int
    <2> HIDE DEF Part
    <2> QED  BY <1>1, <1>3, SumInt
  <1>6. SumFunctionOnSet(Part("credit"), D) = SumFunctionOnSet(Part("debit"), D)
    <2> HIDE DEF Part
    <2> QED  BY <1>2 DEF WellFormed
  <1>7. \A x, y \in Int : y = x + y => x = 0
    OBVIOUS
  <1> HIDE DEF Part
  <1> QED  BY <1>4, <1>5, <1>6, <1>7

(* The least of a nonempty set of indices is in it.                           *)
LEMMA MinIn ==
  ASSUME NEW n \in Nat, NEW T, T \subseteq 1..n, T # {}
  PROVE  Min(T) \in T
  <1>1. T \subseteq Nat
    OBVIOUS
  <1>2. \E x \in T : \A y \in T : x <= y
    BY <1>1, LeastNat
  <1> QED  BY <1>2 DEF Min

(* A leg's counterparty is another account.                                   *)
LEMMA CounterpartyOther ==
  ASSUME NEW legs, NEW c, WellFormed(legs, c.account), NEW i \in DOMAIN legs
  PROVE  CounterpartyFor(c, legs, i) \in Account \ {legs[i].account}
  <1> DEFINE credits == {j \in DOMAIN legs : legs[j].direction = "credit"}
             largest == {j \in credits : \A k \in credits : legs[k].amount <= legs[j].amount}
  <1>1. PICK n \in Nat : n >= 2 /\ DOMAIN legs = 1..n /\ Len(legs) = n
    BY DEF WellFormed
  <1>2. \A j \in DOMAIN legs : legs[j].account \in Account /\ legs[j].amount \in 1..MaxBigint
    BY DEF WellFormed, ValidLeg, ValidAmount
  <1>3. \A j, k \in DOMAIN legs : legs[j].account = legs[k].account => j = k
    BY DEF WellFormed
  <1>4. PICK p \in DOMAIN legs : legs[p].account = c.account /\ legs[p].direction = "debit"
    BY DEF WellFormed
  <1>5. CounterpartyFor(c, legs, i) =
          IF Len(legs) = 2 THEN legs[3 - i].account
          ELSE IF legs[i].account # c.account THEN c.account
          ELSE legs[Min(largest)].account
    BY Zenon DEF CounterpartyFor
  <1>6. CASE n = 2
    <2>1. i \in {1, 2} /\ 3 - i \in DOMAIN legs /\ 3 - i # i
      BY <1>1, <1>6
    <2> QED  BY <1>1, <1>2, <1>3, <1>5, <1>6, <2>1
  <1>7. CASE n # 2 /\ legs[i].account # c.account
    BY <1>1, <1>2, <1>4, <1>5, <1>7
  <1>8. CASE n # 2 /\ legs[i].account = c.account
    <2>1. credits # {}
      <3> SUFFICES ASSUME credits = {} PROVE FALSE
        OBVIOUS
      <3> DEFINE f == [j \in DOMAIN legs |-> legs[j].amount]
                 debits == {j \in DOMAIN legs : legs[j].direction = "debit"}
      <3>1. SumFunctionOnSet(f, debits) = 0
        BY SumEmpty DEF WellFormed, LegTotal
      <3>2. IsFiniteSet(debits) /\ IsFiniteSet(debits \ {p}) /\ p \in debits
        BY <1>1, <1>4, DenseVersion, FS_Subset
      <3>3. \A j \in debits : f[j] \in Nat /\ f[j] \in Int /\ f[j] >= 1
        BY <1>2, DomainAssumption
      <3> HIDE DEF f, debits
      <3>4. SumFunctionOnSet(f, debits) = f[p] + SumFunctionOnSet(f, debits \ {p})
        BY <3>2, <3>3, SumWithout
      <3>5. SumFunctionOnSet(f, debits \ {p}) \in Nat
        BY <3>2, <3>3, SumNonNegative
      <3> QED  BY <3>1, <3>2, <3>3, <3>4, <3>5
    <2>2. largest # {}
      <3> DEFINE T == {legs[k].amount : k \in credits}
      <3>1. T \subseteq 1..MaxBigint /\ T # {}
        BY <1>2, <2>1
      <3>2. Max(T) \in T /\ \A y \in T : y <= Max(T)
        BY <3>1, MaxIn, DomainAssumption
      <3> QED  BY <3>2
    <2>3. Min(largest) \in largest
      BY <1>1, <2>2, MinIn
    <2>4. Min(largest) \in DOMAIN legs /\ legs[Min(largest)].direction = "credit"
      BY <2>3
    <2> HIDE DEF largest
    <2>5. p # Min(largest) /\ p = i
      BY <1>3, <1>4, <1>8, <2>4
    <2> QED  BY <1>1, <1>2, <1>3, <1>5, <1>8, <2>4, <2>5
  <1> QED  BY <1>6, <1>7, <1>8

(* Transfers and posting sets.                                                *)
LEMMA DecidePostingsGood ==
  ASSUME NEW st, NEW streams, NEW c, ValidCommand(c), c.kind \in {"Transfer", "Post"},
         NEW id \in CommandId, \A a \in Account : Bounded(st[a])
  PROVE  Good(DecidePostings(st, c, id), st, streams, id, c)
  <1> DEFINE legs == LegsOf(c)
             D == DOMAIN legs
             accounts == {legs[i].account : i \in D}
             At(a) == CHOOSE i \in D : legs[i].account = a
             Error(i) == IF legs[i].direction = "debit"
                         THEN DebitError(st[legs[i].account], legs[i].amount)
                         ELSE CreditError(st[legs[i].account], legs[i].amount)
             bad == {i \in D : Error(i) # "none"}
             EventOf(i) ==
               GroupedEvent(IF legs[i].direction = "debit"
                            THEN "TransferDebited" ELSE "TransferCredited",
                            legs[i].amount, id, id, CounterpartyFor(c, legs, i))
             planned == [a \in accounts |-> <<EventOf(At(a))>>]
  <1>1. DecidePostings(st, c, id) = IF bad # {} THEN Rejected(Error(Min(bad))) ELSE Accepted(planned)
    BY Zenon DEF DecidePostings
  <1>2. WellFormed(legs, c.account)
    BY LegsWellFormed
  <1>3. \A i : Error(i) # "accepted"
    BY Errors
  <1>4. \A i : /\ EventOf(i).type = IF legs[i].direction = "debit" THEN "TransferDebited"
                                                                  ELSE "TransferCredited"
               /\ EventOf(i).amount = legs[i].amount /\ EventOf(i).cmd = id
               /\ EventOf(i).group = id /\ EventOf(i).reverts = NoId
               /\ EventOf(i).counterparty = CounterpartyFor(c, legs, i)
    BY DEF GroupedEvent, Event
  <1> HIDE DEF legs
  <1>5. \A i \in D : /\ legs[i].account \in Account /\ legs[i].amount \in 1..MaxBigint
                     /\ legs[i].direction \in {"debit", "credit"}
    BY <1>2 DEF WellFormed, ValidLeg, ValidAmount
  <1>6. \A i, j \in D : legs[i].account = legs[j].account => i = j
    BY <1>2 DEF WellFormed
  <1>7. \A i \in D : At(legs[i].account) = i
    BY <1>6
  <1>8. ASSUME NEW i \in D
        PROVE  /\ Typed(legs[i].account, EventOf(i))
               /\ BalanceDelta(EventOf(i)) = (IF legs[i].direction = "debit" THEN -legs[i].amount
                                                                           ELSE legs[i].amount)
               /\ BalanceDelta(EventOf(i)) \in Int
               /\ Error(i) = "none" => Fits(st[legs[i].account], <<EventOf(i)>>)
    <2> DEFINE e == EventOf(i)
               n == legs[i].amount
               a == legs[i].account
    <2>1. e.counterparty \in Account \ {a}
      BY <1>2, <1>4, CounterpartyOther
    <2>2. n \in Nat /\ n \in 1..MaxBigint /\ a \in Account
      BY <1>5, DomainAssumption
    <2>3. /\ e.type = IF legs[i].direction = "debit" THEN "TransferDebited" ELSE "TransferCredited"
          /\ e.amount = n /\ e.cmd = id /\ e.group = id /\ e.reverts = NoId
      BY <1>4
    <2>4. Error(i) = IF legs[i].direction = "debit" THEN DebitError(st[a], n) ELSE CreditError(st[a], n)
      OBVIOUS
    <2> HIDE DEF e, n, a, EventOf, Error
    <2>5. Typed(a, e)
      BY <2>1, <2>2, <2>3 DEF Typed, ValidEvent, ValidAmount, EventType, ValidTransferLeg
    <2>6. BalanceDelta(e) = (IF legs[i].direction = "debit" THEN -n ELSE n) /\ HeldDelta(e) = 0
      BY <2>2, <2>3, DeltaOf
    <2>7. Error(i) = "none" => Fits(st[a], <<e>>)
      <3>1. CASE legs[i].direction = "debit"
        BY <2>2, <2>4, <2>6, <3>1, DebitFits
      <3>2. CASE legs[i].direction # "debit"
        BY <2>2, <2>4, <2>6, <3>2, CreditFits
      <3> QED  BY <3>1, <3>2
    <2>8. BalanceDelta(e) \in Int
      BY <2>2, <2>6
    <2> QED  BY <2>5, <2>6, <2>7, <2>8 DEF e, n, a
  <1> HIDE DEF EventOf, Error, At
  <1>9. ASSUME bad = {} PROVE Good(Accepted(planned), st, streams, id, c)
    <2>1. DOMAIN planned = accounts
      OBVIOUS
    <2>2. \A i \in D : legs[i].account \in accounts /\ planned[legs[i].account] = <<EventOf(i)>>
      BY <1>7
    <2> HIDE DEF planned
    <2>3. ASSUME NEW a \in accounts
          PROVE  \E i \in D : a = legs[i].account /\ planned[a] = <<EventOf(i)>>
      BY <2>2
    <2>4. accounts \subseteq Account /\ c.account \in accounts
      BY <1>2, <1>5 DEF WellFormed
    <2>5. \A e : DOMAIN <<e>> = {1} /\ <<e>>[1] = e
      OBVIOUS
    <2>6. Planned(planned, id, c)
      <3>1. ASSUME NEW a \in accounts
            PROVE  Shape(planned[a]) /\ \A k \in DOMAIN planned[a] :
                                          Typed(a, planned[a][k]) /\ planned[a][k].cmd = id
        <4>1. PICK i \in D : a = legs[i].account /\ planned[a] = <<EventOf(i)>>
          BY <2>3
        <4>2. Typed(a, EventOf(i)) /\ EventOf(i).cmd = id
          BY <1>4, <1>8, <4>1
        <4> QED  BY <2>5, <4>1, <4>2 DEF Shape
      <3> QED  BY <2>1, <2>4, <3>1 DEF Planned
    <2>7. \A a \in DOMAIN planned : Fits(st[a], planned[a])
      <3> TAKE a \in DOMAIN planned
      <3>1. PICK i \in D : a = legs[i].account /\ planned[a] = <<EventOf(i)>>
        BY <2>1, <2>3
      <3>2. Error(i) = "none"
        BY <1>9
      <3> QED  BY <1>8, <3>1, <3>2
    <2>8. SumFunctionOnSet(LegNet(planned), Account) = 0
      <3> DEFINE f == LegNet(planned)
                 g == [i \in D |-> BalanceDelta(EventOf(i))]
                 m == [i \in D |-> legs[i].account]
      <3>1. IsFiniteSet(D)
        BY <1>2, DenseVersion DEF WellFormed
      <3>2. SumFunctionOnSet(g, D) = 0
        <4>1. \A i \in D : g[i] = IF legs[i].direction = "debit" THEN -legs[i].amount
                                                                ELSE legs[i].amount
          BY <1>8
        <4> HIDE DEF g
        <4> QED  BY <1>2, <4>1, LegsCancel
      <3>3. \A i \in D : f[m[i]] = g[i] /\ g[i] \in Int /\ m[i] \in accounts
        <4> TAKE i \in D
        <4>1. legs[i].account \in Account /\ legs[i].account \in DOMAIN planned
          BY <1>5, <2>1, <2>2
        <4>2. f[legs[i].account] = BalanceDelta(planned[legs[i].account][1])
          BY <4>1 DEF LegNet
        <4>3. planned[legs[i].account][1] = EventOf(i)
          BY <2>2, <2>5
        <4>4. g[i] = BalanceDelta(EventOf(i)) /\ m[i] = legs[i].account
          OBVIOUS
        <4> HIDE DEF f, g, m
        <4> QED  BY <1>8, <2>2, <4>2, <4>3, <4>4
      <3>4. \A i, j \in D : m[i] = m[j] => i = j
        BY <1>6
      <3>5. {m[i] : i \in D} = accounts
        OBVIOUS
      <3>6. \A a \in Account : f[a] \in Int /\ (a \notin accounts => f[a] = 0)
        <4> TAKE a \in Account
        <4>1. CASE a \in accounts
          <5>1. PICK i \in D : a = m[i]
            BY <4>1
          <5> HIDE DEF f, g, m
          <5> QED  BY <3>3, <4>1, <5>1
        <4>2. CASE a \notin accounts
          BY <2>1, <4>2 DEF LegNet
        <4> QED  BY <4>1, <4>2
      <3> HIDE DEF f, g, m, accounts
      <3>7. SumFunctionOnSet(f, {m[i] : i \in D}) = SumFunctionOnSet(g, D)
        BY <3>1, <3>3, <3>4, SumRenamed
      <3>8. SumFunctionOnSet(f, Account) = SumFunctionOnSet(f, accounts)
        BY <2>4, <3>6, SumSupport, LedgerAssumption
      <3> QED  BY <3>2, <3>5, <3>7, <3>8 DEF f
    <2>9. Move(planned, id)
      <3>1. \A a \in DOMAIN planned : \E e : /\ planned[a] = <<e>> /\ e.group = id
                                   /\ e.type \in {"TransferDebited", "TransferCredited"}
        BY <1>4, <2>1, <2>3
      <3> QED  BY <2>8, <3>1 DEF Move
    <2> QED  BY <2>6, <2>7, <2>9, AcceptedGood DEF Plan
  <1> HIDE DEF planned, bad
  <1> QED  BY <1>1, <1>3, <1>9, RejectedGood

(* A movement changes the balance by its whole amount, up or down.            *)
LEMMA MovementDelta ==
  ASSUME NEW e, e.type \in MovementTypes, e.amount \in Int
  PROVE  BalanceDelta(e) = IF BalanceSign(e.type) > 0 THEN e.amount ELSE -e.amount
  BY DEF MovementTypes, BalanceDelta, BalanceSign

(* Reversals.                                                                 *)
LEMMA DecideRevertGood ==
  ASSUME NEW st, NEW streams, NEW c, ValidCommand(c), c.kind = "Revert",
         NEW id \in CommandId, \A a \in Account : Bounded(st[a]),
         \A a \in Account : \A i \in DOMAIN streams[a] :
           Typed(a, streams[a][i]) /\ streams[a][i].group # id,
         NEW legs, legs = MovementLegs(streams, c.transfer),
         NEW reverted, ~reverted => RevertersOf(streams, c.transfer) = {}
  PROVE  Good(DecideRevert(st, legs, c, id, reverted), st, streams, id, c)
  <1> DEFINE accounts == {l.account : l \in legs}
             Original(a) == (CHOOSE l \in legs : l.account = a).event
             Received(a) == BalanceSign(Original(a).type) > 0
             Error(a) == IF Received(a) THEN DebitError(st[a], Original(a).amount)
                                        ELSE CreditError(st[a], Original(a).amount)
             bad == {a \in accounts : Error(a) # "none"}
             Mirror(a) ==
               [GroupedEvent(IF Received(a) THEN "ReversalDebited" ELSE "ReversalCredited",
                             Original(a).amount, id, id, Original(a).counterparty)
                  EXCEPT !.reverts = c.transfer]
             planned == [a \in accounts |-> <<Mirror(a)>>]
  <1>1. \/ DecideRevert(st, legs, c, id, reverted) = Rejected("domain_rejected")
        \/ DecideRevert(st, legs, c, id, reverted) = Rejected(Error(Min(bad)))
        \/ /\ c.account \in accounts /\ ~reverted /\ bad = {}
           /\ DecideRevert(st, legs, c, id, reverted) = Accepted(planned)
    BY Zenon DEF DecideRevert
  <1>2. \A a : Error(a) # "accepted"
    BY Errors
  <1>3. \A a : /\ Mirror(a).type = IF Received(a) THEN "ReversalDebited" ELSE "ReversalCredited"
               /\ Mirror(a).amount = Original(a).amount /\ Mirror(a).cmd = id
               /\ Mirror(a).group = id /\ Mirror(a).counterparty = Original(a).counterparty
               /\ Mirror(a).reverts = c.transfer
    <2> HIDE DEF Received, Original
    <2> QED  BY DEF GroupedEvent, Event
  <1>4. c.transfer \in CommandId
    BY DEF ValidCommand, ValidFollowUp
  <1>5. \A a \in accounts : \E l \in legs : l.account = a /\ Original(a) = l.event
    BY Zenon
  <1>6. \A l \in legs : \E a \in Account : \E i \in Moves(streams[a], c.transfer) :
                          l = [account |-> a, event |-> streams[a][i]]
    BY DEF MovementLegs, Moves
  <1>7. \A a \in accounts : a \in Account /\ \E i \in Moves(streams[a], c.transfer) :
                                               Original(a) = streams[a][i]
    <2> TAKE a \in accounts
    <2>1. PICK l \in legs : l.account = a /\ Original(a) = l.event
      BY <1>5
    <2>2. PICK b \in Account : \E i \in Moves(streams[b], c.transfer) :
                                 l = [account |-> b, event |-> streams[b][i]]
      BY <1>6
    <2>3. PICK i \in Moves(streams[b], c.transfer) : l = [account |-> b, event |-> streams[b][i]]
      BY <2>2
    <2>4. b = a /\ streams[b][i] = Original(a)
      BY <2>1, <2>3
    <2> HIDE DEF Original, accounts
    <2> QED  BY <2>3, <2>4
  <1>8. \A a \in Account : a \notin accounts => Moves(streams[a], c.transfer) = {}
    <2> SUFFICES ASSUME NEW a \in Account, NEW i \in Moves(streams[a], c.transfer)
                 PROVE  a \in accounts
      OBVIOUS
    <2>1. [account |-> a, event |-> streams[a][i]] \in legs
      BY DEF MovementLegs, Moves
    <2> QED  BY <2>1
  <1> HIDE DEF accounts, Original, Mirror, Error
  <1>9. ASSUME NEW a \in accounts
        PROVE  /\ a \in Account /\ Typed(a, Mirror(a)) /\ Mirror(a).cmd = id
               /\ \E i \in Moves(streams[a], c.transfer) :
                    BalanceDelta(Mirror(a)) = -BalanceDelta(streams[a][i])
               /\ Error(a) = "none" => Fits(st[a], <<Mirror(a)>>)
    <2> DEFINE e == Mirror(a)
               o == Original(a)
               n == o.amount
    <2>1. PICK i \in Moves(streams[a], c.transfer) : a \in Account /\ o = streams[a][i]
      BY <1>7
    <2>2. /\ o.type \in MovementTypes /\ o.group = c.transfer /\ Typed(a, o) /\ c.transfer # id
      BY <2>1 DEF Moves
    <2>3. n \in 1..MaxBigint /\ o.counterparty \in Account \ {a}
      BY <2>2 DEF Typed, ValidEvent, ValidAmount, MovementTypes, ValidTransferLeg, ValidHoldEvent,
                  ValidReversalLeg
    <2>4. /\ e.type = IF Received(a) THEN "ReversalDebited" ELSE "ReversalCredited"
          /\ e.amount = n /\ e.cmd = id /\ e.group = id /\ e.counterparty = o.counterparty
          /\ e.reverts = c.transfer
      BY <1>3
    <2>5. Received(a) <=> BalanceSign(o.type) > 0
      OBVIOUS
    <2>6. Error(a) = IF Received(a) THEN DebitError(st[a], n) ELSE CreditError(st[a], n)
      BY DEF Error
    <2> HIDE DEF e, o, n, Received
    <2>7. n \in Nat /\ n = o.amount
      BY <2>3, DomainAssumption DEF n
    <2>8. Typed(a, e)
      BY <1>4, <2>1, <2>2, <2>3, <2>4
      DEF Typed, ValidEvent, ValidAmount, EventType, ValidReversalLeg, ValidTransferLeg
    <2>9. BalanceDelta(e) = (IF Received(a) THEN -n ELSE n) /\ HeldDelta(e) = 0
      BY <2>4, <2>7, DeltaOf
    <2>10. BalanceDelta(o) = IF Received(a) THEN n ELSE -n
      <3>1. BalanceDelta(o) = IF BalanceSign(o.type) > 0 THEN n ELSE -n
        BY <2>2, <2>7, MovementDelta
      <3> QED  BY <2>5, <3>1
    <2>11. BalanceDelta(e) = -BalanceDelta(streams[a][i])
      BY <2>1, <2>7, <2>9, <2>10
    <2>12. Error(a) = "none" => Fits(st[a], <<e>>)
      <3>1. CASE Received(a)
        BY <2>1, <2>6, <2>7, <2>9, <3>1, DebitFits
      <3>2. CASE ~Received(a)
        BY <2>1, <2>6, <2>7, <2>9, <3>2, CreditFits
      <3> QED  BY <3>1, <3>2
    <2> QED  BY <2>1, <2>4, <2>8, <2>11, <2>12 DEF e
  <1>10. ASSUME c.account \in accounts, ~reverted, bad = {}
         PROVE  Good(Accepted(planned), st, streams, id, c)
    <2>1. DOMAIN planned = accounts /\ \A a \in accounts : planned[a] = <<Mirror(a)>>
      OBVIOUS
    <2> HIDE DEF planned
    <2>2. \A e : DOMAIN <<e>> = {1} /\ <<e>>[1] = e
      OBVIOUS
    <2>3. Planned(planned, id, c)
      <3>1. \A a \in accounts : Shape(planned[a])
        BY <2>1 DEF Shape
      <3>2. \A a \in accounts : \A k \in DOMAIN planned[a] :
              Typed(a, planned[a][k]) /\ planned[a][k].cmd = id
        BY <1>9, <2>1, <2>2
      <3>3. accounts \subseteq Account
        BY <1>9
      <3> QED  BY <1>10, <2>1, <3>1, <3>2, <3>3 DEF Planned
    <2>4. \A a \in DOMAIN planned : Fits(st[a], planned[a])
      <3>1. \A a \in accounts : Error(a) = "none"
        BY <1>10
      <3> QED  BY <1>9, <2>1, <3>1
    <2>5. Revert(streams, planned, id, c)
      <3>1. \A a \in accounts :
              /\ Mirror(a).group = id /\ Mirror(a).reverts = c.transfer
              /\ Mirror(a).type \in {"ReversalDebited", "ReversalCredited"}
              /\ \E i \in Moves(streams[a], c.transfer) :
                   BalanceDelta(Mirror(a)) = -BalanceDelta(streams[a][i])
        BY <1>3, <1>9
      <3> HIDE DEF bad
      <3> QED  BY <1>8, <1>10, <2>1, <3>1 DEF Revert
    <2> QED  BY <2>3, <2>4, <2>5, AcceptedGood DEF Plan
  <1> HIDE DEF planned, bad
  <1> QED  BY <1>1, <1>2, <1>10, RejectedGood

-----------------------------------------------------------------------------
(* The inductive invariant, of streams and results *)

Done(res, id) == res[id].outcome = "accepted"

(* The commands a row refers to were accepted.                                *)
Known(e, res) == /\ e.cmd # NoId => Done(res, e.cmd)
                 /\ e.group # NoId => Done(res, e.group)

Streams(streams, res) ==
  /\ DOMAIN streams = Account /\ DOMAIN res = CommandId
  /\ \A a \in Account :
       /\ Dense(streams[a]) /\ Sound(streams[a])
       /\ \A i \in DOMAIN streams[a] : Typed(a, streams[a][i]) /\ Known(streams[a][i], res)

(* A group moves each account's balance at most once, and cancels out.        *)
OneMove(streams) ==
  \A g \in CommandId, a \in Account : \A i, j \in Moves(streams[a], g) : i = j

Nets(streams, g) == [a \in Account |-> Net(streams[a], g)]

Cancels(streams) == \A g \in CommandId : SumFunctionOnSet(Nets(streams, g), Account) = 0

(* A hold is placed once, and moves money only by a capture that closes it.   *)
Placed(s, h) == {i \in DOMAIN s : s[i].type = "HoldPlaced" /\ s[i].group = h}

OnePlacement(streams) ==
  \A h \in CommandId, a, b \in Account :
    \A i \in Placed(streams[a], h), j \in Placed(streams[b], h) : a = b /\ i = j

Captured(streams) ==
  \A h \in CommandId, a, b \in Account :
    Placed(streams[a], h) # {} /\ Moves(streams[b], h) # {} =>
      \E i \in DOMAIN streams[a] : streams[a][i].group = h /\ streams[a][i].type = "HoldPosted"

(* A reversal does to each account the opposite of what it reverts, and no    *)
(* other reversal reverts the same.                                           *)
Mirrored(streams) ==
  \A a \in Account : \A i \in DOMAIN streams[a] : streams[a][i].reverts # NoId =>
    \A b \in Account : Net(streams[b], streams[a][i].group) = -Net(streams[b], streams[a][i].reverts)

OneReversal(streams) ==
  \A a, b \in Account : \A i \in DOMAIN streams[a], j \in DOMAIN streams[b] :
    streams[a][i].reverts # NoId /\ streams[a][i].reverts = streams[b][j].reverts =>
      streams[a][i].group = streams[b][j].group

(* What is reserved is what open holds add up to.                             *)
HoldAmounts(s) == [h \in CommandId |-> OpenHold(s, h).amount]

HoldsAddUp(streams) ==
  \A a \in Account :
    Fold(streams[a]).held = SumFunctionOnSet(HoldAmounts(streams[a]), CommandId)

RowsOf(streams) ==
  UNION {{[account |-> a, seq |-> i, event |-> streams[a][i]] : i \in DOMAIN streams[a]} :
         a \in Account}

CashRows(streams) == {x \in RowsOf(streams) : x.event.type \in {"Deposited", "Withdrawn"}}

RowDeltas(rows) == [x \in rows |-> BalanceDelta(x.event)]

Balances(streams) == [a \in Account |-> Fold(streams[a]).balance]

MoneyAddsUp(streams) ==
  SumFunctionOnSet(Balances(streams), Account)
    = SumFunctionOnSet(RowDeltas(CashRows(streams)), CashRows(streams))

Matches(streams, res) ==
  \A id \in CommandId : Done(res, id) =>
    LET a == res[id].cmd.account
        own == {i \in DOMAIN streams[a] : streams[a][i].cmd = id}
    IN  a \in Account /\ own # {} /\ res[id].committed = Max(own)

Consistent(streams, res) ==
  /\ Streams(streams, res)
  /\ OneMove(streams) /\ Cancels(streams)
  /\ OnePlacement(streams) /\ Captured(streams)
  /\ Mirrored(streams) /\ OneReversal(streams)
  /\ HoldsAddUp(streams) /\ MoneyAddsUp(streams)
  /\ Matches(streams, res)

IInv == now \in Nat /\ Consistent(log, results)

(* Rows their constructors accept have deltas.                                *)
LEMMA TypedCountable ==
  ASSUME NEW a, NEW s, \A i \in DOMAIN s : Typed(a, s[i])
  PROVE  Countable(s)
  <1>1. \A i \in DOMAIN s : s[i].type \in EventType /\ s[i].amount \in 1..MaxBigint
    BY DEF Typed, ValidEvent, ValidAmount
  <1> QED  BY <1>1, DomainAssumption DEF Countable

(* Every account folds, within its bounds.                                    *)
LEMMA StreamsBounded ==
  ASSUME NEW streams, NEW res, Streams(streams, res), NEW a \in Account
  PROVE  Bounded(Fold(streams[a])) /\ Countable(streams[a])
  BY TypedCountable, SoundBounded DEF Streams

(* Every decision on consistent streams is a good one.                        *)
LEMMA DecisionGood ==
  ASSUME IInv, NEW r \in Requests, ~Done(results, r.id), NEW t \in Nat
  PROVE  Good(Decision(r, t), States, log, r.id, r.cmd)
  <1> DEFINE c == r.cmd
             id == r.id
             st == States
             hold == IF c.kind \in {"PostHold", "VoidHold", "ExpireHold"}
                     THEN OpenHold(log[c.account], c.hold) ELSE NoHold
             legs == IF c.kind = "Revert" THEN MovementLegs(log, c.transfer) ELSE {}
             rv == c.kind = "Revert" /\ RevertersOf(log, c.transfer) # {}
             d == DecideLegs(st, hold, legs, rv, r, t)
  <1>1. Decision(r, t) = d
    BY DEF Decision
  <1>2. id \in CommandId /\ ValidCommand(c) /\ c.account \in Account
    BY LedgerAssumption DEF ValidCommand
  <1>3. \A a \in Account : Bounded(st[a])
    <2> TAKE a \in Account
    <2>1. Bounded(Fold(log[a]))
      BY StreamsBounded DEF IInv, Consistent
    <2>2. st[a] = Fold(log[a])
      BY DEF States
    <2> QED  BY <2>1, <2>2
  <1>4. \A a \in Account : Dense(log[a]) /\ \A i \in DOMAIN log[a] : Typed(a, log[a][i])
    BY DEF IInv, Consistent, Streams
  <1>5. \A a \in Account : \A i \in DOMAIN log[a] : log[a][i].group # id
    BY <1>2, DomainAssumption DEF IInv, Consistent, Streams, Known
  <1>6. /\ c.kind \in {"PostHold", "VoidHold", "ExpireHold"} =>
             hold = OpenHold(log[c.account], c.hold)
        /\ c.kind = "Revert" => /\ legs = MovementLegs(log, c.transfer)
                                /\ ~rv => RevertersOf(log, c.transfer) = {}
    OBVIOUS
  <1> HIDE DEF c, id, st, hold, legs, rv
  <1>7. CASE c.kind \in {"Transfer", "Post"}
    <2>1. d = DecidePostings(st, c, id)
      BY <1>7 DEF DecideLegs, c, id
    <2> QED  BY <1>1, <1>2, <1>3, <1>7, <2>1, DecidePostingsGood DEF c, id, st
  <1>8. CASE c.kind = "Hold"
    <2>1. d = DecideHold(st[c.account], c, id, t)
      BY <1>8 DEF DecideLegs, c, id
    <2> QED  BY <1>1, <1>2, <1>3, <1>8, <2>1, DecideHoldGood DEF c, id, st
  <1>9. CASE c.kind = "PostHold"
    <2>1. d = DecidePostHold(st, hold, c, id, t)
      BY <1>9 DEF DecideLegs, c, id
    <2>2. Good(DecidePostHold(st, hold, c, id, t), st, log, id, c)
      BY <1>2, <1>3, <1>4, <1>6, <1>9, DecidePostHoldGood
    <2> QED  BY <1>1, <2>1, <2>2 DEF c, id, st
  <1>10. CASE c.kind \in {"VoidHold", "ExpireHold"}
    <2>1. d = DecideReleaseHold(st[c.account], hold, c, id, t)
      BY <1>10 DEF DecideLegs, c, id
    <2>2. Good(DecideReleaseHold(st[c.account], hold, c, id, t), st, log, id, c)
      BY <1>2, <1>3, <1>4, <1>6, <1>10, DecideReleaseGood
    <2> QED  BY <1>1, <2>1, <2>2 DEF c, id, st
  <1>11. CASE c.kind = "Revert"
    <2>1. d = DecideRevert(st, legs, c, id, rv)
      BY <1>11 DEF DecideLegs, c, id
    <2>2. Good(DecideRevert(st, legs, c, id, rv), st, log, id, c)
      BY <1>2, <1>3, <1>4, <1>5, <1>6, <1>11, DecideRevertGood
    <2> QED  BY <1>1, <2>1, <2>2 DEF c, id, st
  <1>12. CASE c.kind \notin {"Transfer", "Post", "Hold", "PostHold", "VoidHold", "ExpireHold", "Revert"}
    <2>1. d = Decide(st[c.account], c, id)
      BY <1>12 DEF DecideLegs, c, id
    <2>2. c.kind \in {"Deposit", "Withdraw"}
      BY <1>2, <1>12 DEF ValidCommand, ValidFollowUp
    <2> QED  BY <1>1, <1>2, <1>3, <2>1, <2>2, DecideGood DEF c, id, st
  <1> QED  BY <1>7, <1>8, <1>9, <1>10, <1>11, <1>12

-----------------------------------------------------------------------------
(* An acceptance *)

(* The streams and results before and after the legs of command c are         *)
(* appended under id.                                                         *)
Growth(streams, res, after, res2, legs, id, c) ==
  /\ Consistent(streams, res) /\ id \in CommandId /\ ~Done(res, id)
  /\ Planned(legs, id, c) /\ Plan(streams, legs, id, c)
  /\ DOMAIN after = Account
  /\ \A a \in DOMAIN legs :
       Extends(streams[a], after[a], legs[a]) /\ ~AppendRaises(Fold(streams[a]), legs[a])
  /\ \A a \in Account \ DOMAIN legs : after[a] = streams[a]
  /\ DOMAIN res2 = CommandId /\ \A x \in CommandId \ {id} : res2[x] = res[x]
  /\ Done(res2, id) /\ res2[id].cmd = c
  /\ res2[id].committed = Version(streams[c.account]) + Len(legs[c.account])

(* The rows after an append are the old ones and the legs.                    *)
LEMMA OldRow ==
  ASSUME NEW s, NEW u, NEW rows, Extends(s, u, rows), NEW i \in DOMAIN s
  PROVE  i \in DOMAIN u /\ u[i] = s[i]
  <1>1. PICK n \in Nat, m \in {1, 2} : /\ DOMAIN s = 1..n /\ DOMAIN u = 1..(n + m)
                                       /\ \A j \in 1..n : u[j] = s[j]
    BY DEF Extends
  <1> QED  BY <1>1

(* A row that is not an old one is one of the appended.                       *)
LEMMA NewRow ==
  ASSUME NEW s, NEW u, NEW rows, Extends(s, u, rows), NEW i \in DOMAIN u, i \notin DOMAIN s
  PROVE  \E k \in DOMAIN rows : u[i] = rows[k] /\ i = Version(s) + k
  <1>1. PICK n \in Nat, m \in {1, 2} :
          /\ DOMAIN s = 1..n /\ DOMAIN rows = 1..m /\ DOMAIN u = 1..(n + m)
          /\ \A k \in 1..m : u[n + k] = rows[k]
    BY DEF Extends
  <1>2. i - n \in 1..m /\ n + (i - n) = i
    BY <1>1
  <1>3. Version(s) = n
    BY <1>1, DenseVersion
  <1> QED  BY <1>1, <1>2, <1>3

(* The appended rows are numbered after the version.                          *)
LEMMA FirstRow ==
  ASSUME NEW s, NEW u, NEW rows, Extends(s, u, rows), NEW k \in DOMAIN rows
  PROVE  /\ Version(s) + k \in DOMAIN u /\ Version(s) + k \notin DOMAIN s
         /\ u[Version(s) + k] = rows[k]
  <1>1. PICK n \in Nat, m \in {1, 2} :
          /\ DOMAIN s = 1..n /\ DOMAIN rows = 1..m /\ DOMAIN u = 1..(n + m)
          /\ \A j \in 1..m : u[n + j] = rows[j]
    BY DEF Extends
  <1>2. Version(s) = n
    BY <1>1, DenseVersion
  <1>3. n + k \in 1..(n + m) /\ n + k \notin 1..n
    BY <1>1
  <1> QED  BY <1>1, <1>2, <1>3

(* An acceptance rewrites no row of any account.                              *)
LEMMA RowBefore ==
  ASSUME NEW streams, NEW res, NEW after, NEW res2, NEW legs, NEW id, NEW c,
         Growth(streams, res, after, res2, legs, id, c),
         NEW a \in Account, NEW i \in DOMAIN streams[a]
  PROVE  i \in DOMAIN after[a] /\ after[a][i] = streams[a][i]
  <1>1. CASE a \in DOMAIN legs
    BY <1>1, OldRow DEF Growth
  <1>2. CASE a \notin DOMAIN legs
    BY <1>2 DEF Growth
  <1> QED  BY <1>1, <1>2

(* A row after an acceptance is an old one or a leg's.                        *)
LEMMA RowAfter ==
  ASSUME NEW streams, NEW res, NEW after, NEW res2, NEW legs, NEW id, NEW c,
         Growth(streams, res, after, res2, legs, id, c),
         NEW a \in Account, NEW i \in DOMAIN after[a]
  PROVE  \/ i \in DOMAIN streams[a] /\ after[a][i] = streams[a][i]
         \/ /\ a \in DOMAIN legs /\ i \notin DOMAIN streams[a]
            /\ \E k \in DOMAIN legs[a] : after[a][i] = legs[a][k] /\ i = Version(streams[a]) + k
  <1>1. CASE i \in DOMAIN streams[a]
    BY <1>1, RowBefore
  <1>2. CASE i \notin DOMAIN streams[a]
    <2>1. a \in DOMAIN legs /\ Extends(streams[a], after[a], legs[a])
      BY <1>2 DEF Growth
    <2> QED  BY <1>2, <2>1, NewRow
  <1> QED  BY <1>1, <1>2

(* Each row of a leg is there, under a new number.                            *)
LEMMA RowOfLeg ==
  ASSUME NEW streams, NEW res, NEW after, NEW res2, NEW legs, NEW id, NEW c,
         Growth(streams, res, after, res2, legs, id, c),
         NEW a \in DOMAIN legs, NEW k \in DOMAIN legs[a]
  PROVE  /\ a \in Account /\ Version(streams[a]) + k \in DOMAIN after[a]
         /\ Version(streams[a]) + k \notin DOMAIN streams[a]
         /\ after[a][Version(streams[a]) + k] = legs[a][k]
  BY FirstRow DEF Growth, Planned

(* A new id has no rows.                                                      *)
LEMMA FreshId ==
  ASSUME NEW streams, NEW res, Streams(streams, res), NEW id \in CommandId, ~Done(res, id),
         NEW a \in Account, NEW i \in DOMAIN streams[a]
  PROVE  streams[a][i].group # id /\ streams[a][i].cmd # id
  BY DomainAssumption DEF Streams, Known

(* The amount a row moves is not zero.                                        *)
LEMMA MovesSome ==
  ASSUME NEW a, NEW e, Typed(a, e), e.type \in MovementTypes
  PROVE  BalanceDelta(e) \in Int /\ BalanceDelta(e) # 0
  <1>1. e.amount \in Int /\ e.amount >= 1
    BY DEF Typed, ValidEvent, ValidAmount
  <1>2. BalanceDelta(e) = IF BalanceSign(e.type) > 0 THEN e.amount ELSE -e.amount
    BY <1>1, MovementDelta
  <1> QED  BY <1>1, <1>2

(* A group's net on an account is what its one movement there does.           *)
LEMMA NetOf ==
  ASSUME NEW streams, OneMove(streams), NEW g \in CommandId, NEW a \in Account,
         NEW i \in Moves(streams[a], g)
  PROVE  Net(streams[a], g) = BalanceDelta(streams[a][i])
  <1>1. (CHOOSE j \in Moves(streams[a], g) : TRUE) = i
    BY DEF OneMove
  <1> QED  BY <1>1 DEF Net

(* A group without movements on an account has net 0 there.                   *)
LEMMA NetNone ==
  ASSUME NEW s, NEW g, Moves(s, g) = {}
  PROVE  Net(s, g) = 0
  BY DEF Net

(* The second row of a leg is the rest of a partial capture.                  *)
LEMMA SecondRow ==
  ASSUME NEW rows, Shape(rows), NEW k \in DOMAIN rows
  PROVE  \/ k = 1
         \/ /\ k = 2 /\ rows[1].type = "HoldPosted" /\ rows[2].type = "HoldReleased"
            /\ rows[2].reason = "partial" /\ rows[2].group = rows[1].group
            /\ DOMAIN rows = {1, 2} /\ rows = <<rows[1], rows[2]>>
  <1>1. CASE \E e : rows = <<e>>
    BY <1>1
  <1>2. CASE \E e, f : /\ rows = <<e, f>> /\ e.type = "HoldPosted" /\ f.type = "HoldReleased"
                       /\ f.reason = "partial" /\ f.group = e.group
    <2>1. PICK e, f : /\ rows = <<e, f>> /\ e.type = "HoldPosted" /\ f.type = "HoldReleased"
                       /\ f.reason = "partial" /\ f.group = e.group
      BY <1>2
    <2>2. rows[1] = e /\ rows[2] = f /\ DOMAIN rows = {1, 2}
      BY <2>1
    <2> QED  BY <2>1, <2>2
  <1> QED  BY <1>1, <1>2 DEF Shape

(* An execution that touches an account writes at least one row there.        *)
LEMMA HasFirst ==
  ASSUME NEW rows, Shape(rows)
  PROVE  1 \in DOMAIN rows
  <1>1. CASE \E e : rows = <<e>>
    BY <1>1
  <1>2. CASE \E e, f : rows = <<e, f>>
    BY <1>2
  <1> QED  BY <1>1, <1>2 DEF Shape

(* The group whose money the plan moves: the captured hold, else the command. *)
Mover(streams, legs, id, c) == IF Capture(streams, legs, c) THEN c.hold ELSE id

(* A row of each kind of plan.                                                *)
LEMMA CaptureRow ==
  ASSUME NEW streams, NEW legs, NEW id, NEW c, Planned(legs, id, c), Capture(streams, legs, c),
         NEW a \in DOMAIN legs, NEW k \in DOMAIN legs[a]
  PROVE  /\ legs[a][k].group = c.hold /\ c.hold \in CommandId
         /\ k = 1 => IF a = c.account THEN legs[a][k].type = "HoldPosted"
                                      ELSE legs[a][k].type = "TransferCredited"
         /\ legs[c.account][1].type = "HoldPosted" /\ 1 \in DOMAIN legs[c.account]
  <1> DEFINE hold == OpenHold(streams[c.account], c.hold)
             b == hold.counterparty
  <1>1. PICK p, q : /\ legs[b] = <<q>>
                    /\ q.type = "TransferCredited" /\ q.group = c.hold
                    /\ p.type = "HoldPosted" /\ p.group = c.hold
                    /\ \/ legs[c.account] = <<p>>
                       \/ \E f : legs[c.account] = <<p, f>>
    BY DEF Capture
  <1>2. a \in {c.account, b} /\ b # c.account /\ c.account \in DOMAIN legs
    BY DEF Capture
  <1> HIDE DEF hold, b
  <1>3. \A x, y : <<x>>[1] = x /\ <<x, y>>[1] = x /\ DOMAIN <<x>> = {1}
    OBVIOUS
  <1>4. legs[c.account][1] = p
    BY <1>1, <1>3
  <1>5. Shape(legs[c.account]) /\ 1 \in DOMAIN legs[c.account]
    BY <1>2, HasFirst DEF Planned
  <1>6. Typed(c.account, p) /\ c.hold \in CommandId
    BY <1>1, <1>2, <1>4, <1>5 DEF Planned, Typed, ValidEvent, ValidHoldEvent
  <1>7. CASE a = b
    BY <1>1, <1>2, <1>3, <1>4, <1>5, <1>6, <1>7
  <1>8. CASE a = c.account
    BY <1>1, <1>2, <1>4, <1>5, <1>6, <1>8, SecondRow
  <1> QED  BY <1>2, <1>7, <1>8

(* A plan that is no capture has one row per account, of its shape's type.    *)
LEMMA PlanRow ==
  ASSUME NEW streams, NEW legs, NEW id, NEW c, Planned(legs, id, c), Plan(streams, legs, id, c),
         ~Capture(streams, legs, c), NEW a \in DOMAIN legs, NEW k \in DOMAIN legs[a]
  PROVE  /\ k = 1 /\ legs[a] = <<legs[a][1]>>
         /\ \/ Cash(legs, c) /\ legs[a][1].type \in {"Deposited", "Withdrawn"} /\ a = c.account
            \/ /\ Place(legs, id, c) /\ legs[a][1].type = "HoldPlaced" /\ legs[a][1].group = id
               /\ a = c.account
            \/ /\ Release(streams, legs, c) /\ legs[a][1].type = "HoldReleased"
               /\ legs[a][1].group = c.hold /\ a = c.account
            \/ /\ Move(legs, id) /\ legs[a][1].type \in {"TransferDebited", "TransferCredited"}
               /\ legs[a][1].group = id
            \/ /\ Revert(streams, legs, id, c)
               /\ legs[a][1].type \in {"ReversalDebited", "ReversalCredited"}
               /\ legs[a][1].group = id /\ legs[a][1].reverts = c.transfer
  <1>1. \A x : <<x>>[1] = x /\ DOMAIN <<x>> = {1}
    OBVIOUS
  <1>2. CASE Cash(legs, c)
    BY <1>1, <1>2 DEF Cash
  <1>3. CASE Place(legs, id, c)
    BY <1>1, <1>3 DEF Place
  <1>4. CASE Release(streams, legs, c)
    BY <1>1, <1>4 DEF Release
  <1>5. CASE Move(legs, id)
    BY <1>1, <1>5 DEF Move
  <1>6. CASE Revert(streams, legs, id, c)
    BY <1>1, <1>6 DEF Revert
  <1> QED  BY <1>2, <1>3, <1>4, <1>5, <1>6 DEF Plan

(* The movements of a plan are one per account, of the mover's group.         *)
LEMMA MoverRows ==
  ASSUME NEW streams, NEW legs, NEW id, NEW c, Planned(legs, id, c), Plan(streams, legs, id, c),
         NEW a \in DOMAIN legs, NEW k \in DOMAIN legs[a], legs[a][k].type \in MovementTypes
  PROVE  k = 1 /\ legs[a][k].group = Mover(streams, legs, id, c)
  <1>1. CASE Capture(streams, legs, c)
    <2>1. k = 1
      BY SecondRow DEF Planned, MovementTypes
    <2> QED  BY <1>1, <2>1, CaptureRow DEF Mover
  <1>2. CASE ~Capture(streams, legs, c)
    BY <1>2, PlanRow DEF Mover, MovementTypes
  <1> QED  BY <1>1, <1>2

(* The mover has moved no money before: a captured hold was open.             *)
LEMMA MoverFresh ==
  ASSUME NEW streams, NEW res, Consistent(streams, res), NEW legs, NEW id \in CommandId, NEW c,
         ~Done(res, id), Planned(legs, id, c), Plan(streams, legs, id, c)
  PROVE  /\ Mover(streams, legs, id, c) \in CommandId
         /\ \A a \in Account : Moves(streams[a], Mover(streams, legs, id, c)) = {}
  <1>1. CASE Capture(streams, legs, c)
    <2>1. Mover(streams, legs, id, c) = c.hold /\ c.account \in Account /\ c.account \in DOMAIN legs
      BY <1>1 DEF Mover, Planned
    <2>2. c.hold \in CommandId
      <3>1. 1 \in DOMAIN legs[c.account]
        BY <2>1, HasFirst DEF Planned
      <3> QED  BY <1>1, <2>1, <3>1, CaptureRow
    <2>3. OpenHold(streams[c.account], c.hold) # NoHold /\ Dense(streams[c.account])
      BY <1>1, <2>1 DEF Capture, Consistent, Streams
    <2>4. Placed(streams[c.account], c.hold) # {}
      BY <2>3, OpenHoldIs DEF Placed
    <2>5. \A i \in DOMAIN streams[c.account] :
            streams[c.account][i].group = c.hold => ~ClosesHold(streams[c.account][i])
      BY <2>3, OpenHoldIs
    <2>6. \A b \in Account : Moves(streams[b], c.hold) = {}
      BY <2>1, <2>2, <2>4, <2>5 DEF Consistent, Captured, ClosesHold
    <2> QED  BY <2>1, <2>2, <2>6
  <1>2. CASE ~Capture(streams, legs, c)
    <2>1. \A a \in Account : \A i \in DOMAIN streams[a] : streams[a][i].group # id
      BY FreshId DEF Consistent
    <2> QED  BY <1>2, <2>1 DEF Mover, Moves
  <1> QED  BY <1>1, <1>2

(* Apart from deposits and withdrawals, a plan's rows cancel out.             *)
LEMMA LegNetType ==
  ASSUME NEW streams, NEW legs, NEW id, NEW c, Planned(legs, id, c)
  PROVE  \A a \in Account : LegNet(legs)[a] \in Int
  <1> SUFFICES ASSUME NEW a \in Account PROVE LegNet(legs)[a] \in Int
    OBVIOUS
  <1>1. CASE a \in DOMAIN legs
    <2>1. 1 \in DOMAIN legs[a]
      BY <1>1, HasFirst DEF Planned
    <2>2. legs[a][1].type \in EventType /\ legs[a][1].amount \in 1..MaxBigint
      BY <1>1, <2>1 DEF Planned, Typed, ValidEvent, ValidAmount
    <2>3. BalanceDelta(legs[a][1]) \in Int
      BY <2>2, Deltas
    <2> QED  BY <1>1, <2>3 DEF LegNet
  <1>2. CASE a \notin DOMAIN legs
    BY <1>2 DEF LegNet
  <1> QED  BY <1>1, <1>2

(* Two opposite summands and zeros.                                           *)
LEMMA TwoCancel ==
  ASSUME NEW f, \A a \in Account : f[a] \in Int, NEW a \in Account, NEW b \in Account, a # b,
         f[b] = -f[a], \A x \in Account : x \notin {a, b} => f[x] = 0
  PROVE  SumFunctionOnSet(f, Account) = 0
  <1> DEFINE zero == [x \in Account |-> 0]
             one == [x \in Account |-> IF x = a THEN f[a] ELSE 0]
  <1>0. IsFiniteSet(Account)
    BY LedgerAssumption
  <1>1. \A x \in Account : zero[x] \in Int /\ zero[x] = 0 /\ one[x] \in Int
    OBVIOUS
  <1>2. \A x \in Account : x # a => one[x] = zero[x]
    OBVIOUS
  <1>3. \A x \in Account : x # b => f[x] = one[x]
    OBVIOUS
  <1>4. one[a] = f[a] /\ zero[a] = 0 /\ one[b] = 0
    OBVIOUS
  <1> HIDE DEF zero, one
  <1>5. SumFunctionOnSet(zero, Account) = 0
    BY <1>0, <1>1, SumZero
  <1>6. SumFunctionOnSet(one, Account) = SumFunctionOnSet(zero, Account) + (one[a] - zero[a])
    BY <1>0, <1>1, <1>2, SumChange
  <1>7. SumFunctionOnSet(f, Account) = SumFunctionOnSet(one, Account) + (f[b] - one[b])
    BY <1>0, <1>1, <1>3, SumChange
  <1> QED  BY <1>4, <1>5, <1>6, <1>7

(* A reversal does the opposite of what it reverts.                           *)
LEMMA RevertNet ==
  ASSUME NEW streams, NEW res, Consistent(streams, res), NEW legs, NEW id \in CommandId, NEW c,
         Planned(legs, id, c), Revert(streams, legs, id, c), NEW a \in Account
  PROVE  /\ Net(streams[a], c.transfer) \in Int
         /\ LegNet(legs)[a] = -Net(streams[a], c.transfer)
  <1> DEFINE g == c.transfer
  <1>0. \A x : <<x>>[1] = x /\ DOMAIN <<x>> = {1}
    OBVIOUS
  <1>1. CASE a \in DOMAIN legs
    <2>1. PICK i \in Moves(streams[a], g) :
            /\ BalanceDelta(legs[a][1]) = -BalanceDelta(streams[a][i]) /\ legs[a][1].reverts = g
            /\ legs[a][1].type \in {"ReversalDebited", "ReversalCredited"} /\ 1 \in DOMAIN legs[a]
      BY <1>0, <1>1 DEF Revert
    <2>2. g \in CommandId
      BY <1>1, <2>1 DEF Planned, Typed, ValidEvent, ValidReversalLeg
    <2>3. Net(streams[a], g) = BalanceDelta(streams[a][i])
      BY <2>2, NetOf DEF Consistent
    <2>4. Typed(a, streams[a][i]) /\ streams[a][i].type \in MovementTypes
      BY DEF Consistent, Streams, Moves
    <2>5. BalanceDelta(streams[a][i]) \in Int
      BY <2>4, MovesSome
    <2>6. LegNet(legs)[a] = BalanceDelta(legs[a][1])
      BY <1>1 DEF LegNet
    <2> HIDE DEF g
    <2>7. Net(streams[a], g) \in Int /\ LegNet(legs)[a] = -Net(streams[a], g)
      BY <2>1, <2>3, <2>5, <2>6
    <2> QED  BY <2>7 DEF g
  <1>2. CASE a \notin DOMAIN legs
    <2>1. Net(streams[a], g) = 0
      BY <1>2, NetNone DEF Revert
    <2>2. LegNet(legs)[a] = 0
      BY <1>2 DEF LegNet
    <2>3. \A m, n \in Int : m + n = 0 => m = -n
      OBVIOUS
    <2>4. 0 \in Int /\ 0 + 0 = 0
      OBVIOUS
    <2> QED  BY <2>1, <2>2, <2>3, <2>4, Zenon
  <1> QED  BY <1>1, <1>2

(* A plan that is neither deposit nor withdrawal moves 0 in all.              *)
LEMMA LegNetCancels ==
  ASSUME NEW streams, NEW res, Consistent(streams, res), NEW legs, NEW id \in CommandId, NEW c,
         Planned(legs, id, c), Plan(streams, legs, id, c), ~Cash(legs, c)
  PROVE  SumFunctionOnSet(LegNet(legs), Account) = 0
  <1>0. IsFiniteSet(Account) /\ c.account \in Account /\ c.account \in DOMAIN legs
    BY LedgerAssumption DEF Planned
  <1>1. \A a \in Account : LegNet(legs)[a] \in Int
    BY LegNetType
  <1>2. \A a \in DOMAIN legs : 1 \in DOMAIN legs[a] /\ legs[a][1].amount \in Int
                               /\ Typed(a, legs[a][1]) /\ a \in Account
    <2> TAKE a \in DOMAIN legs
    <2>1. 1 \in DOMAIN legs[a]
      BY HasFirst DEF Planned
    <2>2. Typed(a, legs[a][1]) /\ a \in Account
      BY <2>1 DEF Planned
    <2>3. legs[a][1].amount \in 1..MaxBigint
      BY <2>2 DEF Typed, ValidEvent, ValidAmount
    <2> QED  BY <2>1, <2>2, <2>3
  <1>3. CASE Place(legs, id, c) \/ Release(streams, legs, c)
    <2>1. \A a \in DOMAIN legs : a = c.account /\ legs[a][1].type \in {"HoldPlaced", "HoldReleased"}
      <3>1. \A x : <<x>>[1] = x
        OBVIOUS
      <3> QED  BY <1>3, <3>1 DEF Place, Release
    <2>2. \A a \in DOMAIN legs : BalanceDelta(legs[a][1]) = 0
      BY <1>2, <2>1, DeltaOf
    <2>3. \A a \in Account : LegNet(legs)[a] = 0
      BY <2>2 DEF LegNet
    <2> QED  BY <1>0, <2>3, SumZero
  <1>4. CASE Capture(streams, legs, c)
    <2> DEFINE b == OpenHold(streams[c.account], c.hold).counterparty
               a == c.account
    <2>1. b \in Account /\ b # a /\ DOMAIN legs = {a, b}
      BY <1>4 DEF Capture
    <2>2. legs[a][1].type = "HoldPosted" /\ legs[b][1].type = "TransferCredited"
      BY <1>2, <1>4, <2>1, CaptureRow
    <2>3. legs[b][1].amount = legs[a][1].amount
      <3>1. \A x, y : <<x>>[1] = x /\ <<x, y>>[1] = x
        OBVIOUS
      <3> QED  BY <1>4, <3>1 DEF Capture
    <2>4. BalanceDelta(legs[a][1]) = -legs[a][1].amount
          /\ BalanceDelta(legs[b][1]) = legs[b][1].amount
      BY <1>2, <2>1, <2>2, DeltaOf
    <2> HIDE DEF b, a
    <2>5. /\ LegNet(legs)[a] = -legs[a][1].amount /\ LegNet(legs)[b] = legs[a][1].amount
          /\ \A x \in Account : x \notin {a, b} => LegNet(legs)[x] = 0
      BY <1>0, <2>1, <2>3, <2>4 DEF LegNet, a
    <2>6. LegNet(legs)[b] = -LegNet(legs)[a]
      BY <1>2, <2>1, <2>5
    <2> QED  BY <1>0, <1>1, <2>1, <2>5, <2>6, TwoCancel DEF a
  <1>5. CASE Move(legs, id)
    BY <1>5 DEF Move
  <1>6. CASE Revert(streams, legs, id, c)
    <2> DEFINE g == c.transfer
               zero == [x \in Account |-> 0]
    <2>1. \A a \in Account : Nets(streams, g)[a] \in Int /\ LegNet(legs)[a] = -Nets(streams, g)[a]
      BY <1>6, RevertNet DEF Nets
    <2>2. \A a \in Account : zero[a] = LegNet(legs)[a] + Nets(streams, g)[a] /\ zero[a] = 0
      BY <2>1
    <2>3. g \in CommandId
      <3>1. legs[c.account][1].reverts = g
            /\ legs[c.account][1].type \in {"ReversalDebited", "ReversalCredited"}
        <4>1. \A x : <<x>>[1] = x
          OBVIOUS
        <4> QED  BY <1>0, <1>6, <4>1 DEF Revert
      <3> QED  BY <1>0, <1>2, <3>1 DEF Typed, ValidEvent, ValidReversalLeg
    <2> HIDE DEF zero, g
    <2>4. SumFunctionOnSet(zero, Account) = 0
      BY <1>0, <2>2, SumZero
    <2>5. SumFunctionOnSet(zero, Account)
            = SumFunctionOnSet(LegNet(legs), Account) + SumFunctionOnSet(Nets(streams, g), Account)
      BY <1>0, <1>1, <2>1, <2>2, SumPlus
    <2>6. SumFunctionOnSet(Nets(streams, g), Account) = 0
      BY <2>3 DEF Consistent, Cancels
    <2>7. SumFunctionOnSet(LegNet(legs), Account) \in Int
      BY <1>0, <1>1, SumInt
    <2> QED  BY <2>4, <2>5, <2>6, <2>7
  <1> QED  BY <1>3, <1>4, <1>5, <1>6 DEF Plan

(* The movements after an append: those of other groups stay, the mover's are *)
(* the plan's.                                                                *)
LEMMA MoveRows ==
  ASSUME NEW streams, NEW res, NEW after, NEW res2, NEW legs, NEW id, NEW c,
         Growth(streams, res, after, res2, legs, id, c),
         NEW a \in Account, NEW g \in CommandId
  PROVE  /\ \A i \in Moves(streams[a], g) :
              i \in Moves(after[a], g) /\ g # Mover(streams, legs, id, c)
         /\ \A i \in Moves(after[a], g) :
              \/ i \in Moves(streams[a], g)
              \/ /\ g = Mover(streams, legs, id, c) /\ a \in DOMAIN legs
                 /\ legs[a][1].type \in MovementTypes /\ i = Version(streams[a]) + 1
         /\ a \in DOMAIN legs /\ legs[a][1].type \in MovementTypes =>
              Version(streams[a]) + 1 \in Moves(after[a], Mover(streams, legs, id, c))
  <1> DEFINE G == Mover(streams, legs, id, c)
  <1>1. ASSUME NEW i \in Moves(streams[a], g) PROVE i \in Moves(after[a], g) /\ g # G
    <2>1. i \in DOMAIN streams[a] /\ streams[a][i].group = g /\ streams[a][i].type \in MovementTypes
      BY DEF Moves
    <2>2. i \in Moves(after[a], g)
      BY <2>1, RowBefore DEF Moves
    <2>3. Moves(streams[a], G) = {}
      BY MoverFresh DEF Growth
    <2> QED  BY <1>1, <2>2, <2>3
  <1>2. ASSUME NEW i \in Moves(after[a], g)
        PROVE  \/ i \in Moves(streams[a], g)
               \/ /\ g = G /\ a \in DOMAIN legs /\ legs[a][1].type \in MovementTypes
                  /\ i = Version(streams[a]) + 1
    <2>1. i \in DOMAIN after[a] /\ after[a][i].group = g /\ after[a][i].type \in MovementTypes
      BY DEF Moves
    <2>2. CASE i \in DOMAIN streams[a] /\ after[a][i] = streams[a][i]
      BY <2>1, <2>2 DEF Moves
    <2>3. CASE a \in DOMAIN legs /\ \E k \in DOMAIN legs[a] : after[a][i] = legs[a][k]
                                                             /\ i = Version(streams[a]) + k
      <3>1. PICK k \in DOMAIN legs[a] : after[a][i] = legs[a][k] /\ i = Version(streams[a]) + k
        BY <2>3
      <3>2. k = 1 /\ legs[a][k].group = G
        BY <2>1, <2>3, <3>1, MoverRows DEF Growth
      <3> QED  BY <2>1, <2>3, <3>1, <3>2
    <2> QED  BY <2>1, <2>2, <2>3, RowAfter
  <1>3. ASSUME a \in DOMAIN legs, legs[a][1].type \in MovementTypes
        PROVE  Version(streams[a]) + 1 \in Moves(after[a], G)
    <2>1. 1 \in DOMAIN legs[a]
      BY <1>3, HasFirst DEF Growth, Planned
    <2>2. legs[a][1].group = G
      BY <1>3, <2>1, MoverRows DEF Growth
    <2> QED  BY <1>3, <2>1, <2>2, RowOfLeg DEF Moves
  <1> QED  BY <1>1, <1>2, <1>3

(* Other groups keep their movements.                                         *)
LEMMA MovesKept ==
  ASSUME NEW streams, NEW res, NEW after, NEW res2, NEW legs, NEW id, NEW c,
         Growth(streams, res, after, res2, legs, id, c),
         NEW a \in Account, NEW g \in CommandId, g # Mover(streams, legs, id, c)
  PROVE  Moves(after[a], g) = Moves(streams[a], g)
  <1>1. /\ \A i \in Moves(streams[a], g) : i \in Moves(after[a], g)
        /\ \A i \in Moves(after[a], g) : i \in Moves(streams[a], g)
    BY MoveRows
  <1> QED  BY <1>1

(* The mover's movements are the plan's.                                      *)
LEMMA MovesNew ==
  ASSUME NEW streams, NEW res, NEW after, NEW res2, NEW legs, NEW id, NEW c,
         Growth(streams, res, after, res2, legs, id, c),
         NEW a \in Account, NEW g \in CommandId, g = Mover(streams, legs, id, c)
  PROVE  Moves(after[a], g) = IF a \in DOMAIN legs /\ legs[a][1].type \in MovementTypes
                              THEN {Version(streams[a]) + 1} ELSE {}
  <1>1. /\ Moves(streams[a], g) = {}
        /\ \A i \in Moves(after[a], g) :
             \/ i \in Moves(streams[a], g)
             \/ /\ a \in DOMAIN legs /\ legs[a][1].type \in MovementTypes
                /\ i = Version(streams[a]) + 1
        /\ a \in DOMAIN legs /\ legs[a][1].type \in MovementTypes =>
             Version(streams[a]) + 1 \in Moves(after[a], g)
    BY MoveRows
  <1> QED  BY <1>1

(* Still one movement per group and account.                                  *)
LEMMA OneMoveAfter ==
  ASSUME NEW streams, NEW res, NEW after, NEW res2, NEW legs, NEW id, NEW c,
         Growth(streams, res, after, res2, legs, id, c)
  PROVE  OneMove(after)
  <1> SUFFICES ASSUME NEW g \in CommandId, NEW a \in Account,
                      NEW i \in Moves(after[a], g), NEW j \in Moves(after[a], g)
               PROVE  i = j
    BY DEF OneMove
  <1>1. CASE g = Mover(streams, legs, id, c)
    <2>1. Moves(after[a], g) = IF a \in DOMAIN legs /\ legs[a][1].type \in MovementTypes
                               THEN {Version(streams[a]) + 1} ELSE {}
      BY <1>1, MovesNew
    <2> QED  BY <2>1
  <1>2. CASE g # Mover(streams, legs, id, c)
    <2>1. Moves(after[a], g) = Moves(streams[a], g)
      BY <1>2, MovesKept
    <2> QED  BY <2>1 DEF Growth, Consistent, OneMove
  <1> QED  BY <1>1, <1>2

(* The nets after an append.                                                  *)
LEMMA NetAfter ==
  ASSUME NEW streams, NEW res, NEW after, NEW res2, NEW legs, NEW id, NEW c,
         Growth(streams, res, after, res2, legs, id, c),
         NEW a \in Account, NEW g \in CommandId
  PROVE  IF g # Mover(streams, legs, id, c) THEN Net(after[a], g) = Net(streams[a], g)
         ELSE Net(after[a], g) = IF Cash(legs, c) THEN 0 ELSE LegNet(legs)[a]
  <1> DEFINE G == Mover(streams, legs, id, c)
  <1>1. CASE g # G
    <2>1. Moves(after[a], g) = Moves(streams[a], g)
      BY <1>1, MovesKept
    <2>2. CASE Moves(streams[a], g) = {}
      BY <1>1, <2>1, <2>2, NetNone
    <2>3. CASE Moves(streams[a], g) # {}
      <3>1. PICK i \in Moves(streams[a], g) : TRUE
        BY <2>3
      <3>2. Net(streams[a], g) = BalanceDelta(streams[a][i])
        BY NetOf DEF Growth, Consistent
      <3>3. Net(after[a], g) = BalanceDelta(after[a][i])
        BY <2>1, OneMoveAfter, NetOf
      <3>4. after[a][i] = streams[a][i]
        BY RowBefore DEF Moves
      <3> QED  BY <1>1, <3>2, <3>3, <3>4
    <2> QED  BY <2>2, <2>3
  <1>2. CASE g = G
    <2>1. Moves(after[a], g) = IF a \in DOMAIN legs /\ legs[a][1].type \in MovementTypes
                               THEN {Version(streams[a]) + 1} ELSE {}
      BY <1>2, MovesNew
    <2>2. CASE a \in DOMAIN legs /\ legs[a][1].type \in MovementTypes
      <3>1. 1 \in DOMAIN legs[a]
        BY <2>2, HasFirst DEF Growth, Planned
      <3>2. after[a][Version(streams[a]) + 1] = legs[a][1]
        BY <2>2, <3>1, RowOfLeg
      <3>3. Net(after[a], g) = BalanceDelta(legs[a][1])
        BY <2>1, <2>2, <3>2, OneMoveAfter, NetOf
      <3>4. ~Cash(legs, c)
        <4>1. \A x : <<x>>[1] = x
          OBVIOUS
        <4> QED  BY <2>2, <4>1 DEF Cash, MovementTypes
      <3> QED  BY <1>2, <2>2, <3>3, <3>4 DEF LegNet
    <2>3. CASE a \in DOMAIN legs /\ legs[a][1].type \notin MovementTypes
      <3>1. Net(after[a], g) = 0
        BY <2>1, <2>3, NetNone
      <3>2. 1 \in DOMAIN legs[a]
        BY <2>3, HasFirst DEF Growth, Planned
      <3>3. CASE Capture(streams, legs, c)
        BY <2>3, <3>2, <3>3, CaptureRow DEF Growth, MovementTypes
      <3>4. CASE ~Capture(streams, legs, c) /\ ~Cash(legs, c)
        <4>1. legs[a][1].type \in {"HoldPlaced", "HoldReleased"}
          BY <2>3, <3>2, <3>4, PlanRow DEF Growth, MovementTypes
        <4>2. legs[a][1].amount \in 1..MaxBigint
          BY <2>3, <3>2 DEF Growth, Planned, Typed, ValidEvent, ValidAmount
        <4>3. BalanceDelta(legs[a][1]) = 0
          BY <4>1, <4>2, DeltaOf
        <4> QED  BY <1>2, <2>3, <3>1, <3>4, <4>3 DEF LegNet
      <3>5. CASE Cash(legs, c)
        BY <1>2, <3>1, <3>5
      <3> QED  BY <3>3, <3>4, <3>5
    <2>4. CASE a \notin DOMAIN legs
      <3>1. Net(after[a], g) = 0
        BY <2>1, <2>4, NetNone
      <3> QED  BY <1>2, <2>4, <3>1 DEF LegNet
    <2> QED  BY <2>2, <2>3, <2>4
  <1> QED  BY <1>1, <1>2

(* Nets are integers.                                                         *)
LEMMA NetType ==
  ASSUME NEW streams, NEW res, Consistent(streams, res), NEW a \in Account, NEW g \in CommandId
  PROVE  Net(streams[a], g) \in Int
  <1>1. CASE Moves(streams[a], g) = {}
    BY <1>1, NetNone
  <1>2. CASE Moves(streams[a], g) # {}
    <2>1. PICK i \in Moves(streams[a], g) : TRUE
      BY <1>2
    <2>2. Net(streams[a], g) = BalanceDelta(streams[a][i])
      BY NetOf DEF Consistent
    <2>3. Typed(a, streams[a][i]) /\ streams[a][i].type \in MovementTypes
      BY DEF Consistent, Streams, Moves
    <2> QED  BY <2>2, <2>3, MovesSome
  <1> QED  BY <1>1, <1>2

(* Every group still cancels out.                                             *)
LEMMA CancelsAfter ==
  ASSUME NEW streams, NEW res, NEW after, NEW res2, NEW legs, NEW id, NEW c,
         Growth(streams, res, after, res2, legs, id, c)
  PROVE  Cancels(after)
  <1> SUFFICES ASSUME NEW g \in CommandId PROVE SumFunctionOnSet(Nets(after, g), Account) = 0
    BY DEF Cancels
  <1>0. IsFiniteSet(Account)
    BY LedgerAssumption
  <1>1. CASE g # Mover(streams, legs, id, c)
    <2>1. \A a \in Account : /\ Nets(streams, g)[a] \in Int
                             /\ Nets(streams, g)[a] = Nets(after, g)[a]
      <3> TAKE a \in Account
      <3>1. Net(streams[a], g) \in Int
        BY NetType DEF Growth
      <3>2. Net(after[a], g) = Net(streams[a], g)
        BY <1>1, NetAfter
      <3> QED  BY <3>1, <3>2 DEF Nets
    <2>2. SumFunctionOnSet(Nets(streams, g), Account) = SumFunctionOnSet(Nets(after, g), Account)
      BY <1>0, <2>1, SumSame
    <2> QED  BY <2>2 DEF Growth, Consistent, Cancels
  <1>2. CASE g = Mover(streams, legs, id, c) /\ Cash(legs, c)
    <2>1. \A a \in Account : Nets(after, g)[a] = 0
      BY <1>2, NetAfter DEF Nets
    <2> QED  BY <1>0, <2>1, SumZero
  <1>3. CASE g = Mover(streams, legs, id, c) /\ ~Cash(legs, c)
    <2>1. \A a \in Account : /\ LegNet(legs)[a] \in Int
                             /\ LegNet(legs)[a] = Nets(after, g)[a]
      BY <1>3, LegNetType, NetAfter DEF Nets, Growth
    <2>2. SumFunctionOnSet(LegNet(legs), Account) = SumFunctionOnSet(Nets(after, g), Account)
      BY <1>0, <2>1, SumSame
    <2>3. SumFunctionOnSet(LegNet(legs), Account) = 0
      BY <1>3, LegNetCancels DEF Growth
    <2> QED  BY <2>2, <2>3
  <1> QED  BY <1>1, <1>2, <1>3

(* A new placement is the plan's own.                                         *)
LEMMA PlacedAfter ==
  ASSUME NEW streams, NEW res, NEW after, NEW res2, NEW legs, NEW id, NEW c,
         Growth(streams, res, after, res2, legs, id, c),
         NEW a \in Account, NEW h \in CommandId, NEW i \in Placed(after[a], h)
  PROVE  IF h # id THEN i \in Placed(streams[a], h)
         ELSE /\ a = c.account /\ i = Version(streams[a]) + 1 /\ Mover(streams, legs, id, c) = h
              /\ \A x \in DOMAIN legs : legs[x][1].type = "HoldPlaced"
  <1>1. i \in DOMAIN after[a] /\ after[a][i].type = "HoldPlaced" /\ after[a][i].group = h
    BY DEF Placed
  <1>2. CASE i \in DOMAIN streams[a] /\ after[a][i] = streams[a][i]
    <2>1. i \in Placed(streams[a], h)
      BY <1>1, <1>2 DEF Placed
    <2>2. streams[a][i].group # id
      BY <1>2, FreshId DEF Growth, Consistent
    <2> QED  BY <1>1, <1>2, <2>1, <2>2
  <1>3. CASE a \in DOMAIN legs /\ \E k \in DOMAIN legs[a] : after[a][i] = legs[a][k]
                                                           /\ i = Version(streams[a]) + k
    <2>1. PICK k \in DOMAIN legs[a] : after[a][i] = legs[a][k] /\ i = Version(streams[a]) + k
      BY <1>3
    <2>2. k = 1
      BY <1>1, <1>3, <2>1, SecondRow DEF Growth, Planned
    <2>3. ~Capture(streams, legs, c)
      BY <1>1, <1>3, <2>1, <2>2, CaptureRow DEF Growth
    <2>4. Place(legs, id, c) /\ a = c.account /\ h = id
      BY <1>1, <1>3, <2>1, <2>2, <2>3, PlanRow DEF Growth
    <2>5. \A x \in DOMAIN legs : legs[x][1].type = "HoldPlaced"
      BY <1>1, <2>1, <2>2, <2>4 DEF Place
    <2> QED  BY <1>1, <2>1, <2>2, <2>3, <2>4, <2>5 DEF Mover
  <1> QED  BY <1>1, <1>2, <1>3, RowAfter

(* A hold is still placed once.                                               *)
LEMMA OnePlacementAfter ==
  ASSUME NEW streams, NEW res, NEW after, NEW res2, NEW legs, NEW id, NEW c,
         Growth(streams, res, after, res2, legs, id, c)
  PROVE  OnePlacement(after)
  <1> SUFFICES ASSUME NEW h \in CommandId, NEW a \in Account, NEW b \in Account,
                      NEW i \in Placed(after[a], h), NEW j \in Placed(after[b], h)
               PROVE  a = b /\ i = j
    BY DEF OnePlacement
  <1>1. CASE h = id
    <2>1. a = c.account /\ i = Version(streams[a]) + 1 /\ b = c.account /\ j = Version(streams[b]) + 1
      BY <1>1, PlacedAfter
    <2> QED  BY <2>1
  <1>2. CASE h # id
    <2>1. i \in Placed(streams[a], h) /\ j \in Placed(streams[b], h)
      BY <1>2, PlacedAfter
    <2>2. OnePlacement(streams)
      BY DEF Growth, Consistent
    <2> QED  BY <2>1, <2>2 DEF OnePlacement
  <1> QED  BY <1>1, <1>2

(* A hold that moved money has still been posted where it was placed.         *)
LEMMA CapturedAfter ==
  ASSUME NEW streams, NEW res, NEW after, NEW res2, NEW legs, NEW id, NEW c,
         Growth(streams, res, after, res2, legs, id, c)
  PROVE  Captured(after)
  <1> SUFFICES ASSUME NEW h \in CommandId, NEW a \in Account, NEW b \in Account,
                      NEW i \in Placed(after[a], h), NEW j \in Moves(after[b], h)
               PROVE  \E k \in DOMAIN after[a] : after[a][k].group = h /\ after[a][k].type = "HoldPosted"
    BY DEF Captured
  <1>1. CASE h = id
    <2>1. /\ Mover(streams, legs, id, c) = h
          /\ \A x \in DOMAIN legs : legs[x][1].type = "HoldPlaced"
      BY <1>1, PlacedAfter
    <2>3. b \in DOMAIN legs /\ legs[b][1].type \in MovementTypes
      BY <2>1, MovesNew
    <2> QED  BY <2>1, <2>3 DEF MovementTypes
  <1>2. CASE h # id
    <2>1. i \in Placed(streams[a], h)
      BY <1>2, PlacedAfter
    <2>2. CASE h # Mover(streams, legs, id, c)
      <3>1. j \in Moves(streams[b], h)
        BY <2>2, MovesKept
      <3>2. PICK k \in DOMAIN streams[a] : /\ streams[a][k].group = h
                                           /\ streams[a][k].type = "HoldPosted"
        BY <2>1, <3>1 DEF Growth, Consistent, Captured
      <3> QED  BY <3>2, RowBefore
    <2>3. CASE h = Mover(streams, legs, id, c)
      <3>1. Capture(streams, legs, c) /\ h = c.hold
        BY <1>2, <2>3 DEF Mover
      <3>2. c.account \in Account /\ c.account \in DOMAIN legs
        BY DEF Growth, Planned
      <3>3. Placed(streams[c.account], h) # {}
        <4>1. OpenHold(streams[c.account], h) # NoHold /\ Dense(streams[c.account])
          BY <3>1, <3>2 DEF Capture, Growth, Consistent, Streams
        <4> QED  BY <4>1, OpenHoldIs DEF Placed
      <3>4. a = c.account
        BY <2>1, <3>2, <3>3 DEF Growth, Consistent, OnePlacement
      <3>5. 1 \in DOMAIN legs[a]
        BY <3>2, <3>4, HasFirst DEF Growth, Planned
      <3>6. legs[a][1].group = h /\ legs[a][1].type = "HoldPosted"
        BY <3>1, <3>2, <3>4, <3>5, CaptureRow DEF Growth
      <3> QED  BY <3>2, <3>4, <3>5, <3>6, RowOfLeg
    <2> QED  BY <2>2, <2>3
  <1> QED  BY <1>1, <1>2

(* A new reversal row is of a Revert plan.                                    *)
LEMMA ReversalAfter ==
  ASSUME NEW streams, NEW res, NEW after, NEW res2, NEW legs, NEW id, NEW c,
         Growth(streams, res, after, res2, legs, id, c),
         NEW a \in Account, NEW i \in DOMAIN after[a], after[a][i].reverts # NoId
  PROVE  \/ i \in DOMAIN streams[a] /\ after[a][i] = streams[a][i]
         \/ /\ ~Capture(streams, legs, c) /\ Revert(streams, legs, id, c)
            /\ after[a][i].group = id /\ after[a][i].reverts = c.transfer
            /\ c.transfer \in CommandId \ {id}
  <1>1. CASE i \in DOMAIN streams[a] /\ after[a][i] = streams[a][i]
    BY <1>1
  <1>2. CASE a \in DOMAIN legs /\ \E k \in DOMAIN legs[a] : after[a][i] = legs[a][k]
    <2>1. PICK k \in DOMAIN legs[a] : after[a][i] = legs[a][k]
      BY <1>2
    <2>2. Typed(a, legs[a][k])
      BY <1>2 DEF Growth, Planned
    <2>3. legs[a][k].type \in {"ReversalDebited", "ReversalCredited"}
      BY <2>1, <2>2 DEF Typed
    <2>4. k = 1
      BY <1>2, <2>1, <2>3, SecondRow DEF Growth, Planned
    <2>5. ~Capture(streams, legs, c)
      BY <1>2, <2>1, <2>3, <2>4, CaptureRow DEF Growth
    <2>6. Revert(streams, legs, id, c) /\ legs[a][k].group = id /\ legs[a][k].reverts = c.transfer
      BY <1>2, <2>3, <2>4, <2>5, PlanRow DEF Growth
    <2>7. c.transfer \in CommandId \ {id}
      BY <2>2, <2>3, <2>6 DEF Typed, ValidEvent, ValidReversalLeg
    <2> QED  BY <2>1, <2>5, <2>6, <2>7
  <1> QED  BY <1>1, <1>2, RowAfter

(* A set still has one reversal at most.                                      *)
LEMMA OneReversalAfter ==
  ASSUME NEW streams, NEW res, NEW after, NEW res2, NEW legs, NEW id, NEW c,
         Growth(streams, res, after, res2, legs, id, c)
  PROVE  OneReversal(after)
  <1> DEFINE Old(a, i) == i \in DOMAIN streams[a] /\ after[a][i] = streams[a][i]
             New(a, i) == /\ RevertersOf(streams, c.transfer) = {} /\ after[a][i].group = id
                          /\ after[a][i].reverts = c.transfer
  <1>1. \A a \in Account : \A i \in DOMAIN after[a] :
          after[a][i].reverts # NoId => Old(a, i) \/ New(a, i)
    BY ReversalAfter DEF Revert
  <1>2. \A a \in Account : \A i \in DOMAIN streams[a] :
          RevertersOf(streams, c.transfer) = {} => streams[a][i].reverts # c.transfer
    BY DEF RevertersOf
  <1> SUFFICES ASSUME NEW a \in Account, NEW b \in Account,
                      NEW i \in DOMAIN after[a], NEW j \in DOMAIN after[b],
                      after[a][i].reverts # NoId, after[a][i].reverts = after[b][j].reverts
               PROVE  after[a][i].group = after[b][j].group
    BY DEF OneReversal
  <1>3. CASE Old(a, i) /\ Old(b, j)
    BY <1>3 DEF Growth, Consistent, OneReversal
  <1>4. CASE ~(Old(a, i) /\ Old(b, j))
    BY <1>1, <1>2, <1>4
  <1> QED  BY <1>3, <1>4

(* A reversal still mirrors its set.                                          *)
LEMMA MirroredAfter ==
  ASSUME NEW streams, NEW res, NEW after, NEW res2, NEW legs, NEW id, NEW c,
         Growth(streams, res, after, res2, legs, id, c)
  PROVE  Mirrored(after)
  <1> SUFFICES ASSUME NEW a \in Account, NEW i \in DOMAIN after[a], after[a][i].reverts # NoId,
                      NEW b \in Account
               PROVE  Net(after[b], after[a][i].group) = -Net(after[b], after[a][i].reverts)
    BY DEF Mirrored
  <1> DEFINE e == after[a][i]
             G == Mover(streams, legs, id, c)
  <1>0. Consistent(streams, res) /\ id \in CommandId
    BY DEF Growth
  <1>1. CASE i \in DOMAIN streams[a] /\ e = streams[a][i]
    <2>1. Typed(a, e)
      BY <1>0, <1>1 DEF Consistent, Streams
    <2>2. e.type \in MovementTypes /\ e.group \in CommandId /\ e.reverts \in CommandId
      BY <2>1 DEF Typed, ValidEvent, ValidReversalLeg, ValidTransferLeg, MovementTypes
    <2>3. i \in Moves(streams[a], e.group)
      BY <1>1, <2>2 DEF Moves
    <2>4. \A x \in Account : Net(streams[x], e.group) = -Net(streams[x], e.reverts)
      BY <1>0, <1>1 DEF Consistent, Mirrored
    <2>5. Net(streams[a], e.group) \in Int /\ Net(streams[a], e.group) # 0
      BY <1>0, <1>1, <2>1, <2>2, <2>3, NetOf, MovesSome DEF Consistent
    <2>6. Net(streams[a], e.reverts) # 0
      BY <2>4, <2>5
    <2>7. Moves(streams[a], e.reverts) # {} /\ Moves(streams[a], e.group) # {}
      BY <2>3, <2>6, NetNone
    <2>8. e.group # G /\ e.reverts # G
      <3>1. Moves(streams[a], G) = {}
        BY MoverFresh DEF Growth
      <3> QED  BY <2>7, <3>1
    <2>9. /\ Net(after[b], e.group) = Net(streams[b], e.group)
          /\ Net(after[b], e.reverts) = Net(streams[b], e.reverts)
      BY <2>2, <2>8, NetAfter
    <2> QED  BY <2>4, <2>9
  <1>2. CASE /\ ~Capture(streams, legs, c) /\ Revert(streams, legs, id, c)
             /\ e.group = id /\ e.reverts = c.transfer /\ c.transfer \in CommandId \ {id}
    <2>1. G = id
      BY <1>2 DEF Mover
    <2>2. ~Cash(legs, c)
      <3>1. \A x : <<x>>[1] = x
        OBVIOUS
      <3> QED  BY <1>2, <3>1 DEF Growth, Planned, Cash, Revert
    <2>3. Net(after[b], id) = LegNet(legs)[b]
      BY <1>0, <2>1, <2>2, NetAfter
    <2>4. Net(after[b], c.transfer) = Net(streams[b], c.transfer)
      BY <1>2, <2>1, NetAfter
    <2>5. LegNet(legs)[b] = -Net(streams[b], c.transfer)
      BY <1>0, <1>2, RevertNet DEF Growth
    <2> QED  BY <1>2, <2>3, <2>4, <2>5
  <1> QED  BY <1>1, <1>2, ReversalAfter

(* The streams stay well formed.                                              *)
LEMMA KnownKept ==
  ASSUME NEW res, NEW res2, NEW id, ~Done(res, id), \A x \in CommandId \ {id} : res2[x] = res[x],
         NEW e, {e.cmd, e.group} \subseteq CommandId \cup {NoId}, Known(e, res)
  PROVE  Known(e, res2)
  BY DEF Known, Done

(* The rows of a plan refer to accepted commands: an open hold's was.         *)
LEMMA RowsKnown ==
  ASSUME NEW streams, NEW res, NEW after, NEW res2, NEW legs, NEW id, NEW c,
         Growth(streams, res, after, res2, legs, id, c),
         NEW a \in DOMAIN legs, NEW k \in DOMAIN legs[a]
  PROVE  Known(legs[a][k], res2)
  <1>0. /\ Consistent(streams, res) /\ id \in CommandId /\ Done(res2, id) /\ ~Done(res, id)
        /\ \A x \in CommandId \ {id} : res2[x] = res[x]
        /\ c.account \in Account /\ c.account \in DOMAIN legs
        /\ Planned(legs, id, c) /\ Plan(streams, legs, id, c)
    BY DEF Growth, Planned
  <1>1. legs[a][k].cmd = id /\ Typed(a, legs[a][k])
    BY <1>0 DEF Planned
  <1>2. ASSUME NEW h \in CommandId, OpenHold(streams[c.account], h) # NoHold
        PROVE  Done(res2, h)
    <2>1. Dense(streams[c.account])
      BY <1>0 DEF Consistent, Streams
    <2>2. PICK i \in DOMAIN streams[c.account] : streams[c.account][i].group = h
      BY <1>2, <2>1, OpenHoldIs
    <2>3. Known(streams[c.account][i], res)
      BY <1>0 DEF Consistent, Streams
    <2>4. Done(res, h)
      BY <1>2, <2>2, <2>3, DomainAssumption DEF Known
    <2> QED  BY <1>0, <1>2, <2>4 DEF Done
  <1>3. CASE Capture(streams, legs, c)
    <2>1. legs[a][k].group = c.hold /\ c.hold \in CommandId
      BY <1>0, <1>3, CaptureRow
    <2>2. Done(res2, c.hold)
      BY <1>2, <1>3, <2>1 DEF Capture
    <2> QED  BY <1>0, <1>1, <2>1, <2>2 DEF Known
  <1>4. CASE ~Capture(streams, legs, c)
    <2>1. k = 1
      BY <1>0, <1>4, PlanRow
    <2>2. CASE legs[a][1].group = id
      BY <1>0, <1>1, <2>1, <2>2 DEF Known
    <2>3. CASE legs[a][1].type \in {"Deposited", "Withdrawn"}
      BY <1>0, <1>1, <2>1, <2>3 DEF Known, Typed
    <2>4. CASE Release(streams, legs, c) /\ legs[a][1].type = "HoldReleased" /\ legs[a][1].group = c.hold
      <3>1. c.hold \in CommandId
        BY <1>1, <2>1, <2>4 DEF Typed, ValidEvent, ValidHoldEvent
      <3>2. Done(res2, c.hold)
        BY <1>2, <2>4, <3>1 DEF Release
      <3> QED  BY <1>0, <1>1, <2>1, <2>4, <3>2 DEF Known
    <2> QED  BY <1>0, <1>4, <2>2, <2>3, <2>4, PlanRow
  <1> QED  BY <1>3, <1>4

(* Every row is one its constructor accepts, of accepted commands.            *)
LEMMA RowsAfter ==
  ASSUME NEW streams, NEW res, NEW after, NEW res2, NEW legs, NEW id, NEW c,
         Growth(streams, res, after, res2, legs, id, c),
         NEW a \in Account, NEW i \in DOMAIN after[a]
  PROVE  Typed(a, after[a][i]) /\ Known(after[a][i], res2)
  <1>1. CASE i \in DOMAIN streams[a] /\ after[a][i] = streams[a][i]
    <2>1. Typed(a, streams[a][i]) /\ Known(streams[a][i], res)
      BY <1>1 DEF Growth, Consistent, Streams
    <2>2. {streams[a][i].cmd, streams[a][i].group} \subseteq CommandId \cup {NoId}
      BY <2>1 DEF Typed
    <2>3. Known(streams[a][i], res2)
      BY <2>1, <2>2, KnownKept DEF Growth
    <2> QED  BY <1>1, <2>1, <2>3
  <1>2. CASE a \in DOMAIN legs /\ \E k \in DOMAIN legs[a] : after[a][i] = legs[a][k]
    <2>1. PICK k \in DOMAIN legs[a] : after[a][i] = legs[a][k]
      BY <1>2
    <2>2. Typed(a, legs[a][k])
      BY <1>2 DEF Growth, Planned
    <2>3. Known(legs[a][k], res2)
      BY <1>2, RowsKnown
    <2> QED  BY <2>1, <2>2, <2>3
  <1> QED  BY <1>1, <1>2, RowAfter

(* The fold of an account after an append.                                    *)
LEMMA FoldAppended ==
  ASSUME NEW streams, NEW res, NEW after, NEW res2, NEW legs, NEW id, NEW c,
         Growth(streams, res, after, res2, legs, id, c), NEW a \in DOMAIN legs
  PROVE  /\ Fold(after[a]) \in State /\ Fold(streams[a]) \in State
         /\ \/ /\ legs[a] = <<legs[a][1]>>
               /\ Fold(after[a]) = Apply(Fold(streams[a]), legs[a][1])
            \/ /\ legs[a] = <<legs[a][1], legs[a][2]>>
               /\ Fold(after[a]) = Apply(Apply(Fold(streams[a]), legs[a][1]), legs[a][2])
         /\ Sound(after[a]) /\ Dense(after[a])
  <1>1. /\ a \in Account /\ Extends(streams[a], after[a], legs[a]) /\ Shape(legs[a])
        /\ ~AppendRaises(Fold(streams[a]), legs[a]) /\ Sound(streams[a])
    BY DEF Growth, Planned, Consistent, Streams
  <1>2. Countable(streams[a]) /\ Countable(after[a])
    <2>1. \A i \in DOMAIN streams[a] : Typed(a, streams[a][i])
      BY <1>1 DEF Growth, Consistent, Streams
    <2>2. \A i \in DOMAIN after[a] : Typed(a, after[a][i])
      BY <1>1, RowsAfter
    <2> QED  BY <2>1, <2>2, TypedCountable
  <1>3. \A k \in DOMAIN legs[a] : Counts(legs[a][k])
    <2>1. \A k \in DOMAIN legs[a] : legs[a][k].type \in EventType /\ legs[a][k].amount \in 1..MaxBigint
      BY DEF Growth, Planned, Typed, ValidEvent, ValidAmount
    <2> QED  BY <2>1, DomainAssumption DEF Counts
  <1>4. /\ Fold(after[a]) \in State /\ Fold(streams[a]) \in State
        /\ \/ \E e : legs[a] = <<e>> /\ Fold(after[a]) = Apply(Fold(streams[a]), e)
           \/ \E e, f : legs[a] = <<e, f>> /\ Fold(after[a]) = Apply(Apply(Fold(streams[a]), e), f)
        /\ Sound(after[a])
    BY <1>1, <1>2, <1>3, FoldGrows
  <1>5. Dense(after[a])
    <2>1. PICK n \in Nat, m \in {1, 2} : DOMAIN after[a] = 1..(n + m)
      BY <1>1 DEF Extends
    <2>2. n + m \in Nat
      OBVIOUS
    <2> QED  BY <2>1, <2>2 DEF Dense
  <1>6. \A e, f : <<e>>[1] = e /\ <<e, f>>[1] = e /\ <<e, f>>[2] = f
    OBVIOUS
  <1> QED  BY <1>4, <1>5, <1>6

(* The streams stay dense and fold.                                           *)
LEMMA StreamsAfter ==
  ASSUME NEW streams, NEW res, NEW after, NEW res2, NEW legs, NEW id, NEW c,
         Growth(streams, res, after, res2, legs, id, c)
  PROVE  Streams(after, res2)
  <1>1. DOMAIN after = Account /\ DOMAIN res2 = CommandId
    BY DEF Growth
  <1>2. ASSUME NEW a \in Account PROVE Dense(after[a]) /\ Sound(after[a])
    <2>1. CASE a \in DOMAIN legs
      BY <2>1, FoldAppended
    <2>2. CASE a \notin DOMAIN legs
      BY <2>2 DEF Growth, Consistent, Streams
    <2> QED  BY <2>1, <2>2
  <1>3. \A a \in Account : \A i \in DOMAIN after[a] : Typed(a, after[a][i]) /\ Known(after[a][i], res2)
    BY RowsAfter
  <1> QED  BY <1>1, <1>2, <1>3 DEF Streams

(* An index no smaller than the others is the greatest.                       *)
LEMMA MaxIs ==
  ASSUME NEW n \in Nat, NEW T, T \subseteq 1..n, NEW x \in T, \A y \in T : y <= x
  PROVE  Max(T) = x
  <1>1. Max(T) \in T /\ x <= Max(T)
    BY MaxIn
  <1>2. Max(T) <= x
    BY <1>1
  <1>3. \A p, q \in 1..n : p <= q /\ q <= p => p = q
    OBVIOUS
  <1>4. Max(T) \in 1..n /\ x \in 1..n
    BY <1>1
  <1> QED  BY <1>1, <1>2, <1>3, <1>4

(* The rows a command wrote to stream s.                                      *)
Wrote(s, id) == {i \in DOMAIN s : s[i].cmd = id}

(* An acceptance writes nothing under another command's id.                   *)
LEMMA WroteKept ==
  ASSUME NEW streams, NEW res, NEW after, NEW res2, NEW legs, NEW id, NEW c,
         Growth(streams, res, after, res2, legs, id, c), NEW x, x # id, NEW a \in Account
  PROVE  Wrote(after[a], x) = Wrote(streams[a], x)
  <1>1. ASSUME NEW i \in Wrote(after[a], x) PROVE i \in Wrote(streams[a], x)
    <2>1. i \in DOMAIN after[a] /\ after[a][i].cmd = x
      BY <1>1 DEF Wrote
    <2>2. CASE i \in DOMAIN streams[a] /\ after[a][i] = streams[a][i]
      BY <2>1, <2>2 DEF Wrote
    <2>3. CASE a \in DOMAIN legs /\ \E k \in DOMAIN legs[a] : after[a][i] = legs[a][k]
      BY <2>1, <2>3 DEF Growth, Planned
    <2> QED  BY <2>1, <2>2, <2>3, RowAfter
  <1>2. ASSUME NEW i \in Wrote(streams[a], x) PROVE i \in Wrote(after[a], x)
    BY <1>2, RowBefore DEF Wrote
  <1> QED  BY <1>1, <1>2

(* The last row of an acceptance on its account is its committed version.     *)
LEMMA WroteNew ==
  ASSUME NEW streams, NEW res, NEW after, NEW res2, NEW legs, NEW id, NEW c,
         Growth(streams, res, after, res2, legs, id, c)
  PROVE  /\ Wrote(after[c.account], id) # {}
         /\ Max(Wrote(after[c.account], id)) = Version(streams[c.account]) + Len(legs[c.account])
  <1> DEFINE a == c.account
             T == Wrote(after[a], id)
  <1>1. a \in Account /\ a \in DOMAIN legs /\ Extends(streams[a], after[a], legs[a])
    BY DEF Growth, Planned
  <1>2. PICK n \in Nat, m \in {1, 2} :
          /\ DOMAIN streams[a] = 1..n /\ DOMAIN legs[a] = 1..m /\ Len(legs[a]) = m
          /\ DOMAIN after[a] = 1..(n + m) /\ \A k \in 1..m : after[a][n + k] = legs[a][k]
    BY <1>1 DEF Extends
  <1>3. Version(streams[a]) = n /\ n + m \in Nat /\ m \in 1..m /\ n + m \in 1..(n + m)
    BY <1>2, DenseVersion
  <1>4. n + m \in T
    <2>1. legs[a][m].cmd = id
      BY <1>1, <1>2, <1>3 DEF Growth, Planned
    <2> QED  BY <1>2, <1>3, <2>1 DEF Wrote
  <1>5. T \subseteq 1..(n + m)
    BY <1>2 DEF Wrote
  <1>6. \A y \in T : y <= n + m
    BY <1>3, <1>5
  <1> HIDE DEF T, a
  <1>7. Max(T) = n + m
    BY <1>3, <1>4, <1>5, <1>6, MaxIs
  <1> QED  BY <1>2, <1>3, <1>4, <1>7 DEF T, a

(* The stored results still name the last version written.                    *)
LEMMA MatchesAfter ==
  ASSUME NEW streams, NEW res, NEW after, NEW res2, NEW legs, NEW id, NEW c,
         Growth(streams, res, after, res2, legs, id, c)
  PROVE  Matches(after, res2)
  <1> SUFFICES ASSUME NEW x \in CommandId, Done(res2, x)
               PROVE  /\ res2[x].cmd.account \in Account
                      /\ Wrote(after[res2[x].cmd.account], x) # {}
                      /\ res2[x].committed = Max(Wrote(after[res2[x].cmd.account], x))
    BY DEF Matches, Wrote
  <1>1. CASE x = id
    <2>1. res2[x].cmd = c /\ c.account \in Account
          /\ res2[x].committed = Version(streams[c.account]) + Len(legs[c.account])
      BY <1>1 DEF Growth, Planned
    <2> QED  BY <1>1, <2>1, WroteNew
  <1>2. CASE x # id
    <2>1. res2[x] = res[x] /\ Matches(streams, res)
      BY <1>2 DEF Growth, Consistent
    <2> DEFINE a == res[x].cmd.account
    <2>2. a \in Account /\ Wrote(streams[a], x) # {} /\ res[x].committed = Max(Wrote(streams[a], x))
      BY <2>1 DEF Matches, Done, Wrote
    <2> HIDE DEF a
    <2>3. Wrote(after[a], x) = Wrote(streams[a], x)
      BY <1>2, <2>2, WroteKept
    <2> QED  BY <2>1, <2>2, <2>3 DEF a
  <1> QED  BY <1>1, <1>2

(* The balance of an account moves by its leg.                                *)
LEMMA BalanceAfter ==
  ASSUME NEW streams, NEW res, NEW after, NEW res2, NEW legs, NEW id, NEW c,
         Growth(streams, res, after, res2, legs, id, c), NEW a \in Account
  PROVE  /\ Fold(streams[a]).balance \in Int
         /\ Fold(after[a]).balance = Fold(streams[a]).balance + LegNet(legs)[a]
  <1>1. Fold(streams[a]) \in State
    BY StreamsBounded DEF Growth, Consistent, Bounded
  <1>2. Fold(streams[a]).balance \in Int
    BY <1>1 DEF State
  <1>3. LegNet(legs)[a] \in Int
    BY LegNetType DEF Growth
  <1>4. CASE a \in DOMAIN legs
    <2>1. LegNet(legs)[a] = BalanceDelta(legs[a][1])
      BY <1>4 DEF LegNet
    <2>2. CASE Fold(after[a]) = Apply(Fold(streams[a]), legs[a][1])
      BY <1>2, <2>1, <2>2 DEF Apply
    <2>3. CASE /\ legs[a] = <<legs[a][1], legs[a][2]>>
               /\ Fold(after[a]) = Apply(Apply(Fold(streams[a]), legs[a][1]), legs[a][2])
      <3>1. 2 \in DOMAIN legs[a]
        <4>1. \A x, y : 2 \in DOMAIN <<x, y>>
          OBVIOUS
        <4> QED  BY <2>3, <4>1
      <3>2. legs[a][2].type = "HoldReleased" /\ legs[a][2].amount \in 1..MaxBigint
        BY <1>4, <3>1, SecondRow DEF Growth, Planned, Typed, ValidEvent, ValidAmount
      <3>3. BalanceDelta(legs[a][2]) = 0
        BY <3>2, DeltaOf
      <3>4. Fold(after[a]).balance
              = (Fold(streams[a]).balance + BalanceDelta(legs[a][1])) + BalanceDelta(legs[a][2])
        BY <2>3 DEF Apply
      <3>5. \A m, n \in Int : (m + n) + 0 = m + n
        OBVIOUS
      <3> QED  BY <1>2, <1>3, <2>1, <3>3, <3>4, <3>5
    <2> QED  BY <1>4, <2>2, <2>3, FoldAppended
  <1>5. CASE a \notin DOMAIN legs
    <2>1. after[a] = streams[a] /\ LegNet(legs)[a] = 0
      BY <1>5 DEF Growth, LegNet
    <2> QED  BY <1>2, <2>1
  <1> QED  BY <1>4, <1>5

(* The image of a finite set is finite.                                       *)
LEMMA ImageFinite ==
  ASSUME NEW S, IsFiniteSet(S), NEW f, DOMAIN f = S
  PROVE  IsFiniteSet({f[x] : x \in S})
  <1> DEFINE T == {f[x] : x \in S}
             g == [x \in S |-> f[x]]
  <1>1. g \in [S -> T] /\ \A t \in T : \E x \in S : g[x] = t
    OBVIOUS
  <1>2. g \in Surjection(S, T)
    BY <1>1 DEF Surjection
  <1> QED  BY <1>2, FS_Surjection

(* There are finitely many deposits and withdrawals.                          *)
LEMMA RowsFinite ==
  ASSUME NEW streams, NEW res, Streams(streams, res)
  PROVE  IsFiniteSet(CashRows(streams))
  <1> DEFINE R(a) == {[account |-> a, seq |-> i, event |-> streams[a][i]] : i \in DOMAIN streams[a]}
             F == [a \in Account |-> R(a)]
             T == {F[a] : a \in Account}
  <1>1. ASSUME NEW a \in Account PROVE IsFiniteSet(F[a])
    <2> DEFINE f == [i \in DOMAIN streams[a] |->
                       [account |-> a, seq |-> i, event |-> streams[a][i]]]
    <2>1. IsFiniteSet(DOMAIN streams[a])
      BY DenseVersion DEF Streams, Dense
    <2>2. F[a] = {f[i] : i \in DOMAIN streams[a]}
      OBVIOUS
    <2>3. DOMAIN f = DOMAIN streams[a]
      OBVIOUS
    <2> HIDE DEF f, F
    <2> QED  BY <2>1, <2>2, <2>3, ImageFinite
  <1>2. RowsOf(streams) = UNION T
    BY DEF RowsOf
  <1>3. DOMAIN F = Account
    OBVIOUS
  <1> HIDE DEF F
  <1>4. IsFiniteSet(T)
    BY <1>3, ImageFinite, LedgerAssumption
  <1>5. \A t \in T : IsFiniteSet(t)
    BY <1>1
  <1>6. IsFiniteSet(RowsOf(streams))
    BY <1>2, <1>4, <1>5, FS_UNION
  <1> QED  BY <1>6, FS_Subset DEF CashRows

Row(streams, a, i) == [account |-> a, seq |-> i, event |-> streams[a][i]]

(* A cash row is a deposit or withdrawal of some account.                     *)
LEMMA CashRow ==
  ASSUME NEW streams, NEW x
  PROVE  x \in CashRows(streams) <=>
           \E a \in Account : \E i \in DOMAIN streams[a] :
             x = Row(streams, a, i) /\ streams[a][i].type \in {"Deposited", "Withdrawn"}
  BY DEF CashRows, RowsOf, Row

(* Only a deposit or a withdrawal adds a cash row.                            *)
LEMMA CashRowsAfter ==
  ASSUME NEW streams, NEW res, NEW after, NEW res2, NEW legs, NEW id, NEW c,
         Growth(streams, res, after, res2, legs, id, c)
  PROVE  /\ ~Cash(legs, c) => CashRows(after) = CashRows(streams)
         /\ Cash(legs, c) =>
              LET x == Row(after, c.account, Version(streams[c.account]) + 1)
              IN  /\ CashRows(after) = CashRows(streams) \cup {x} /\ x \notin CashRows(streams)
                  /\ x.event = legs[c.account][1]
  <1> DEFINE a0 == c.account
             i0 == Version(streams[a0]) + 1
             y == Row(after, a0, i0)
  <1>0. \A a, i : Row(after, a, i).event = after[a][i] /\ Row(after, a, i).account = a
                  /\ Row(after, a, i).seq = i
    BY DEF Row
  <1>1. ASSUME NEW x \in CashRows(streams) PROVE x \in CashRows(after)
    <2>1. PICK a \in Account : \E i \in DOMAIN streams[a] :
             x = Row(streams, a, i) /\ streams[a][i].type \in {"Deposited", "Withdrawn"}
      BY <1>1, CashRow
    <2>2. PICK i \in DOMAIN streams[a] :
             x = Row(streams, a, i) /\ streams[a][i].type \in {"Deposited", "Withdrawn"}
      BY <2>1
    <2>3. i \in DOMAIN after[a] /\ after[a][i] = streams[a][i]
      BY <2>2, RowBefore
    <2>4. x = Row(after, a, i)
      BY <2>2, <2>3 DEF Row
    <2> QED  BY <2>2, <2>3, <2>4, CashRow
  <1>2. ASSUME NEW x \in CashRows(after)
        PROVE  x \in CashRows(streams) \/ (Cash(legs, c) /\ x = y)
    <2>1. PICK a \in Account : \E i \in DOMAIN after[a] :
             x = Row(after, a, i) /\ after[a][i].type \in {"Deposited", "Withdrawn"}
      BY <1>2, CashRow
    <2>2. PICK i \in DOMAIN after[a] :
             x = Row(after, a, i) /\ after[a][i].type \in {"Deposited", "Withdrawn"}
      BY <2>1
    <2>3. CASE i \in DOMAIN streams[a] /\ after[a][i] = streams[a][i]
      <3>1. x = Row(streams, a, i)
        BY <2>2, <2>3 DEF Row
      <3> QED  BY <2>2, <2>3, <3>1, CashRow
    <2>4. CASE a \in DOMAIN legs /\ \E k \in DOMAIN legs[a] : after[a][i] = legs[a][k]
                                                             /\ i = Version(streams[a]) + k
      <3>1. PICK k \in DOMAIN legs[a] : after[a][i] = legs[a][k] /\ i = Version(streams[a]) + k
        BY <2>4
      <3>2. k = 1
        BY <2>2, <2>4, <3>1, SecondRow DEF Growth, Planned
      <3>3. ~Capture(streams, legs, c)
        BY <2>2, <2>4, <3>1, <3>2, CaptureRow DEF Growth
      <3>4. Cash(legs, c) /\ a = a0
        BY <2>2, <2>4, <3>1, <3>2, <3>3, PlanRow DEF Growth
      <3> QED  BY <2>2, <3>1, <3>2, <3>4
    <2> QED  BY <2>2, <2>3, <2>4, RowAfter
  <1>3. ASSUME Cash(legs, c)
        PROVE  y \in CashRows(after) /\ y \notin CashRows(streams) /\ y.event = legs[a0][1]
    <2>1. a0 \in Account /\ a0 \in DOMAIN legs
      BY DEF Growth, Planned
    <2>2. 1 \in DOMAIN legs[a0] /\ legs[a0][1].type \in {"Deposited", "Withdrawn"}
      <3>1. \A x : 1 \in DOMAIN <<x>> /\ <<x>>[1] = x
        OBVIOUS
      <3> QED  BY <1>3, <3>1 DEF Cash
    <2>3. i0 \in DOMAIN after[a0] /\ i0 \notin DOMAIN streams[a0] /\ after[a0][i0] = legs[a0][1]
      BY <2>1, <2>2, RowOfLeg
    <2>4. y \in CashRows(after)
      BY <2>1, <2>2, <2>3, CashRow
    <2>5. y \notin CashRows(streams)
      <3> SUFFICES ASSUME y \in CashRows(streams) PROVE FALSE
        OBVIOUS
      <3>1. PICK a \in Account : \E i \in DOMAIN streams[a] : y = Row(streams, a, i)
        BY CashRow
      <3>2. PICK i \in DOMAIN streams[a] : y = Row(streams, a, i)
        BY <3>1
      <3>3. Row(streams, a, i).account = a /\ Row(streams, a, i).seq = i
        BY DEF Row
      <3>4. a = a0 /\ i = i0
        BY <1>0, <3>2, <3>3
      <3> QED  BY <2>3, <3>2, <3>4
    <2> QED  BY <1>0, <2>3, <2>4, <2>5
  <1>4. ~Cash(legs, c) => CashRows(after) = CashRows(streams)
    BY <1>1, <1>2
  <1>5. Cash(legs, c) => CashRows(after) = CashRows(streams) \cup {y}
    BY <1>1, <1>2, <1>3
  <1> QED  BY <1>3, <1>4, <1>5

(* What a cash row does to the balance is an integer.                         *)
LEMMA CashDeltas ==
  ASSUME NEW streams, NEW res, Streams(streams, res), NEW x \in CashRows(streams)
  PROVE  BalanceDelta(x.event) \in Int
  <1>1. PICK a \in Account : \E i \in DOMAIN streams[a] :
           x = Row(streams, a, i) /\ streams[a][i].type \in {"Deposited", "Withdrawn"}
    BY CashRow
  <1>2. PICK i \in DOMAIN streams[a] : x = Row(streams, a, i)
    BY <1>1
  <1>3. x.event = streams[a][i]
    BY <1>2 DEF Row
  <1>4. streams[a][i].type \in EventType /\ streams[a][i].amount \in 1..MaxBigint
    BY DEF Streams, Typed, ValidEvent, ValidAmount
  <1> QED  BY <1>3, <1>4, Deltas

(* The balances still add up to what came in less what went out.              *)
LEMMA MoneyAfter ==
  ASSUME NEW streams, NEW res, NEW after, NEW res2, NEW legs, NEW id, NEW c,
         Growth(streams, res, after, res2, legs, id, c)
  PROVE  MoneyAddsUp(after)
  <1> DEFINE R == CashRows(streams)
             R2 == CashRows(after)
             f == RowDeltas(R)
             f2 == RowDeltas(R2)
             old == Balances(streams)
             new == Balances(after)
             net == LegNet(legs)
  <1>0. IsFiniteSet(Account) /\ Consistent(streams, res) /\ Streams(streams, res)
    BY LedgerAssumption DEF Growth, Consistent
  <1>1. \A a \in Account : old[a] \in Int /\ net[a] \in Int /\ new[a] = old[a] + net[a]
    <2>1. \A a \in Account : net[a] \in Int
      BY LegNetType DEF Growth
    <2> QED  BY <2>1, BalanceAfter DEF Balances
  <1>2. IsFiniteSet(R) /\ \A x \in R : f[x] \in Int
    BY <1>0, RowsFinite, CashDeltas DEF RowDeltas
  <1>3. SumFunctionOnSet(old, Account) = SumFunctionOnSet(f, R)
    BY <1>0 DEF Consistent, MoneyAddsUp
  <1> HIDE DEF old, new, net
  <1>4. SumFunctionOnSet(new, Account)
          = SumFunctionOnSet(old, Account) + SumFunctionOnSet(net, Account)
    BY <1>0, <1>1, SumPlus
  <1>5. SumFunctionOnSet(f, R) \in Int
    BY <1>2, SumInt
  <1>6. CASE ~Cash(legs, c)
    <2>1. SumFunctionOnSet(net, Account) = 0
      BY <1>6, LegNetCancels DEF Growth, net
    <2>2. R2 = R /\ f2 = f
      BY <1>6, CashRowsAfter
    <2>3. SumFunctionOnSet(new, Account) = SumFunctionOnSet(f, R)
      BY <1>3, <1>4, <1>5, <2>1
    <2> QED  BY <2>2, <2>3 DEF MoneyAddsUp, new
  <1>7. CASE Cash(legs, c)
    <2> DEFINE a == c.account
               e == legs[a][1]
               y == Row(after, a, Version(streams[a]) + 1)
               zero == [x \in Account |-> 0]
    <2>1. R2 = R \cup {y} /\ y \notin R /\ y.event = e
      BY <1>7, CashRowsAfter
    <2>2. a \in Account /\ DOMAIN legs = {a}
      BY <1>7 DEF Growth, Planned, Cash
    <2>3. \A x \in Account : zero[x] \in Int /\ zero[x] = 0
      OBVIOUS
    <2>4. net[a] = BalanceDelta(e) /\ \A x \in Account : x # a => net[x] = zero[x]
      BY <2>2 DEF net, LegNet
    <2>5. \A x \in R : f2[x] = f[x]
      BY <2>1 DEF RowDeltas
    <2>6. f2[y] = BalanceDelta(e)
      BY <2>1 DEF RowDeltas
    <2> HIDE DEF R, R2, f, f2, y, zero, a, e
    <2>7. BalanceDelta(e) \in Int
      BY <1>1, <2>2, <2>4
    <2>8. SumFunctionOnSet(zero, Account) = 0
      BY <1>0, <2>3, SumZero
    <2>9. SumFunctionOnSet(net, Account) = SumFunctionOnSet(zero, Account) + (net[a] - zero[a])
      <3>1. \A x \in Account : zero[x] \in Int /\ net[x] \in Int
        BY <1>1, <2>3
      <3>2. \A x \in Account : x # a => net[x] = zero[x]
        BY <2>4
      <3>3. IsFiniteSet(Account) /\ a \in Account
        BY <1>0, <2>2
      <3> QED  BY <3>1, <3>2, <3>3, SumChange
    <2>10. SumFunctionOnSet(net, Account) = BalanceDelta(e)
      BY <2>2, <2>3, <2>4, <2>7, <2>8, <2>9
    <2>11. SumFunctionOnSet(f2, R2) = f2[y] + SumFunctionOnSet(f2, R)
      <3>1. \A x \in R : f2[x] \in Int
        BY <1>2, <2>5
      <3> QED  BY <1>2, <2>1, <2>6, <2>7, <3>1, SumWith
    <2>12. SumFunctionOnSet(f, R) = SumFunctionOnSet(f2, R)
      BY <1>2, <2>5, SumSame
    <2>13. SumFunctionOnSet(new, Account) = SumFunctionOnSet(f2, R2)
      BY <1>3, <1>4, <1>5, <2>6, <2>7, <2>10, <2>11, <2>12
    <2> QED  BY <2>13 DEF MoneyAddsUp, new, f2, R2
  <1> QED  BY <1>6, <1>7

-----------------------------------------------------------------------------
(* The open holds after an append *)

HoldRow(e, h) == e.group = h /\ e.type \in {"HoldPlaced", "HoldReleased", "HoldPosted"}

(* Rows of other holds leave a hold as it is.                                 *)
LEMMA OpenHoldSame ==
  ASSUME NEW s, NEW u, NEW rows, Extends(s, u, rows), NEW h,
         \A k \in DOMAIN rows : ~HoldRow(rows[k], h)
  PROVE  OpenHold(u, h) = OpenHold(s, h)
  <1>1. \A i \in HoldEvents(s, h) : i \in HoldEvents(u, h)
    BY OldRow DEF HoldEvents
  <1>2. \A i \in HoldEvents(u, h) : i \in HoldEvents(s, h)
    <2> TAKE i \in HoldEvents(u, h)
    <2>1. i \in DOMAIN u /\ HoldRow(u[i], h)
      BY DEF HoldEvents, HoldRow
    <2>2. i \in DOMAIN s
      BY <2>1, NewRow
    <2>3. u[i] = s[i]
      BY <2>2, OldRow
    <2> QED  BY <2>1, <2>2, <2>3 DEF HoldEvents, HoldRow
  <1>3. HoldEvents(u, h) = HoldEvents(s, h)
    BY <1>1, <1>2
  <1>4. \A i \in HoldEvents(s, h) : u[i] = s[i]
    BY OldRow DEF HoldEvents
  <1> DEFINE R == HoldEvents(s, h)
             P(w) == {i \in R : w[i].type = "HoldPlaced"}
  <1>5. P(u) = P(s)
    BY <1>4
  <1>6. (\E i \in R : ClosesHold(u[i])) <=> \E i \in R : ClosesHold(s[i])
    BY <1>4
  <1>7. \A w \in {s, u} : OpenHold(w, h) =
          IF P(w) = {} \/ \E i \in R : ClosesHold(w[i]) THEN NoHold
          ELSE [amount |-> w[Max(P(w))].amount, counterparty |-> w[Max(P(w))].counterparty,
                expires |-> w[Max(P(w))].expires]
    <2>1. OpenHold(u, h) =
          IF P(u) = {} \/ \E i \in R : ClosesHold(u[i]) THEN NoHold
          ELSE [amount |-> u[Max(P(u))].amount, counterparty |-> u[Max(P(u))].counterparty,
                expires |-> u[Max(P(u))].expires]
      BY <1>3, Zenon DEF OpenHold
    <2>2. OpenHold(s, h) =
          IF P(s) = {} \/ \E i \in R : ClosesHold(s[i]) THEN NoHold
          ELSE [amount |-> s[Max(P(s))].amount, counterparty |-> s[Max(P(s))].counterparty,
                expires |-> s[Max(P(s))].expires]
      BY Zenon DEF OpenHold
    <2> HIDE DEF R, P
    <2> QED  BY <2>1, <2>2
  <1>8. P(s) # {} => u[Max(P(s))] = s[Max(P(s))]
    <2>1. PICK n \in Nat : DOMAIN s = 1..n
      BY DEF Extends
    <2>2. P(s) \subseteq 1..n /\ P(s) \subseteq R
      BY <2>1 DEF HoldEvents
    <2>3. P(s) # {} => Max(P(s)) \in P(s)
      BY <2>2, MaxIn
    <2> HIDE DEF P
    <2> QED  BY <1>4, <2>2, <2>3
  <1> HIDE DEF R, P
  <1> QED  BY <1>5, <1>6, <1>7, <1>8

(* A closed hold is not open.                                                 *)
LEMMA OpenHoldClosed ==
  ASSUME NEW u, NEW h, NEW i \in DOMAIN u, u[i].group = h, ClosesHold(u[i])
  PROVE  OpenHold(u, h) = NoHold
  <1>1. i \in HoldEvents(u, h)
    BY DEF HoldEvents, ClosesHold
  <1> QED  BY <1>1, Zenon DEF OpenHold

(* Nor is one without rows.                                                   *)
LEMMA OpenHoldNone ==
  ASSUME NEW u, NEW h, \A i \in DOMAIN u : u[i].group # h
  PROVE  OpenHold(u, h) = NoHold
  <1>1. {i \in HoldEvents(u, h) : u[i].type = "HoldPlaced"} = {}
    BY DEF HoldEvents
  <1> QED  BY <1>1, Zenon DEF OpenHold

(* A hold placed under a new id is open with its amount.                      *)
LEMMA OpenHoldNew ==
  ASSUME NEW s, NEW u, NEW e, Extends(s, u, <<e>>), NEW h, e.type = "HoldPlaced", e.group = h,
         \A i \in DOMAIN s : s[i].group # h
  PROVE  OpenHold(u, h).amount = e.amount
  <1> DEFINE n == Version(s)
             R == HoldEvents(u, h)
             P == {i \in R : u[i].type = "HoldPlaced"}
  <1>0. 1 \in DOMAIN <<e>> /\ <<e>>[1] = e /\ DOMAIN <<e>> = {1}
    OBVIOUS
  <1>1. n + 1 \in DOMAIN u /\ u[n + 1] = e
    BY <1>0, FirstRow
  <1>2. \A i \in DOMAIN u : u[i].group = h => i = n + 1
    <2> TAKE i \in DOMAIN u
    <2>1. CASE i \in DOMAIN s
      BY <2>1, OldRow
    <2>2. CASE i \notin DOMAIN s
      BY <1>0, <2>2, NewRow
    <2> QED  BY <2>1, <2>2
  <1>3. R = {n + 1} /\ P = {n + 1}
    BY <1>1, <1>2 DEF HoldEvents
  <1>4. ~ClosesHold(e)
    BY DEF ClosesHold
  <1>5. PICK m \in Nat : DOMAIN u = 1..m
    <2>1. PICK k \in Nat, l \in {1, 2} : DOMAIN u = 1..(k + l)
      BY DEF Extends
    <2>2. k + l \in Nat
      OBVIOUS
    <2> QED  BY <2>1, <2>2
  <1>6. Max(P) = n + 1
    BY <1>1, <1>3, <1>5, MaxIn
  <1>7. OpenHold(u, h) = IF P = {} \/ \E i \in R : ClosesHold(u[i]) THEN NoHold
                         ELSE [amount |-> u[Max(P)].amount, counterparty |-> u[Max(P)].counterparty,
                               expires |-> u[Max(P)].expires]
    BY Zenon DEF OpenHold
  <1> HIDE DEF R, P
  <1> QED  BY <1>1, <1>3, <1>4, <1>6, <1>7

(* What a hold reserves is an integer.                                        *)
LEMMA HoldAmountsType ==
  ASSUME NEW streams, NEW res, Streams(streams, res), NEW a \in Account
  PROVE  \A h \in CommandId : HoldAmounts(streams[a])[h] \in Int
  <1> SUFFICES ASSUME NEW h \in CommandId PROVE OpenHold(streams[a], h).amount \in Int
    BY DEF HoldAmounts
  <1>1. CASE OpenHold(streams[a], h) = NoHold
    BY <1>1 DEF NoHold
  <1>2. CASE OpenHold(streams[a], h) # NoHold
    <2>1. OpenHold(streams[a], h).amount \in 1..MaxBigint
      BY <1>2, OpenHoldType DEF Streams
    <2> QED  BY <2>1
  <1> QED  BY <1>1, <1>2

(* One hold of the account changes, by as much as the account's held.         *)
LEMMA OneHoldChanges ==
  ASSUME NEW f, NEW g, \A h \in CommandId : f[h] \in Int /\ g[h] \in Int,
         NEW h0 \in CommandId, \A h \in CommandId : h # h0 => g[h] = f[h],
         NEW m, m = SumFunctionOnSet(f, CommandId), NEW n, n = m + (g[h0] - f[h0])
  PROVE  n = SumFunctionOnSet(g, CommandId)
  <1>1. IsFiniteSet(CommandId)
    BY LedgerAssumption
  <1>2. SumFunctionOnSet(g, CommandId) = SumFunctionOnSet(f, CommandId) + (g[h0] - f[h0])
    BY <1>1, SumChange
  <1> QED  BY <1>2

(* What the rows of a closing do to the hold they close.                      *)
LEMMA ClosingRows ==
  ASSUME NEW streams, NEW res, NEW after, NEW res2, NEW legs, NEW id, NEW c,
         Growth(streams, res, after, res2, legs, id, c), NEW a, a = c.account,
         Release(streams, legs, c) \/ Capture(streams, legs, c)
  PROVE  /\ c.hold \in CommandId /\ OpenHold(streams[a], c.hold) # NoHold
         /\ 1 \in DOMAIN legs[a] /\ ClosesHold(legs[a][1])
         /\ \A k \in DOMAIN legs[a] : legs[a][k].group = c.hold
         /\ Fold(after[a]).held = Fold(streams[a]).held - OpenHold(streams[a], c.hold).amount
  <1> DEFINE H == OpenHold(streams[a], c.hold).amount
             e == legs[a][1]
  <1>0. /\ a \in Account /\ a \in DOMAIN legs /\ Consistent(streams, res) /\ Shape(legs[a])
        /\ Planned(legs, id, c)
    BY DEF Growth, Planned
  <1>1. 1 \in DOMAIN legs[a]
    BY <1>0, HasFirst
  <1>2. \A k \in DOMAIN legs[a] : Typed(a, legs[a][k]) /\ legs[a][k].amount \in Int
    <2> TAKE k \in DOMAIN legs[a]
    <2>1. Typed(a, legs[a][k])
      BY <1>0 DEF Planned
    <2>2. legs[a][k].amount \in 1..MaxBigint
      BY <2>1 DEF Typed, ValidEvent, ValidAmount
    <2> QED  BY <2>1, <2>2
  <1>3. Fold(streams[a]) \in State /\ Fold(streams[a]).held \in Int
    <2>1. Fold(streams[a]) \in State
      BY <1>0, FoldAppended
    <2> QED  BY <2>1 DEF State
  <1>4. OpenHold(streams[a], c.hold) # NoHold
    BY DEF Release, Capture
  <1>5. H \in Int
    <2>1. H \in 1..MaxBigint
      BY <1>0, <1>4, OpenHoldType DEF Consistent, Streams
    <2> QED  BY <2>1
  <1>6. ASSUME legs[a] = <<e>>
        PROVE  Fold(after[a]).held = Fold(streams[a]).held + HeldDelta(e)
    <2>1. \A x, y : <<x>> # <<x, y>>
      OBVIOUS
    <2>2. Fold(after[a]) = Apply(Fold(streams[a]), e)
      BY <1>0, <1>6, <2>1, FoldAppended
    <2> QED  BY <2>2 DEF Apply
  <1>7. CASE Release(streams, legs, c)
    <2>1. /\ legs[a] = <<e>> /\ e.type = "HoldReleased" /\ e.group = c.hold /\ e.reason # "partial"
          /\ e.amount = H
      <3>1. \A x : <<x>>[1] = x
        OBVIOUS
      <3> QED  BY <1>7, <3>1 DEF Release
    <2>2. HeldDelta(e) = -H
      BY <1>5, <2>1, DeltaOf
    <2>3. c.hold \in CommandId
      BY <1>1, <1>2, <2>1 DEF Typed, ValidEvent, ValidHoldEvent
    <2>4. \A k \in DOMAIN legs[a] : legs[a][k].group = c.hold
      <3>1. \A x : DOMAIN <<x>> = {1}
        OBVIOUS
      <3> QED  BY <2>1, <3>1
    <2>5. Fold(after[a]).held = Fold(streams[a]).held - H
      BY <1>3, <1>5, <1>6, <2>1, <2>2
    <2> QED  BY <1>1, <1>4, <2>1, <2>3, <2>4, <2>5 DEF ClosesHold
  <1>8. CASE Capture(streams, legs, c)
    <2>1. /\ \A k \in DOMAIN legs[a] : legs[a][k].group = c.hold
          /\ c.hold \in CommandId /\ e.type = "HoldPosted"
      BY <1>0, <1>1, <1>8, CaptureRow
    <2>2. \/ legs[a] = <<e>> /\ e.amount = H
          \/ \E f : legs[a] = <<e, f>> /\ f.amount = H - e.amount
      <3>1. \A x, y : <<x>>[1] = x /\ <<x, y>>[1] = x
        OBVIOUS
      <3> QED  BY <1>8, <3>1 DEF Capture
    <2>3. HeldDelta(e) = -e.amount /\ e.amount \in Int
      BY <1>1, <1>2, <2>1, DeltaOf
    <2>4. CASE legs[a] = <<e>> /\ e.amount = H
      <3>1. Fold(after[a]).held = Fold(streams[a]).held - H
        BY <1>3, <1>5, <1>6, <2>3, <2>4
      <3> QED  BY <1>1, <1>4, <2>1, <3>1 DEF ClosesHold
    <2>5. CASE \E f : legs[a] = <<e, f>> /\ f.amount = H - e.amount
      <3>1. PICK f : legs[a] = <<e, f>> /\ f.amount = H - e.amount
        BY <2>5
      <3>2. f = legs[a][2] /\ 2 \in DOMAIN legs[a]
        BY <3>1
      <3>3. f.type = "HoldReleased" /\ f.amount \in Int
        BY <1>0, <1>2, <3>2, SecondRow
      <3>4. HeldDelta(f) = -f.amount
        BY <3>3, DeltaOf
      <3>5. Fold(after[a]) = Apply(Apply(Fold(streams[a]), e), f)
        <4>1. \A x, y, z : <<x>> # <<y, z>>
          OBVIOUS
        <4> QED  BY <1>0, <3>1, <3>2, <4>1, FoldAppended
      <3>6. Fold(after[a]).held = (Fold(streams[a]).held + HeldDelta(e)) + HeldDelta(f)
        BY <3>5 DEF Apply
      <3>7. Fold(after[a]).held = Fold(streams[a]).held - H
        BY <1>3, <1>5, <2>3, <3>1, <3>3, <3>4, <3>6
      <3> QED  BY <1>1, <1>4, <2>1, <3>7 DEF ClosesHold
    <2> QED  BY <2>2, <2>4, <2>5
  <1> QED  BY <1>7, <1>8

(* The open holds of every account still add up to its held.                  *)
LEMMA HoldsAfter ==
  ASSUME NEW streams, NEW res, NEW after, NEW res2, NEW legs, NEW id, NEW c,
         Growth(streams, res, after, res2, legs, id, c)
  PROVE  HoldsAddUp(after)
  <1> SUFFICES ASSUME NEW a \in Account
               PROVE  Fold(after[a]).held = SumFunctionOnSet(HoldAmounts(after[a]), CommandId)
    BY DEF HoldsAddUp
  <1> DEFINE f == HoldAmounts(streams[a])
             g == HoldAmounts(after[a])
             m == Fold(streams[a]).held
             n == Fold(after[a]).held
             e == legs[a][1]
  <1>0. /\ Consistent(streams, res) /\ Streams(streams, res) /\ id \in CommandId /\ ~Done(res, id)
        /\ Planned(legs, id, c) /\ Plan(streams, legs, id, c)
    BY DEF Growth, Consistent
  <1>1. \A h \in CommandId : f[h] \in Int /\ g[h] \in Int
    BY <1>0, StreamsAfter, HoldAmountsType
  <1>2. m = SumFunctionOnSet(f, CommandId)
    BY <1>0 DEF Consistent, HoldsAddUp
  <1>3. \A h \in CommandId : /\ f[h] = OpenHold(streams[a], h).amount
                             /\ g[h] = OpenHold(after[a], h).amount
    BY DEF HoldAmounts
  <1>4. CASE a \notin DOMAIN legs
    <2>1. after[a] = streams[a]
      BY <1>4 DEF Growth
    <2> QED  BY <1>2, <2>1
  <1>5. ASSUME a \in DOMAIN legs
        PROVE  /\ Extends(streams[a], after[a], legs[a]) /\ 1 \in DOMAIN legs[a] /\ Typed(a, e)
               /\ e.amount \in Int /\ m \in Int /\ Fold(streams[a]) \in State
    <2>1. Extends(streams[a], after[a], legs[a])
      BY <1>5 DEF Growth
    <2>2. 1 \in DOMAIN legs[a]
      BY <1>0, <1>5, HasFirst DEF Planned
    <2>3. Typed(a, e)
      BY <1>0, <1>5, <2>2 DEF Planned
    <2>4. e.amount \in 1..MaxBigint
      BY <2>3 DEF Typed, ValidEvent, ValidAmount
    <2>5. Fold(streams[a]) \in State
      BY <1>5, FoldAppended
    <2> QED  BY <2>1, <2>2, <2>3, <2>4, <2>5 DEF State
  <1>6. ASSUME a \in DOMAIN legs, legs[a] = <<e>>
        PROVE  n = m + HeldDelta(e)
    <2>1. \A x, y, z : <<x>> # <<y, z>>
      OBVIOUS
    <2>2. Fold(after[a]) = Apply(Fold(streams[a]), e)
      BY <1>6, <2>1, FoldAppended
    <2> QED  BY <2>2 DEF Apply
  <1> HIDE DEF f, g, n, m
  <1>7. CASE /\ a \in DOMAIN legs /\ legs[a] = <<e>>
             /\ e.type \notin {"HoldPlaced", "HoldReleased", "HoldPosted"}
    <2>1. HeldDelta(e) = 0 /\ m \in Int
      <3>1. e.type \in {"Deposited", "TransferCredited", "ReversalCredited",
                        "Withdrawn", "TransferDebited", "ReversalDebited"}
        BY <1>5, <1>7 DEF Typed, ValidEvent, EventType
      <3> QED  BY <1>5, <1>7, <3>1, DeltaOf
    <2>2. \A k \in DOMAIN legs[a] : k = 1
      <3>1. \A x : DOMAIN <<x>> = {1}
        OBVIOUS
      <3> QED  BY <1>7, <3>1
    <2>3. \A h \in CommandId : OpenHold(after[a], h) = OpenHold(streams[a], h)
      <3> TAKE h \in CommandId
      <3>1. \A k \in DOMAIN legs[a] : ~HoldRow(legs[a][k], h)
        BY <1>7, <2>2 DEF HoldRow
      <3> QED  BY <1>5, <1>7, <3>1, OpenHoldSame
    <2>4. \A h \in CommandId : f[h] = g[h]
      BY <1>3, <2>3
    <2>5. SumFunctionOnSet(f, CommandId) = SumFunctionOnSet(g, CommandId)
      BY <1>1, <2>4, SumSame, LedgerAssumption
    <2>6. n = m
      BY <1>6, <1>7, <2>1
    <2> QED  BY <1>2, <2>5, <2>6 DEF n, g
  <1>8. CASE /\ a \in DOMAIN legs /\ legs[a] = <<e>> /\ e.type = "HoldPlaced" /\ e.group = id
    <2>1. HeldDelta(e) = e.amount /\ e.amount \in Int /\ m \in Int
      BY <1>5, <1>8, DeltaOf
    <2>2. \A i \in DOMAIN streams[a] : streams[a][i].group # id
      BY <1>0, FreshId
    <2>3. f[id] = 0
      BY <1>0, <1>3, <2>2, OpenHoldNone DEF NoHold
    <2>4. g[id] = e.amount
      <3>1. Extends(streams[a], after[a], <<e>>)
        BY <1>5, <1>8
      <3>2. OpenHold(after[a], id).amount = e.amount
        BY <1>8, <2>2, <3>1, OpenHoldNew
      <3> QED  BY <1>0, <1>3, <3>2
    <2>5. \A h \in CommandId : h # id => g[h] = f[h]
      <3> SUFFICES ASSUME NEW h \in CommandId, h # id PROVE g[h] = f[h]
        OBVIOUS
      <3>1. \A k \in DOMAIN legs[a] : legs[a][k] = e
        <4>1. \A x : DOMAIN <<x>> = {1}
          OBVIOUS
        <4> QED  BY <1>8, <4>1
      <3>2. \A k \in DOMAIN legs[a] : ~HoldRow(legs[a][k], h)
        BY <1>8, <3>1 DEF HoldRow
      <3>3. OpenHold(after[a], h) = OpenHold(streams[a], h)
        BY <1>5, <1>8, <3>2, OpenHoldSame
      <3> QED  BY <1>3, <3>3
    <2>6. n = m + (g[id] - f[id])
      BY <1>6, <1>8, <2>1, <2>3, <2>4
    <2> QED  BY <1>0, <1>1, <1>2, <2>5, <2>6, OneHoldChanges DEF n, g
  <1>9. CASE /\ a = c.account /\ (Release(streams, legs, c) \/ Capture(streams, legs, c))
    <2> DEFINE h0 == c.hold
    <2>0. a \in DOMAIN legs
      BY <1>0, <1>9 DEF Planned
    <2>1. /\ h0 \in CommandId /\ OpenHold(streams[a], h0) # NoHold
          /\ 1 \in DOMAIN legs[a] /\ ClosesHold(e)
          /\ \A k \in DOMAIN legs[a] : legs[a][k].group = h0
          /\ n = m - OpenHold(streams[a], h0).amount
      BY <1>9, ClosingRows DEF n, m
    <2>2. g[h0] = 0
      <3>1. Version(streams[a]) + 1 \in DOMAIN after[a] /\ after[a][Version(streams[a]) + 1] = e
        BY <2>0, <2>1, RowOfLeg
      <3>2. OpenHold(after[a], h0) = NoHold
        BY <2>1, <3>1, OpenHoldClosed
      <3> QED  BY <1>3, <2>1, <3>2 DEF NoHold
    <2>3. \A h \in CommandId : h # h0 => g[h] = f[h]
      <3> SUFFICES ASSUME NEW h \in CommandId, h # h0 PROVE g[h] = f[h]
        OBVIOUS
      <3>1. \A k \in DOMAIN legs[a] : ~HoldRow(legs[a][k], h)
        BY <2>1 DEF HoldRow
      <3>2. OpenHold(after[a], h) = OpenHold(streams[a], h)
        BY <1>5, <2>0, <3>1, OpenHoldSame
      <3> QED  BY <1>3, <3>2
    <2>4. n = m + (g[h0] - f[h0])
      <3>1. f[h0] = OpenHold(streams[a], h0).amount /\ f[h0] \in Int /\ m \in Int
        BY <1>1, <1>3, <1>5, <2>0, <2>1
      <3> HIDE DEF h0
      <3> QED  BY <2>1, <2>2, <3>1
    <2> QED  BY <1>1, <1>2, <2>1, <2>3, <2>4, OneHoldChanges DEF n, g
  <1>10. CASE a \in DOMAIN legs /\ Capture(streams, legs, c) /\ a # c.account
    <2>1. legs[a] = <<e>> /\ e.type = "TransferCredited"
      <3>1. \A x : <<x>>[1] = x
        OBVIOUS
      <3>2. e.type = "TransferCredited"
        BY <1>0, <1>5, <1>10, CaptureRow
      <3>3. legs[a] = <<e>>
        BY <1>10, <3>1 DEF Capture
      <3> QED  BY <3>2, <3>3
    <2> QED  BY <1>7, <1>10, <2>1
  <1>11. CASE a \in DOMAIN legs /\ ~Capture(streams, legs, c)
    <2>1. /\ legs[a] = <<e>>
          /\ \/ e.type \in {"Deposited", "Withdrawn", "TransferDebited", "TransferCredited",
                            "ReversalDebited", "ReversalCredited"}
             \/ e.type = "HoldPlaced" /\ e.group = id
             \/ Release(streams, legs, c) /\ a = c.account
      BY <1>0, <1>5, <1>11, PlanRow
    <2> QED  BY <1>7, <1>8, <1>9, <1>11, <2>1
  <1> QED  BY <1>4, <1>9, <1>10, <1>11

(* So an acceptance keeps everything consistent.                              *)
LEMMA GrowthConsistent ==
  ASSUME NEW streams, NEW res, NEW after, NEW res2, NEW legs, NEW id, NEW c,
         Growth(streams, res, after, res2, legs, id, c)
  PROVE  Consistent(after, res2)
  BY StreamsAfter, OneMoveAfter, CancelsAfter, OnePlacementAfter, CapturedAfter, MirroredAfter,
     OneReversalAfter, HoldsAfter, MoneyAfter, MatchesAfter
  DEF Consistent

-----------------------------------------------------------------------------
(* The inductive invariant *)

(* An acceptance preserves the invariant.                                     *)
LEMMA AcceptOK ==
  ASSUME IInv, NEW r \in Requests, NEW t \in Nat, Accept(r, t)
  PROVE  IInv'
  <1> DEFINE c == r.cmd
             id == r.id
             d == Decision(r, t)
             legs == d.legs
  <1>1. /\ results[id] = NoResult /\ Version(log[c.account]) = c.expected
        /\ d.outcome = "accepted" /\ AppendAll(r, d)
    BY DEF Accept, VersionMatches
  <1>2. id \in CommandId /\ ~Done(results, id) /\ Consistent(log, results) /\ now \in Nat
    BY <1>1, LedgerAssumption DEF Done, NoResult, IInv
  <1>3. Planned(legs, id, c) /\ Plan(log, legs, id, c)
    <2>1. Good(d, States, log, id, c)
      BY <1>2, DecisionGood
    <2> HIDE DEF d
    <2> QED  BY <1>1, <2>1 DEF Good
  <1>4. /\ \A a \in DOMAIN legs : ~AppendRaises(States[a], legs[a])
        /\ log' = [a \in Account |->
                     IF a \in DOMAIN legs THEN InsertRows(log[a], Version(log[a]), legs[a]) ELSE log[a]]
        /\ results' = [results EXCEPT ![id] =
                         Result(r, "accepted", c.expected, c.expected + Len(legs[c.account]))]
        /\ now' = now
    <2> HIDE DEF d
    <2> QED  BY <1>1, Zenon DEF AppendAll, Persist
  <1>5. DOMAIN results = CommandId /\ \A a \in Account : Dense(log[a])
    BY <1>2 DEF Consistent, Streams
  <1> HIDE DEF d, legs
  <1>6. ASSUME NEW a \in DOMAIN legs
        PROVE  Extends(log[a], log'[a], legs[a]) /\ ~AppendRaises(Fold(log[a]), legs[a])
    <2>1. a \in Account /\ Shape(legs[a])
      BY <1>3 DEF Planned
    <2>2. log'[a] = InsertRows(log[a], Version(log[a]), legs[a]) /\ States[a] = Fold(log[a])
      BY <1>4, <2>1 DEF States
    <2> QED  BY <1>4, <1>5, <2>1, <2>2, Inserted
  <1>7. /\ DOMAIN results' = CommandId /\ \A x \in CommandId \ {id} : results'[x] = results[x]
        /\ results'[id] = Result(r, "accepted", c.expected, c.expected + Len(legs[c.account]))
    BY <1>2, <1>4, <1>5
  <1>8. /\ Done(results', id) /\ results'[id].cmd = c
        /\ results'[id].committed = Version(log[c.account]) + Len(legs[c.account])
    BY <1>1, <1>7 DEF Done, Result
  <1>9. DOMAIN log' = Account /\ \A a \in Account \ DOMAIN legs : log'[a] = log[a]
    BY <1>4
  <1>10. Growth(log, results, log', results', legs, id, c)
    BY <1>2, <1>3, <1>6, <1>7, <1>8, <1>9 DEF Growth
  <1>11. Consistent(log', results')
    BY <1>10, GrowthConsistent
  <1> QED  BY <1>2, <1>4, <1>11 DEF IInv

(* A rejection is stored once, and nothing was written under its id.          *)
LEMMA RejectionOK ==
  ASSUME IInv, NEW r \in Requests, results[r.id] = NoResult, NEW x, x.outcome # "accepted",
         Persist(r, x), log' = log, now' = now
  PROVE  IInv'
  <1>1. r.id \in CommandId /\ Consistent(log, results) /\ now \in Nat /\ DOMAIN results = CommandId
    BY LedgerAssumption DEF IInv, Consistent, Streams
  <1>2. /\ DOMAIN results' = CommandId /\ \A y \in CommandId \ {r.id} : results'[y] = results[y]
        /\ results'[r.id] = x
    BY <1>1 DEF Persist
  <1>3. ~Done(results, r.id) /\ ~Done(results', r.id)
    BY <1>2 DEF Done, NoResult
  <1>4. ASSUME NEW e, {e.cmd, e.group} \subseteq CommandId \cup {NoId}, Known(e, results)
        PROVE  Known(e, results')
    BY <1>2, <1>3, <1>4, KnownKept
  <1>5. Streams(log, results')
    <2>1. \A a \in Account : \A i \in DOMAIN log[a] :
            {log[a][i].cmd, log[a][i].group} \subseteq CommandId \cup {NoId}
      BY <1>1 DEF Consistent, Streams, Typed
    <2>2. \A a \in Account : \A i \in DOMAIN log[a] : Known(log[a][i], results')
      BY <1>1, <1>4, <2>1 DEF Consistent, Streams
    <2> QED  BY <1>1, <1>2, <2>2 DEF Consistent, Streams
  <1>6. Matches(log, results')
    <2> SUFFICES ASSUME NEW y \in CommandId, Done(results', y)
                 PROVE  LET a == results'[y].cmd.account
                            own == {i \in DOMAIN log[a] : log[a][i].cmd = y}
                        IN  a \in Account /\ own # {} /\ results'[y].committed = Max(own)
      BY DEF Matches
    <2>1. results'[y] = results[y] /\ Done(results, y)
      BY <1>2, <1>3 DEF Done
    <2> QED  BY <1>1, <2>1 DEF Consistent, Matches
  <1>7. Consistent(log, results')
    BY <1>1, <1>5, <1>6 DEF Consistent
  <1> QED  BY <1>1, <1>7 DEF IInv

(* The initial state: an account is empty, or holds what was deposited before.*)
LEMMA InitStream ==
  ASSUME Init, NEW a \in Account
  PROVE  /\ Genesis[a] = 0 => DOMAIN log[a] = {} /\ Fold(log[a]) = Zero
         /\ Genesis[a] # 0 => /\ DOMAIN log[a] = {1}
                              /\ log[a][1] = Event("Deposited", Genesis[a], NoId)
                              /\ Fold(log[a]).balance = Genesis[a] /\ Fold(log[a]).held = 0
         /\ Dense(log[a]) /\ Sound(log[a])
         /\ \A i \in DOMAIN log[a] : Typed(a, log[a][i]) /\ log[a][i] = Event("Deposited", Genesis[a], NoId)
  <1> DEFINE s == log[a]
             e == Event("Deposited", Genesis[a], NoId)
  <1>1. Genesis[a] \in 0..MaxBigint /\ MaxBigint \in Nat /\ MaxVersion \in Nat \ {0}
    BY LedgerAssumption, DomainAssumption
  <1>2. s = IF Genesis[a] = 0 THEN EmptyStream ELSE <<e>>
    BY DEF Init
  <1>3. /\ e.type = "Deposited" /\ e.amount = Genesis[a] /\ e.cmd = NoId /\ e.group = NoId
        /\ e.reverts = NoId
    BY DEF Event
  <1> HIDE DEF s, e
  <1>4. CASE Genesis[a] = 0
    <2>1. DOMAIN s = {} /\ 1..0 = {}
      BY <1>2, <1>4 DEF EmptyStream
    <2>2. Dense(s) /\ Countable(s) /\ Sound(s)
      <3>1. 0 \in Nat /\ DOMAIN s = 1..0
        BY <2>1
      <3> QED  BY <2>1, <3>1 DEF Dense, Countable, Sound
    <2>3. Fold(s) = Zero
      BY <2>1, <2>2, FoldAfter, AfterNone, ZeroState
    <2> QED  BY <1>4, <2>1, <2>2, <2>3 DEF s
  <1>5. CASE Genesis[a] # 0
    <2>1. DOMAIN s = {1} /\ s[1] = e /\ 1..1 = {1} /\ {1} \ {1} = {}
      BY <1>2, <1>5
    <2>2. Typed(a, e)
      BY <1>1, <1>3, <1>5 DEF Typed, ValidEvent, ValidAmount, EventType
    <2>3. Dense(s)
      <3>1. 1 \in Nat /\ DOMAIN s = 1..1
        BY <2>1
      <3> QED  BY <3>1 DEF Dense
    <2>4. Countable(s)
      BY <2>1, <2>2, TypedCountable
    <2>5. After(Zero, s, {1}) = Apply(Zero, e)
      <3>1. IsFiniteSet({1})
        BY FS_Singleton
      <3>2. After(Zero, s, {1}) = Apply(After(Zero, s, {}), e)
        BY <2>1, <2>4, <3>1, AfterOne, ZeroState
      <3> QED  BY <3>2, AfterNone, ZeroState
    <2>6. Fold(s) = Apply(Zero, e)
      BY <2>1, <2>3, <2>4, <2>5, FoldAfter
    <2>7. BalanceDelta(e) = Genesis[a] /\ HeldDelta(e) = 0
      BY <1>1, <1>3, DeltaOf
    <2>8. Fold(s).balance = Genesis[a] /\ Fold(s).held = 0
      BY <1>1, <2>6, <2>7 DEF Apply, Zero
    <2>9. ~ApplyRaises(Zero, e)
      BY <1>1, <2>7 DEF ApplyRaises, Zero
    <2>10. Sound(s)
      <3>1. 1..(1 - 1) = {}
        OBVIOUS
      <3>2. After(Zero, s, 1..(1 - 1)) = Zero
        BY <3>1, AfterNone, ZeroState
      <3> QED  BY <2>1, <2>9, <3>2 DEF Sound
    <2> QED  BY <1>5, <2>1, <2>2, <2>3, <2>8, <2>10 DEF s, e
  <1> QED  BY <1>4, <1>5

(* Initially the balances are the deposits.                                   *)
LEMMA InitMoney ==
  ASSUME Init
  PROVE  MoneyAddsUp(log)
  <1> DEFINE A == {a \in Account : Genesis[a] # 0}
             b == Balances(log)
             m == [a \in A |-> Row(log, a, 1)]
             R == CashRows(log)
             f == RowDeltas(R)
  <1>0. IsFiniteSet(Account) /\ IsFiniteSet(A) /\ A \subseteq Account
    BY LedgerAssumption, FS_Subset
  <1>1. \A a \in Account : Genesis[a] \in Int /\ b[a] = Genesis[a]
    <2> TAKE a \in Account
    <2>1. Genesis[a] \in 0..MaxBigint
      BY LedgerAssumption
    <2>2. Fold(log[a]).balance = Genesis[a]
      BY InitStream DEF Zero
    <2> QED  BY <2>1, <2>2 DEF Balances
  <1>2. R = {m[a] : a \in A}
    <2>1. ASSUME NEW x \in R PROVE x \in {m[a] : a \in A}
      <3>1. PICK a \in Account : \E i \in DOMAIN log[a] : x = Row(log, a, i)
        BY CashRow
      <3>2. PICK i \in DOMAIN log[a] : x = Row(log, a, i)
        BY <3>1
      <3>3. a \in A /\ i = 1
        BY <3>2, InitStream
      <3> QED  BY <3>2, <3>3
    <2>2. ASSUME NEW a \in A PROVE m[a] \in R
      <3>1. 1 \in DOMAIN log[a] /\ log[a][1] = Event("Deposited", Genesis[a], NoId)
        BY InitStream
      <3>2. log[a][1].type = "Deposited"
        BY <3>1 DEF Event
      <3> QED  BY <3>1, <3>2, CashRow
    <2> QED  BY <2>1, <2>2
  <1>3. ASSUME NEW a \in A PROVE f[m[a]] = b[a] /\ b[a] \in Int
    <2>1. m[a] \in R /\ m[a] = Row(log, a, 1)
      BY <1>2
    <2>2. m[a].event = Event("Deposited", Genesis[a], NoId)
      BY <2>1, InitStream DEF Row
    <2>3. f[m[a]] = BalanceDelta(m[a].event)
      BY <2>1 DEF RowDeltas
    <2>4. /\ Event("Deposited", Genesis[a], NoId).type = "Deposited"
          /\ Event("Deposited", Genesis[a], NoId).amount = Genesis[a]
      BY DEF Event
    <2>5. f[m[a]] = Genesis[a]
      BY <1>1, <2>2, <2>3, <2>4, DeltaOf
    <2> QED  BY <1>1, <2>5
  <1>4. \A x, y \in A : m[x] = m[y] => x = y
    <2>1. \A x : Row(log, x, 1).account = x
      BY DEF Row
    <2> QED  BY <2>1
  <1> HIDE DEF m, f, b, A, R
  <1>5. SumFunctionOnSet(b, Account) = SumFunctionOnSet(b, A)
    <2>1. \A x \in Account : b[x] \in Int
      BY <1>1
    <2>2. \A x \in Account \ A : b[x] = 0
      BY <1>1 DEF A
    <2> QED  BY <1>0, <2>1, <2>2, SumSupport
  <1>6. SumFunctionOnSet(f, {m[a] : a \in A}) = SumFunctionOnSet(b, A)
    <2>1. \A x \in A : f[m[x]] \in Int /\ b[x] = f[m[x]]
      BY <1>3
    <2> QED  BY <1>0, <1>4, <2>1, SumRenamed
  <1> QED  BY <1>2, <1>5, <1>6 DEF MoneyAddsUp, b, f, R

(* The invariant holds initially.                                             *)
LEMMA InitOK ==
  ASSUME Init
  PROVE  IInv
  <1> DEFINE e(a) == Event("Deposited", Genesis[a], NoId)
  <1>0. /\ DOMAIN log = Account /\ DOMAIN results = CommandId /\ now = 0
        /\ \A id \in CommandId : results[id] = NoResult
    BY DEF Init
  <1>1. \A id \in CommandId : ~Done(results, id)
    BY <1>0 DEF Done, NoResult
  <1>2. \A a \in Account : \A i \in DOMAIN log[a] :
          /\ log[a][i].type = "Deposited" /\ log[a][i].cmd = NoId /\ log[a][i].group = NoId
          /\ log[a][i].reverts = NoId
    <2>1. \A n : LET x == Event("Deposited", n, NoId)
                 IN  x.type = "Deposited" /\ x.cmd = NoId /\ x.group = NoId /\ x.reverts = NoId
      BY DEF Event
    <2>2. \A a \in Account : \A i \in DOMAIN log[a] : log[a][i] = Event("Deposited", Genesis[a], NoId)
      BY InitStream
    <2> QED  BY <2>1, <2>2
  <1>3. Streams(log, results)
    BY <1>0, <1>2, InitStream DEF Streams, Known
  <1>4. \A a \in Account : \A g : Moves(log[a], g) = {} /\ Placed(log[a], g) = {}
    BY <1>2 DEF Moves, Placed, MovementTypes
  <1>5. OneMove(log) /\ OnePlacement(log) /\ Captured(log)
    BY <1>4 DEF OneMove, OnePlacement, Captured
  <1>6. Mirrored(log) /\ OneReversal(log)
    BY <1>2 DEF Mirrored, OneReversal
  <1>7. Cancels(log)
    <2> SUFFICES ASSUME NEW g \in CommandId PROVE SumFunctionOnSet(Nets(log, g), Account) = 0
      BY DEF Cancels
    <2>1. \A a \in Account : Nets(log, g)[a] = 0
      BY <1>4, NetNone DEF Nets
    <2> QED  BY <2>1, SumZero, LedgerAssumption
  <1>8. HoldsAddUp(log)
    <2> SUFFICES ASSUME NEW a \in Account
                 PROVE  Fold(log[a]).held = SumFunctionOnSet(HoldAmounts(log[a]), CommandId)
      BY DEF HoldsAddUp
    <2>1. Fold(log[a]).held = 0
      BY InitStream DEF Zero
    <2>2. \A h \in CommandId : OpenHold(log[a], h) = NoHold
      BY <1>2, OpenHoldNone, DomainAssumption
    <2>3. \A h \in CommandId : HoldAmounts(log[a])[h] = 0
      BY <2>2 DEF HoldAmounts, NoHold
    <2>4. SumFunctionOnSet(HoldAmounts(log[a]), CommandId) = 0
      BY <2>3, SumZero, LedgerAssumption
    <2> QED  BY <2>1, <2>4
  <1>9. Matches(log, results)
    BY <1>1 DEF Matches
  <1> QED  BY <1>0, <1>3, <1>5, <1>6, <1>7, <1>8, <1>9, InitMoney DEF IInv, Consistent

(* And always, for both specifications.                                       *)
LEMMA Invariance ==
  /\ Spec => []IInv
  /\ ConcurrentSpec => []IInv
  <1>1. Init => IInv
    BY InitOK
  <1>2. ASSUME IInv, NEW r \in Requests, RejectOnSomeReads(r) PROVE IInv'
    <2>1. PICK outcome \in Rejections, v \in 0..Version(log[r.cmd.account]) :
            Persist(r, Result(r, outcome, v, 0))
      BY <1>2 DEF RejectOnSomeReads
    <2>2. Result(r, outcome, v, 0).outcome # "accepted"
      BY DEF Result, Rejections
    <2> QED  BY <1>2, <2>1, <2>2, RejectionOK DEF RejectOnSomeReads
  <1>3. ASSUME IInv, Tick PROVE IInv'
    BY <1>3 DEF IInv, Tick
  <1>4. ASSUME IInv, UNCHANGED vars PROVE IInv'
    BY <1>4 DEF IInv, vars
  <1>5. ASSUME IInv, NEW r \in Requests, VersionConflict(r) PROVE IInv'
    <2> DEFINE x == Result(r, "version_conflict", Version(log[r.cmd.account]), 0)
    <2>1. x.outcome # "accepted" /\ Persist(r, x)
      BY <1>5 DEF Result, VersionConflict
    <2> HIDE DEF x
    <2> QED  BY <1>5, <2>1, RejectionOK DEF VersionConflict
  <1>6. ASSUME IInv, NEW r \in Requests, Reject(r) PROVE IInv'
    <2> DEFINE x == Result(r, Decision(r, now).outcome, r.cmd.expected, 0)
    <2>1. Decision(r, now).outcome # "accepted" /\ Persist(r, x)
      BY <1>6 DEF Reject
    <2>2. x.outcome # "accepted"
      BY <2>1 DEF Result
    <2> HIDE DEF x
    <2> QED  BY <1>6, <2>1, <2>2, RejectionOK DEF Reject
  <1>7. IInv /\ [Next]_vars => IInv'
    <2>1. IInv => now \in Nat
      BY DEF IInv
    <2> QED  BY <1>3, <1>4, <1>5, <1>6, <2>1, AcceptOK DEF Next, Execute
  <1>8. IInv /\ [ConcurrentNext]_vars => IInv'
    <2>1. IInv => \A t \in 0..now : t \in Nat
      BY DEF IInv
    <2> QED  BY <1>2, <1>3, <1>4, <2>1, AcceptOK DEF ConcurrentNext
  <1> QED  BY <1>1, <1>7, <1>8, PTL DEF Spec, ConcurrentSpec

-----------------------------------------------------------------------------
(* What the invariant implies *)

(* The invariant gives Foldable: `apply` raises on no prefix.                 *)
LEMMA FoldableIs == IInv => Foldable
  <1> SUFFICES ASSUME IInv, NEW a \in Account
               PROVE  LET n == Cardinality(DOMAIN log[a])
                      IN  /\ DOMAIN log[a] = 1..n
                          /\ ~AppendRaises(Fold(EmptyStream), [i \in 1..n |-> log[a][i]])
    BY DEF Foldable
  <1>1. Dense(log[a]) /\ Sound(log[a]) /\ Countable(log[a])
    BY TypedCountable DEF IInv, Consistent, Streams
  <1>2. PICK n \in Nat : DOMAIN log[a] = 1..n
    BY <1>1 DEF Dense
  <1>3. Cardinality(DOMAIN log[a]) = n
    BY <1>2, DenseVersion DEF Version
  <1> DEFINE s == [i \in 1..n |-> log[a][i]]
  <1>4. Fold(EmptyStream) = Zero
    <2>1. DOMAIN EmptyStream = {} /\ 1..0 = {} /\ 0 \in Nat
      BY DEF EmptyStream
    <2>2. Dense(EmptyStream) /\ Countable(EmptyStream)
      BY <2>1 DEF Dense, Countable
    <2> QED  BY <2>1, <2>2, FoldAfter, AfterNone, ZeroState
  <1>5. ASSUME NEW k \in 1..n
        PROVE  ~ApplyRaises(FoldLeft(Apply, Zero, SubSeq(s, 1, k - 1)), s[k])
    <2> DEFINE u == SubSeq(s, 1, k - 1)
               S == {log[a][i] : i \in 1..n}
    <2>0. k \in Int /\ k - 1 \in Nat /\ k - 1 \in Int /\ 1..(k - 1) \subseteq 1..n
      OBVIOUS
    <2>1. \A i \in 1..(k - 1) : s[i] \in S
      BY <2>0
    <2>2. /\ u \in Seq(S) /\ Len(u) = (IF 1 <= k - 1 THEN (k - 1) - 1 + 1 ELSE 0)
          /\ \A i \in 1..((k - 1) - 1 + 1) : u[i] = s[1 + i - 1]
      <3> HIDE DEF s, S
      <3>1. 1 \in Int
        OBVIOUS
      <3> QED  BY <2>0, <2>1, <3>1, SubSeqProperties
    <2> HIDE DEF u, S
    <2>3. Len(u) = k - 1 /\ (k - 1) - 1 + 1 = k - 1
      BY <2>0, <2>2
    <2>4. DOMAIN u = 1..(k - 1)
      BY <2>2, <2>3
    <2>5. \A i \in 1..(k - 1) : 1 + i - 1 = i
      OBVIOUS
    <2>6. \A i \in 1..(k - 1) : u[i] = log[a][i]
      BY <2>0, <2>2, <2>3, <2>5
    <2>7. Countable(u)
      BY <1>1, <1>2, <2>0, <2>4, <2>6 DEF Countable
    <2>8. FoldLeft(Apply, Zero, u) = After(Zero, u, 1..(k - 1))
      BY <2>0, <2>4, <2>7, FoldLeftSum, ZeroState
    <2>9. IsFiniteSet(1..(k - 1))
      BY <2>0, FS_Interval
    <2>10. After(Zero, u, 1..(k - 1)) = After(Zero, log[a], 1..(k - 1))
      BY <1>2, <2>0, <2>4, <2>6, <2>7, <2>9, AfterSame
    <2>11. ~ApplyRaises(After(Zero, log[a], 1..(k - 1)), log[a][k])
      BY <1>1, <1>2 DEF Sound
    <2> QED  BY <2>8, <2>10, <2>11 DEF u
  <1>6. ~AppendRaises(Zero, s)
    BY <1>5 DEF AppendRaises
  <1> QED  BY <1>2, <1>3, <1>4, <1>6

(* It gives HeldIsOpenHolds.                                                  *)
LEMMA HeldIs == IInv => HeldIsOpenHolds
  <1> SUFFICES ASSUME IInv, NEW a \in Account
               PROVE  Fold(log[a]).held = SumFunction([h \in CommandId |-> OpenHold(log[a], h).amount])
    BY DEF HeldIsOpenHolds
  <1>1. Fold(log[a]).held = SumFunctionOnSet(HoldAmounts(log[a]), CommandId)
    BY DEF IInv, Consistent, HoldsAddUp
  <1>2. DOMAIN HoldAmounts(log[a]) = CommandId
    BY DEF HoldAmounts
  <1>3. SumFunction(HoldAmounts(log[a])) = SumFunctionOnSet(HoldAmounts(log[a]), CommandId)
    BY <1>2 DEF SumFunction
  <1> QED  BY <1>1, <1>3 DEF HoldAmounts

(* SumOf is a sum over the rows.                                              *)
LEMMA SumOfIs ==
  ASSUME NEW rows
  PROVE  SumOf(rows) = SumFunctionOnSet(RowDeltas(rows), rows)
  <1>1. DOMAIN RowDeltas(rows) = rows
    BY DEF RowDeltas
  <1> QED  BY <1>1 DEF SumOf, SumFunction, RowDeltas

(* The rows of the log.                                                       *)
LEMMA RowsAre == Rows = RowsOf(log)
  BY DEF Rows, RowsOf

(* It gives MoneyConserved.                                                   *)
LEMMA ConservedIs == IInv => MoneyConserved
  <1> SUFFICES ASSUME IInv PROVE MoneyConserved
    OBVIOUS
  <1>1. SumFunctionOnSet(Balances(log), Account)
          = SumFunctionOnSet(RowDeltas(CashRows(log)), CashRows(log))
    BY DEF IInv, Consistent, MoneyAddsUp
  <1>2. SumFunction(Balances(log)) = SumFunctionOnSet(Balances(log), Account)
    <2>1. DOMAIN Balances(log) = Account
      BY DEF Balances
    <2> QED  BY <2>1 DEF SumFunction
  <1>3. SumOf(CashRows(log)) = SumFunctionOnSet(RowDeltas(CashRows(log)), CashRows(log))
    BY SumOfIs
  <1>4. {x \in Rows : x.event.type \in {"Deposited", "Withdrawn"}} = CashRows(log)
    BY RowsAre DEF CashRows
  <1>5. SumFunction(Balances(log)) = SumOf(CashRows(log))
    BY <1>1, <1>2, <1>3
  <1> QED  BY <1>4, <1>5 DEF MoneyConserved, Balances

(* It gives ResultsMatchLog.                                                  *)
LEMMA MatchIs == IInv => ResultsMatchLog
  <1> SUFFICES ASSUME IInv, NEW id \in CommandId
               PROVE  LET written == {x \in Rows : x.event.cmd = id}
                          own     == {x \in written : x.account = results[id].cmd.account}
                      IN  IF results[id].outcome # "accepted" THEN written = {}
                          ELSE own # {} /\ results[id].committed = Max({x.seq : x \in own})
    BY DEF ResultsMatchLog
  <1> DEFINE written == {x \in Rows : x.event.cmd = id}
             b == results[id].cmd.account
             own == {x \in written : x.account = b}
  <1>0. Consistent(log, results) /\ Streams(log, results) /\ Matches(log, results)
    BY DEF IInv, Consistent
  <1>1. \A x \in Rows : \E a \in Account : \E i \in DOMAIN log[a] : x = Row(log, a, i)
    BY DEF Rows, Row
  <1>2. \A a \in Account : \A i \in DOMAIN log[a] : Row(log, a, i) \in Rows
    BY DEF Rows, Row
  <1>3. \A a, i : /\ Row(log, a, i).account = a /\ Row(log, a, i).seq = i
                  /\ Row(log, a, i).event = log[a][i]
    BY DEF Row
  <1>4. CASE results[id].outcome # "accepted"
    <2>1. ~Done(results, id)
      BY <1>4 DEF Done
    <2>2. \A a \in Account : \A i \in DOMAIN log[a] : log[a][i].cmd # id
      BY <1>0, <2>1, FreshId
    <2>3. written = {}
      BY <1>1, <1>3, <2>2
    <2> QED  BY <1>4, <2>3
  <1>5. CASE results[id].outcome = "accepted"
    <2>1. b \in Account /\ Wrote(log[b], id) # {} /\ results[id].committed = Max(Wrote(log[b], id))
      BY <1>0, <1>5 DEF Done, Matches, Wrote
    <2> HIDE DEF b
    <2>2. \A i \in Wrote(log[b], id) : Row(log, b, i) \in own /\ Row(log, b, i).seq = i
      BY <1>2, <1>3, <2>1 DEF Wrote
    <2>3. \A x \in own : x.seq \in Wrote(log[b], id)
      <3> TAKE x \in own
      <3>1. PICK a \in Account : \E i \in DOMAIN log[a] : x = Row(log, a, i)
        BY <1>1
      <3>2. PICK i \in DOMAIN log[a] : x = Row(log, a, i)
        BY <3>1
      <3>3. a = b /\ x.seq = i /\ log[a][i].cmd = id
        BY <1>3, <3>2
      <3> QED  BY <3>2, <3>3 DEF Wrote
    <2> HIDE DEF own
    <2>4. {x.seq : x \in own} = Wrote(log[b], id) /\ own # {}
      BY <2>1, <2>2, <2>3
    <2> QED  BY <1>5, <2>1, <2>4 DEF own, b
  <1> QED  BY <1>4, <1>5

(* It gives DecisionsApply.                                                   *)
LEMMA DecisionsAre == IInv => DecisionsApply
  <1> SUFFICES ASSUME IInv, NEW r \in Requests, results[r.id] = NoResult, NEW legs,
                      legs = Decision(r, now).legs, NEW a \in DOMAIN legs
               PROVE  /\ \A i \in DOMAIN legs[a] : ValidEvent(a, legs[a][i])
                      /\ States[a].version + Len(legs[a]) <= MaxVersion =>
                           ~AppendRaises(States[a], legs[a])
    BY DEF DecisionsApply
  <1> DEFINE d == Decision(r, now)
  <1>1. now \in Nat /\ ~Done(results, r.id)
    BY DEF IInv, Done, NoResult
  <1>2. Good(d, States, log, r.id, r.cmd)
    BY <1>1, DecisionGood
  <1> HIDE DEF d
  <1>3. d.legs = legs
    BY DEF d
  <1>4. d.outcome = "accepted"
    BY <1>2, <1>3 DEF Good, NoLegs
  <1>5. Planned(legs, r.id, r.cmd) /\ Fits(States[a], legs[a])
    BY <1>2, <1>3, <1>4 DEF Good
  <1> QED  BY <1>5 DEF Planned, Typed, Fits

(* A set and its reversal cancel out on every account.                        *)
LEMMA RevertedIs == IInv => RevertedOnce
  <1> SUFFICES ASSUME IInv, NEW g \in CommandId
               PROVE  /\ Cardinality(RevertersOf(log, g)) <= 1
                      /\ \A g2 \in RevertersOf(log, g), a \in Account :
                           SumOf({x \in Rows : /\ x.account = a
                                               /\ x.event.group \in {g, g2}
                                               /\ x.event.type \in MovementTypes}) = 0
    BY DEF RevertedOnce
  <1>0. Consistent(log, results) /\ Streams(log, results)
    BY DEF IInv, Consistent
  <1>1. ASSUME NEW g2 \in RevertersOf(log, g)
        PROVE  \E b \in Account : \E j \in DOMAIN log[b] : log[b][j].reverts = g /\ log[b][j].group = g2
    BY <1>1 DEF RevertersOf
  <1>2. g # NoId
    BY DomainAssumption
  <1>3. ASSUME NEW p \in RevertersOf(log, g), NEW q \in RevertersOf(log, g) PROVE p = q
    <2>1. PICK a \in Account : \E i \in DOMAIN log[a] : log[a][i].reverts = g /\ log[a][i].group = p
      BY <1>1, <1>3
    <2>1a. PICK i \in DOMAIN log[a] : log[a][i].reverts = g /\ log[a][i].group = p
      BY <2>1
    <2>2. PICK b \in Account : \E j \in DOMAIN log[b] : log[b][j].reverts = g /\ log[b][j].group = q
      BY <1>1, <1>3
    <2>2a. PICK j \in DOMAIN log[b] : log[b][j].reverts = g /\ log[b][j].group = q
      BY <2>2
    <2> QED  BY <1>0, <1>2, <2>1a, <2>2a DEF Consistent, OneReversal
  <1>4. Cardinality(RevertersOf(log, g)) <= 1
    <2>1. CASE RevertersOf(log, g) = {}
      BY <2>1, FS_EmptySet
    <2>2. CASE RevertersOf(log, g) # {}
      <3>1. PICK p \in RevertersOf(log, g) : TRUE
        BY <2>2
      <3>2. RevertersOf(log, g) = {p}
        BY <1>3, <3>1
      <3>3. Cardinality({p}) = 1
        BY FS_Singleton
      <3> QED  BY <3>2, <3>3
    <2> QED  BY <2>1, <2>2
  <1>5. ASSUME NEW g2 \in RevertersOf(log, g), NEW a \in Account
        PROVE  SumOf({x \in Rows : /\ x.account = a /\ x.event.group \in {g, g2}
                                   /\ x.event.type \in MovementTypes}) = 0
    <2> DEFINE R == {x \in Rows : /\ x.account = a /\ x.event.group \in {g, g2}
                                  /\ x.event.type \in MovementTypes}
               f == RowDeltas(R)
    <2>1. PICK b \in Account : \E j \in DOMAIN log[b] : log[b][j].reverts = g /\ log[b][j].group = g2
      BY <1>1, <1>5
    <2>1a. PICK j \in DOMAIN log[b] : log[b][j].reverts = g /\ log[b][j].group = g2
      BY <2>1
    <2>2. g2 \in CommandId /\ g2 # g
      <3>1. Typed(b, log[b][j])
        BY <1>0 DEF Streams
      <3> QED  BY <1>2, <2>1a, <3>1 DEF Typed, ValidEvent, ValidReversalLeg, ValidTransferLeg
    <2>3. Net(log[a], g2) = -Net(log[a], g)
      BY <1>0, <1>2, <2>1a DEF Consistent, Mirrored
    <2>4. \A x \in R : \E i \in Moves(log[a], g) \cup Moves(log[a], g2) : x = Row(log, a, i)
      BY DEF Rows, Row, Moves
    <2>5. \A i \in Moves(log[a], g) \cup Moves(log[a], g2) : Row(log, a, i) \in R
      BY DEF Rows, Row, Moves
    <2>6. ASSUME NEW h \in CommandId, NEW i \in Moves(log[a], h)
          PROVE  /\ Moves(log[a], h) = {i} /\ Net(log[a], h) = BalanceDelta(log[a][i])
                 /\ BalanceDelta(log[a][i]) \in Int /\ BalanceDelta(log[a][i]) # 0
      <3>1. Moves(log[a], h) = {i}
        BY <1>0, <2>6 DEF Consistent, OneMove
      <3>2. Net(log[a], h) = BalanceDelta(log[a][i])
        BY <1>0, <2>6, NetOf DEF Consistent
      <3>3. Typed(a, log[a][i]) /\ log[a][i].type \in MovementTypes
        BY <1>0, <2>6 DEF Streams, Moves
      <3> QED  BY <3>1, <3>2, <3>3, MovesSome
    <2>7. SumOf(R) = SumFunctionOnSet(f, R)
      BY SumOfIs
    <2>8. CASE Moves(log[a], g) = {}
      <3>1. Net(log[a], g) = 0
        BY <2>8, NetNone
      <3>2. Moves(log[a], g2) = {}
        <4> SUFFICES ASSUME NEW i \in Moves(log[a], g2) PROVE FALSE
          OBVIOUS
        <4>1. Net(log[a], g2) \in Int /\ Net(log[a], g2) # 0
          BY <2>2, <2>6
        <4>2. \A m, n \in Int : n = -m /\ n # 0 => m # 0
          OBVIOUS
        <4>3. Net(log[a], g) \in Int
          BY <3>1
        <4> QED  BY <2>3, <3>1, <4>1, <4>2, <4>3, Zenon
      <3>3. R = {}
        BY <2>4, <2>8, <3>2
      <3> QED  BY <2>7, <3>3, SumEmpty
    <2>9. CASE Moves(log[a], g) # {}
      <3>1. PICK i \in Moves(log[a], g) : TRUE
        BY <2>9
      <3>2. /\ Moves(log[a], g) = {i} /\ Net(log[a], g) = BalanceDelta(log[a][i])
            /\ BalanceDelta(log[a][i]) \in Int /\ BalanceDelta(log[a][i]) # 0
        BY <2>6, <3>1
      <3>3. Moves(log[a], g2) # {}
        <4> SUFFICES ASSUME Moves(log[a], g2) = {} PROVE FALSE
          OBVIOUS
        <4>1. Net(log[a], g2) = 0
          BY NetNone
        <4>2. \A n \in Int : 0 = -n => n = 0
          OBVIOUS
        <4> QED  BY <2>3, <3>2, <4>1, <4>2
      <3>4. PICK k \in Moves(log[a], g2) : TRUE
        BY <3>3
      <3>5. /\ Moves(log[a], g2) = {k} /\ Net(log[a], g2) = BalanceDelta(log[a][k])
            /\ BalanceDelta(log[a][k]) \in Int
        BY <2>2, <2>6, <3>4
      <3>6. log[a][i].group = g /\ log[a][k].group = g2
        BY <3>1, <3>4 DEF Moves
      <3> DEFINE x == Row(log, a, i)
                 y == Row(log, a, k)
      <3>7. x # y /\ x.event = log[a][i] /\ y.event = log[a][k]
        <4>1. x.event = log[a][i] /\ y.event = log[a][k]
          BY DEF Row
        <4> QED  BY <2>2, <3>6, <4>1
      <3>8. R = {x} \cup {y}
        BY <2>4, <2>5, <3>2, <3>5
      <3>9. f[x] = BalanceDelta(log[a][i]) /\ f[y] = BalanceDelta(log[a][k])
        BY <3>7, <3>8 DEF RowDeltas
      <3> HIDE DEF x, y, f, R
      <3>10. SumFunctionOnSet(f, {x} \cup {y}) = f[y] + SumFunctionOnSet(f, {x})
        <4>1. IsFiniteSet({x}) /\ \A z \in {x} : f[z] \in Int
          BY <3>2, <3>9, FS_Singleton
        <4>2. y \notin {x} /\ f[y] \in Int
          BY <3>5, <3>7, <3>9
        <4> QED  BY <4>1, <4>2, SumWith
      <3>11. SumFunctionOnSet(f, {x}) = f[x] + SumFunctionOnSet(f, {x} \ {x})
        <4>1. IsFiniteSet({x}) /\ x \in {x} /\ \A z \in {x} : f[z] \in Int
          BY <3>2, <3>9, FS_Singleton
        <4> QED  BY <4>1, SumWithout
      <3>12. SumFunctionOnSet(f, {x} \ {x}) = 0
        <4>1. {x} \ {x} = {}
          OBVIOUS
        <4> QED  BY <4>1, SumEmpty
      <3>13. SumFunctionOnSet(f, R) = 0
        <4>1. \A m, n, p, q, r \in Int :
                m = -n /\ p = 0 /\ q = n + p /\ r = m + q => r = 0
          OBVIOUS
        <4>2. f[x] \in Int /\ f[y] \in Int /\ f[y] = -f[x]
          BY <2>3, <3>2, <3>5, <3>9, Zenon
        <4>3. 0 \in Int
          OBVIOUS
        <4>4. SumFunctionOnSet(f, {x}) = f[x] + 0
          BY <3>11, <3>12, Zenon
        <4>5. f[x] + 0 \in Int /\ f[y] + (f[x] + 0) \in Int
          BY <4>2
        <4>6. SumFunctionOnSet(f, {x} \cup {y}) = f[y] + (f[x] + 0)
          BY <3>10, <4>4, Zenon
        <4>7. f[y] + (f[x] + 0) = 0
          BY <4>1, <4>2, <4>3, <4>5
        <4> QED  BY <3>8, <4>6, <4>7, Zenon
      <3> QED  BY <2>7, <3>13 DEF R
    <2> QED  BY <2>8, <2>9
  <1> QED  BY <1>4, <1>5

-----------------------------------------------------------------------------
(* Every stream folds: the sequence numbers are dense and `apply` raises on   *)
(* no prefix, under one transaction at a time and under the concurrent unit   *)
(* of work.                                                                   *)
THEOREM StreamsFold ==
  /\ Spec => []Foldable
  /\ ConcurrentSpec => []Foldable
  BY Invariance, FoldableIs, PTL

(* An account holds back exactly what its open holds reserve.                 *)
THEOREM HoldsAddToHeld ==
  /\ Spec => []HeldIsOpenHolds
  /\ ConcurrentSpec => []HeldIsOpenHolds
  BY Invariance, HeldIs, PTL

(* Only deposits and withdrawals make or destroy money.                       *)
THEOREM MoneyIsConserved ==
  /\ Spec => []MoneyConserved
  /\ ConcurrentSpec => []MoneyConserved
  BY Invariance, ConservedIs, PTL

(* A posting set is reverted at most once, and then undone on every account.  *)
THEOREM SetsRevertOnce ==
  /\ Spec => []RevertedOnce
  /\ ConcurrentSpec => []RevertedOnce
  BY Invariance, RevertedIs, PTL

(* The stored results and the log agree on what was written.                  *)
THEOREM ResultsAgree ==
  /\ Spec => []ResultsMatchLog
  /\ ConcurrentSpec => []ResultsMatchLog
  BY Invariance, MatchIs, PTL

(* No decision accepts what its events' constructors or `apply` would refuse. *)
THEOREM DecisionsHold ==
  /\ Spec => []DecisionsApply
  /\ ConcurrentSpec => []DecisionsApply
  BY Invariance, DecisionsAre, PTL
=============================================================================
