----------------------------- MODULE CacheProofs -----------------------------
(***************************************************************************)
(* What the operators of Cache do to a cache, for every set of names and   *)
(* every capacity: which keys an operation keeps, in which order, and what *)
(* the recorded sizes add up to.  The first part is about sums.  A sum     *)
(* over a set is a fold, a function defined by recursion on the subsets of *)
(* the set; that such a function exists, that it is the same for every set *)
(* that has the summands and that the order does not matter are shown by   *)
(* looking at a smallest subset for which they would fail.                 *)
(***************************************************************************)
EXTENDS Cache, FiniteSetTheorems, SequenceTheorems, TLAPS

\* The order in which the fold takes the elements of a set
First(s) == CHOOSE x \in s : TRUE

\* g gives the sum of f over each member of D.
Sums(g, f, D) ==
  g = [s \in D |-> IF s = {} THEN 0 ELSE f[First(s)] + g[s \ {First(s)}]]

SumsOf(f, S) == CHOOSE g : Sums(g, f, SUBSET S)

(* The sum of the community modules is a value of such a function.         *)
LEMMA SumIsFold ==
  ASSUME NEW f, NEW S
  PROVE  SumFunctionOnSet(f, S) = SumsOf(f, S)[S]
  BY DEF SumFunctionOnSet, FoldFunctionOnSet, MapThenFoldSet, SumsOf, Sums, First

\* The element a sum takes first is one of its set.
LEMMA FirstIn == ASSUME NEW s, s # {} PROVE First(s) \in s
  BY DEF First

(* A set of subsets of a finite set has a member without a smaller one.    *)
LEMMA SmallestSet ==
  ASSUME NEW S, IsFiniteSet(S), NEW B \in SUBSET (SUBSET S), B # {}
  PROVE  \E s \in B : \A t \in B : t \subseteq s => t = s
<1> DEFINE R == StrictSubsetOrdering(S)
<1>1. IsWellFoundedOn(R, SUBSET S)
  BY FS_StrictSubsetOrderingWellFounded, FS_FiniteSubsetsOfFinite
<1>2. PICK s \in B : \A t \in B : ~ (<<t, s>> \in R)
  <2> HIDE DEF R
  <2> QED BY <1>1, WFMin
<1>3. \A t \in B : t \subseteq s /\ t # s => <<t, s>> \in R
  BY DEF StrictSubsetOrdering
<1> HIDE DEF R
<1>4. \A t \in B : t \subseteq s => t = s
  BY <1>2, <1>3
<1> QED BY <1>4

(* The same for numbers.                                                   *)
LEMMA SmallestNumber ==
  ASSUME NEW B \in SUBSET Nat, B # {}
  PROVE  \E m \in B : \A n \in B : m <= n
<1>1. PICK m \in B : \A n \in B : ~ (<<n, m>> \in OpToRel(<, Nat))
  BY NatLessThanWellFounded, WFMin
<1>2. \A n \in B : ~ (n < m)
  BY <1>1 DEF OpToRel
<1> QED BY <1>2

\* The subsets of S with at most n elements
Layer(S, n) == {s \in SUBSET S : Cardinality(s) <= n}

(* Sums over all subsets of a finite set exist: built layer by layer.      *)
LEMMA SumsExist ==
  ASSUME NEW f, NEW S, IsFiniteSet(S)
  PROVE  Sums(SumsOf(f, S), f, SUBSET S)
<1> DEFINE B == {n \in Nat : ~ \E g : Sums(g, f, Layer(S, n))}
<1>1. ASSUME B # {} PROVE FALSE
  <2>1. PICK m \in B : \A n \in B : m <= n
    BY <1>1, SmallestNumber
  <2>2. CASE m = 0
    <3> DEFINE g == [s \in Layer(S, 0) |-> 0]
    <3>1. \A s \in Layer(S, 0) : s = {}
      BY FS_EmptySet, FS_Subset, FS_CardinalityType DEF Layer
    <3>2. Sums(g, f, Layer(S, 0))
      BY <3>1 DEF Sums
    <3> QED BY <2>1, <2>2, <3>2
  <2>3. CASE m # 0
    <3>1. m - 1 \in Nat /\ m - 1 \notin B
      BY <2>1, <2>3
    <3>2. PICK g : Sums(g, f, Layer(S, m - 1))
      BY <3>1
    <3> DEFINE h == [s \in Layer(S, m) |->
                       IF s = {} THEN 0 ELSE f[First(s)] + g[s \ {First(s)}]]
    <3>3. \A s \in Layer(S, m) : s # {} => s \ {First(s)} \in Layer(S, m - 1)
      <4> SUFFICES ASSUME NEW s \in Layer(S, m), s # {}
                   PROVE  s \ {First(s)} \in Layer(S, m - 1)
        OBVIOUS
      <4>1. IsFiniteSet(s) /\ Cardinality(s) <= m /\ s \subseteq S
        BY FS_Subset DEF Layer
      <4>2. Cardinality(s) \in Nat
        BY <4>1, FS_CardinalityType
      <4>3. Cardinality(s \ {First(s)}) = Cardinality(s) - 1
        BY <4>1, FS_RemoveElement, FirstIn
      <4> QED BY <4>1, <4>2, <4>3 DEF Layer
    <3>4. \A s \in Layer(S, m - 1) :
            s \in Layer(S, m) /\ g[s] = h[s]
      <4>1. \A s \in Layer(S, m - 1) : s \in Layer(S, m)
        <5> SUFFICES ASSUME NEW s \in Layer(S, m - 1) PROVE s \in Layer(S, m)
          OBVIOUS
        <5>1. Cardinality(s) \in Nat
          BY FS_Subset, FS_CardinalityType DEF Layer
        <5> QED BY <5>1 DEF Layer
      <4> QED BY <4>1, <3>2 DEF Sums
    <3>5. Sums(h, f, Layer(S, m))
      <4>1. \A s \in Layer(S, m) :
              (IF s = {} THEN 0 ELSE f[First(s)] + g[s \ {First(s)}])
              = IF s = {} THEN 0 ELSE f[First(s)] + h[s \ {First(s)}]
        <5> HIDE DEF h
        <5> QED BY <3>3, <3>4
      <4>2. h = [s \in Layer(S, m) |->
                   IF s = {} THEN 0 ELSE f[First(s)] + h[s \ {First(s)}]]
        <5> DEFINE left(s) == IF s = {} THEN 0 ELSE f[First(s)] + g[s \ {First(s)}]
                   right(s) == IF s = {} THEN 0 ELSE f[First(s)] + h[s \ {First(s)}]
        <5>1. \A s \in Layer(S, m) : left(s) = right(s)
          BY <4>1
        <5>2. h = [s \in Layer(S, m) |-> left(s)]
          OBVIOUS
        <5> HIDE DEF left, right, h
        <5>3. h = [s \in Layer(S, m) |-> right(s)]
          BY <5>1, <5>2
        <5> QED BY <5>3 DEF right
      <4> QED BY <4>2 DEF Sums
    <3> QED BY <2>1, <3>5
  <2> QED BY <2>2, <2>3
<1>2. Cardinality(S) \in Nat
  BY FS_CardinalityType
<1>3. Layer(S, Cardinality(S)) = SUBSET S
  BY FS_Subset DEF Layer
<1>4. \E g : Sums(g, f, SUBSET S)
  <2>1. Cardinality(S) \notin B
    BY <1>1
  <2>2. \E g : Sums(g, f, Layer(S, Cardinality(S)))
    BY <2>1, <1>2
  <2> QED BY <2>2, <1>3
<1> QED BY <1>4 DEF SumsOf

(* Two such functions agree on a finite set that both have, when the       *)
(* summands do.                                                            *)
LEMMA SumsAgree ==
  ASSUME NEW f, NEW g, NEW S, NEW C, NEW D,
         IsFiniteSet(S), SUBSET S \subseteq C, SUBSET S \subseteq D,
         \A x \in S : f[x] = g[x],
         NEW F, NEW G, Sums(F, f, C), Sums(G, g, D)
  PROVE  \A s \in SUBSET S : F[s] = G[s]
<1> DEFINE B == {s \in SUBSET S : F[s] # G[s]}
<1>1. ASSUME B # {} PROVE FALSE
  <2>1. PICK s \in B : \A t \in B : t \subseteq s => t = s
    <3>1. B \in SUBSET (SUBSET S)
      OBVIOUS
    <3> HIDE DEF B
    <3> QED BY <1>1, <3>1, SmallestSet
  <2>2. /\ F[s] = IF s = {} THEN 0 ELSE f[First(s)] + F[s \ {First(s)}]
        /\ G[s] = IF s = {} THEN 0 ELSE g[First(s)] + G[s \ {First(s)}]
    BY DEF Sums
  <2>3. s # {}
    BY <2>1, <2>2
  <2>4. First(s) \in s
    BY <2>3, FirstIn
  <2>5. s \ {First(s)} \in SUBSET S /\ s \ {First(s)} \notin B
    BY <2>1, <2>4
  <2>6. F[s \ {First(s)}] = G[s \ {First(s)}]
    BY <2>5
  <2>7. F[s] = G[s]
    BY <2>2, <2>3, <2>4, <2>6
  <2> QED BY <2>1, <2>7
<1> QED BY <1>1

(* A sum depends only on its summands.                                     *)
LEMMA SumOfSame ==
  ASSUME NEW f, NEW g, NEW S, IsFiniteSet(S), \A x \in S : f[x] = g[x]
  PROVE  SumFunctionOnSet(f, S) = SumFunctionOnSet(g, S)
<1>1. Sums(SumsOf(f, S), f, SUBSET S) /\ Sums(SumsOf(g, S), g, SUBSET S)
  BY SumsExist
<1>2. \A s \in SUBSET S : SumsOf(f, S)[s] = SumsOf(g, S)[s]
  BY <1>1, SumsAgree
<1> QED BY <1>2, SumIsFold

(* The sum over nothing.                                                   *)
LEMMA SumOfNone == ASSUME NEW f PROVE SumFunctionOnSet(f, {}) = 0
<1>1. Sums(SumsOf(f, {}), f, SUBSET {})
  BY SumsExist, FS_EmptySet
<1>2. SumsOf(f, {})[{}] = 0
  BY <1>1 DEF Sums
<1> QED BY <1>2, SumIsFold

(* The first element is added to the sum over the others.                  *)
LEMMA SumOfFirst ==
  ASSUME NEW f, NEW S, IsFiniteSet(S), S # {}
  PROVE  SumFunctionOnSet(f, S) = f[First(S)] + SumFunctionOnSet(f, S \ {First(S)})
<1> DEFINE T == S \ {First(S)}
<1>1. Sums(SumsOf(f, S), f, SUBSET S) /\ IsFiniteSet(T) /\ T \subseteq S
  BY SumsExist, FS_RemoveElement
<1>2. Sums(SumsOf(f, T), f, SUBSET T)
  BY <1>1, SumsExist
<1>3. SumsOf(f, S)[T] = SumsOf(f, T)[T]
  <2>1. \A s \in SUBSET T : SumsOf(f, S)[s] = SumsOf(f, T)[s]
    <3> HIDE DEF T
    <3>1. SUBSET T \subseteq SUBSET S
      BY <1>1
    <3> QED BY <1>1, <1>2, <3>1, SumsAgree
  <2> QED BY <2>1
<1>4. SumsOf(f, S)[S] = f[First(S)] + SumsOf(f, S)[T]
  BY <1>1 DEF Sums
<1> QED BY <1>3, <1>4, SumIsFold

(* Sums of sizes are sizes, and any element may be taken out first.        *)
LEMMA SumOfSizes ==
  ASSUME NEW f, NEW S, IsFiniteSet(S), \A x \in S : f[x] \in Nat
  PROVE  SumFunctionOnSet(f, S) \in Nat
<1> DEFINE B == {s \in SUBSET S : SumFunctionOnSet(f, s) \notin Nat}
<1>1. ASSUME B # {} PROVE FALSE
  <2>1. PICK s \in B : \A t \in B : t \subseteq s => t = s
    <3>1. B \in SUBSET (SUBSET S)
      OBVIOUS
    <3> HIDE DEF B
    <3> QED BY <1>1, <3>1, SmallestSet
  <2>2. s # {}
    BY SumOfNone
  <2>3. First(s) \in s /\ IsFiniteSet(s)
    BY <2>2, FirstIn, FS_Subset
  <2>4. SumFunctionOnSet(f, s \ {First(s)}) \in Nat
    BY <2>1, <2>3
  <2>5. SumFunctionOnSet(f, s) = f[First(s)] + SumFunctionOnSet(f, s \ {First(s)})
    BY <2>2, <2>3, SumOfFirst
  <2>6. f[First(s)] \in Nat
    BY <2>3
  <2>7. SumFunctionOnSet(f, s) \in Nat
    BY <2>4, <2>5, <2>6
  <2> QED BY <2>7
<1> QED BY <1>1

\* A sum takes its elements in any order: each can be split off.
LEMMA SumWithout ==
  ASSUME NEW f, NEW S, IsFiniteSet(S), \A x \in S : f[x] \in Nat
  PROVE  \A x \in S : SumFunctionOnSet(f, S) = f[x] + SumFunctionOnSet(f, S \ {x})
<1> DEFINE Sum(s) == SumFunctionOnSet(f, s)
           B == {s \in SUBSET S : ~ \A x \in s : Sum(s) = f[x] + Sum(s \ {x})}
<1>0. \A s \in SUBSET S : Sum(s) \in Nat
  BY SumOfSizes, FS_Subset
<1>1. ASSUME B # {} PROVE FALSE
  <2>1. PICK s \in B : \A t \in B : t \subseteq s => t = s
    <3>1. B \in SUBSET (SUBSET S)
      OBVIOUS
    <3> HIDE DEF B
    <3> QED BY <1>1, <3>1, SmallestSet
  <2>2. PICK x \in s : Sum(s) # f[x] + Sum(s \ {x})
    BY <2>1
  <2> DEFINE y == First(s)
  <2>3. y \in s /\ Sum(s) = f[y] + Sum(s \ {y})
    BY FirstIn, SumOfFirst, FS_Subset
  <2> HIDE DEF y
  <2>4. x # y
    BY <2>2, <2>3
  <2>5. s \ {x} \notin B /\ s \ {y} \notin B
    BY <2>1, <2>3
  <2>6. y \in s \ {x} /\ x \in s \ {y} /\ s \ {x} \in SUBSET S /\ s \ {y} \in SUBSET S
    BY <2>3, <2>4
  <2>7. /\ Sum(s \ {x}) = f[y] + Sum((s \ {x}) \ {y})
        /\ Sum(s \ {y}) = f[x] + Sum((s \ {y}) \ {x})
    <3> HIDE DEF Sum
    <3> QED BY <2>5, <2>6
  <2>8. Sum((s \ {x}) \ {y}) = Sum((s \ {y}) \ {x})
    <3>1. (s \ {x}) \ {y} = (s \ {y}) \ {x}
      OBVIOUS
    <3> QED BY <3>1
  <2>9. Sum((s \ {x}) \ {y}) \in Nat /\ f[x] \in Nat /\ f[y] \in Nat
    BY <1>0, <2>3, <2>6
  <2> DEFINE rest == Sum((s \ {x}) \ {y})
  <2>10. Sum(s) = f[y] + (f[x] + rest) /\ Sum(s \ {x}) = f[y] + rest
    BY <2>3, <2>7, <2>8
  <2>11. rest \in Nat
    BY <2>9
  <2> HIDE DEF Sum, rest
  <2> QED BY <2>2, <2>9, <2>10, <2>11
<1>2. S \notin B
  BY <1>1
<1> QED BY <1>2

(* The sum over two sets that have nothing in common.                      *)
LEMMA SumOfUnion ==
  ASSUME NEW f, NEW S, NEW T, IsFiniteSet(S), IsFiniteSet(T), S \cap T = {},
         \A x \in S \cup T : f[x] \in Nat
  PROVE  SumFunctionOnSet(f, S \cup T) = SumFunctionOnSet(f, S) + SumFunctionOnSet(f, T)
<1> DEFINE Sum(s) == SumFunctionOnSet(f, s)
           B == {t \in SUBSET T : Sum(S \cup t) # Sum(S) + Sum(t)}
<1>0. \A t \in SUBSET T : /\ IsFiniteSet(t) /\ IsFiniteSet(S \cup t)
                          /\ Sum(t) \in Nat /\ Sum(S \cup t) \in Nat /\ Sum(S) \in Nat
  <2> TAKE t \in SUBSET T
  <2>1. IsFiniteSet(t)
    BY FS_Subset
  <2>2. IsFiniteSet(S \cup t)
    BY <2>1, FS_Union
  <2> QED BY <2>1, <2>2, SumOfSizes
<1>1. ASSUME B # {} PROVE FALSE
  <2>1. PICK t \in B : \A u \in B : u \subseteq t => u = t
    <3>1. B \in SUBSET (SUBSET T)
      OBVIOUS
    <3> HIDE DEF B
    <3> QED BY <1>1, <3>1, SmallestSet
  <2>2. Sum({}) = 0
    BY SumOfNone
  <2>3. PICK x \in t : TRUE
    <3>1. ASSUME t = {} PROVE FALSE
      <4>1. Sum(S \cup t) = Sum(S) /\ Sum(t) = 0
        BY <3>1, <2>2
      <4>2. Sum(S \cup t) = Sum(S) + Sum(t)
        BY <4>1, <1>0
      <4> QED BY <4>2
    <3> QED BY <3>1
  <2>4. t \ {x} \in SUBSET T /\ t \ {x} \notin B
    BY <2>1
  <2>5. Sum(S \cup (t \ {x})) = Sum(S) + Sum(t \ {x})
    BY <2>4
  <2>6. (S \cup t) \ {x} = S \cup (t \ {x}) /\ x \in S \cup t
    OBVIOUS
  <2>7. /\ \A y \in t : Sum(t) = f[y] + Sum(t \ {y})
        /\ \A y \in S \cup t : Sum(S \cup t) = f[y] + Sum((S \cup t) \ {y})
    <3>1. IsFiniteSet(t) /\ \A y \in t : f[y] \in Nat
      BY <1>0
    <3>2. IsFiniteSet(S \cup t) /\ \A y \in S \cup t : f[y] \in Nat
      BY <1>0
    <3>3. \A y \in t : Sum(t) = f[y] + Sum(t \ {y})
      BY <3>1, SumWithout
    <3>4. \A y \in S \cup t : Sum(S \cup t) = f[y] + Sum((S \cup t) \ {y})
      BY <3>2, SumWithout
    <3> QED BY <3>3, <3>4
  <2>8. Sum(t) = f[x] + Sum(t \ {x}) /\ Sum(S \cup t) = f[x] + Sum((S \cup t) \ {x})
    BY <2>6, <2>7
  <2>9. Sum(S \cup t) = f[x] + (Sum(S) + Sum(t \ {x}))
    BY <2>5, <2>6, <2>8
  <2>10. f[x] \in Nat /\ Sum(t \ {x}) \in Nat /\ Sum(S) \in Nat
    BY <1>0, <2>4
  <2>11. Sum(S \cup t) = Sum(S) + Sum(t)
    <3> HIDE DEF Sum
    <3> QED BY <2>8, <2>9, <2>10
  <2> QED BY <2>11
<1> QED BY <1>1

(* A sum that is 0 everywhere is 0.                                        *)
LEMMA SumOfZeros ==
  ASSUME NEW f, NEW S, IsFiniteSet(S), \A x \in S : f[x] = 0
  PROVE  SumFunctionOnSet(f, S) = 0
<1> DEFINE B == {s \in SUBSET S : SumFunctionOnSet(f, s) # 0}
<1>1. ASSUME B # {} PROVE FALSE
  <2>1. PICK s \in B : \A t \in B : t \subseteq s => t = s
    <3>1. B \in SUBSET (SUBSET S)
      OBVIOUS
    <3> HIDE DEF B
    <3> QED BY <1>1, <3>1, SmallestSet
  <2>2. s # {} /\ IsFiniteSet(s)
    BY SumOfNone, FS_Subset
  <2>3. First(s) \in s
    BY <2>2, FirstIn
  <2>4. SumFunctionOnSet(f, s \ {First(s)}) = 0 /\ f[First(s)] = 0
    BY <2>1, <2>3
  <2>5. SumFunctionOnSet(f, s) = 0
    BY <2>2, <2>4, SumOfFirst
  <2> QED BY <2>5
<1> QED BY <1>1

(* The sum over a part, and over a part that has all that counts.          *)
LEMMA SumOfPart ==
  ASSUME NEW f, NEW S, IsFiniteSet(S), NEW T \in SUBSET S, \A x \in S : f[x] \in Nat
  PROVE  /\ SumFunctionOnSet(f, T) \in Nat /\ SumFunctionOnSet(f, S) \in Nat
         /\ SumFunctionOnSet(f, S \ T) \in Nat
         /\ SumFunctionOnSet(f, S) = SumFunctionOnSet(f, T) + SumFunctionOnSet(f, S \ T)
         /\ (\A x \in S \ T : f[x] = 0)
              => SumFunctionOnSet(f, S) = SumFunctionOnSet(f, T)
<1>1. IsFiniteSet(T) /\ IsFiniteSet(S \ T)
  BY FS_Subset
<1>2. T \cup (S \ T) = S /\ T \cap (S \ T) = {}
  OBVIOUS
<1>3. SumFunctionOnSet(f, T \cup (S \ T))
        = SumFunctionOnSet(f, T) + SumFunctionOnSet(f, S \ T)
  BY <1>1, <1>2, SumOfUnion
<1>4. /\ SumFunctionOnSet(f, T) \in Nat /\ SumFunctionOnSet(f, S) \in Nat
      /\ SumFunctionOnSet(f, S \ T) \in Nat
  BY <1>1, SumOfSizes
<1>5. (\A x \in S \ T : f[x] = 0) => SumFunctionOnSet(f, S \ T) = 0
  BY <1>1, SumOfZeros
<1>6. SumFunctionOnSet(f, S) = SumFunctionOnSet(f, T) + SumFunctionOnSet(f, S \ T)
  BY <1>2, <1>3
<1>7. (\A x \in S \ T : f[x] = 0) => SumFunctionOnSet(f, S) = SumFunctionOnSet(f, T)
  BY <1>4, <1>5, <1>6
<1> QED BY <1>4, <1>6, <1>7

(* What replacing one summand does to a sum.                               *)
LEMMA SumExcept ==
  ASSUME NEW S, IsFiniteSet(S), NEW f \in [S -> Nat], NEW x \in S, NEW n \in Nat
  PROVE  SumFunctionOnSet([f EXCEPT ![x] = n], S) = SumFunctionOnSet(f, S) - f[x] + n
<1> DEFINE g == [f EXCEPT ![x] = n]
<1>1. IsFiniteSet(S \ {x})
  BY FS_RemoveElement
<1>2. SumFunctionOnSet(g, S \ {x}) = SumFunctionOnSet(f, S \ {x})
  BY <1>1, SumOfSame
<1>3. g[x] = n /\ \A y \in S : g[y] \in Nat
  OBVIOUS
<1>4. SumFunctionOnSet(g, S) = n + SumFunctionOnSet(g, S \ {x})
  <2> HIDE DEF g
  <2> QED BY <1>3, SumWithout
<1>5. SumFunctionOnSet(f, S) = f[x] + SumFunctionOnSet(f, S \ {x})
  BY SumWithout
<1>6. SumFunctionOnSet(f, S \ {x}) \in Nat /\ f[x] \in Nat
  BY <1>1, SumOfSizes
<1> HIDE DEF g
<1>7. SumFunctionOnSet(g, S) = SumFunctionOnSet(f, S) - f[x] + n
  BY <1>2, <1>4, <1>5, <1>6
<1> QED BY <1>7 DEF g

-----------------------------------------------------------------------------
(* Lists of keys                                                           *)

Distinct(s) == \A i, j \in 1..Len(s) : i < j => s[i] # s[j]

\* Whatever comes before something in r also does in s.
Keeps(r, s) ==
  \A i, j \in 1..Len(r) :
    i < j => \E a, b \in 1..Len(s) : a < b /\ s[a] = r[i] /\ s[b] = r[j]

(* A list that keeps the order of one without repetition has none.         *)
LEMMA KeepsDistinct ==
  ASSUME NEW r, NEW s, Keeps(r, s), Distinct(s)
  PROVE  Distinct(r)
  BY DEF Keeps, Distinct

(* Keeping the order of a list is transitive.                              *)
LEMMA KeepsAll ==
  ASSUME NEW r, NEW s, NEW t, Keeps(r, s), Keeps(s, t)
  PROVE  Keeps(r, t)
<1> SUFFICES ASSUME NEW i \in 1..Len(r), NEW j \in 1..Len(r), i < j
             PROVE  \E a, b \in 1..Len(t) : a < b /\ t[a] = r[i] /\ t[b] = r[j]
  BY DEF Keeps
<1>1. PICK a \in 1..Len(s), b \in 1..Len(s) : a < b /\ s[a] = r[i] /\ s[b] = r[j]
  BY DEF Keeps
<1>2. PICK p \in 1..Len(t), q \in 1..Len(t) : p < q /\ t[p] = s[a] /\ t[q] = s[b]
  BY <1>1 DEF Keeps
<1> QED BY <1>1, <1>2

(* The members of a list                                                   *)
LEMMA Members ==
  ASSUME NEW S, NEW s \in Seq(S)
  PROVE  /\ Range(s) = {s[i] : i \in 1..Len(s)} /\ Range(s) \subseteq S
         /\ Len(s) \in Nat /\ \A i \in 1..Len(s) : s[i] \in S
         /\ IsFiniteSet(Range(s))
<1>1. Range(s) = {s[i] : i \in 1..Len(s)} /\ Range(s) \subseteq S
  BY RangeEquality, RangeOfSeq
<1>2. Len(s) \in Nat /\ \A i \in 1..Len(s) : s[i] \in S
  BY LenProperties, ElementOfSeq
<1>3. IsFiniteSet(1..Len(s))
  BY <1>2, FS_Interval
<1>4. s \in Surjection(1..Len(s), Range(s))
  BY <1>1, LenProperties DEF Surjection
<1>5. IsFiniteSet(Range(s))
  <2> DEFINE n == Len(s)
  <2> HIDE DEF n
  <2> QED BY <1>3, <1>4, FS_Surjection
<1> QED BY <1>1, <1>2, <1>5

(* A part of a list, from one place to another                             *)
LEMMA Segment ==
  ASSUME NEW S, NEW s \in Seq(S), NEW m \in 1..Len(s) + 1, NEW n \in 0..Len(s)
  PROVE  /\ SubSeq(s, m, n) \in Seq(S)
         /\ Len(SubSeq(s, m, n)) = IF m <= n THEN n - m + 1 ELSE 0
         /\ \A i \in 1..Len(SubSeq(s, m, n)) : SubSeq(s, m, n)[i] = s[m + i - 1]
         /\ Range(SubSeq(s, m, n)) = {s[i] : i \in m..n}
         /\ Keeps(SubSeq(s, m, n), s)
<1> DEFINE r == SubSeq(s, m, n)
<1>1. m \in Int /\ n \in Int /\ Len(s) \in Nat /\ \A i \in m..n : i \in 1..Len(s)
  BY Members
<1>2. \A i \in m..n : s[i] \in S
  BY <1>1, Members
<1>3. /\ r \in Seq(S) /\ Len(r) = IF m <= n THEN n - m + 1 ELSE 0
      /\ \A i \in 1..n - m + 1 : r[i] = s[m + i - 1]
  BY <1>1, <1>2, SubSeqProperties
<1> HIDE DEF r
<1>4. \A i \in 1..Len(r) : r[i] = s[m + i - 1] /\ m + i - 1 \in m..n
  BY <1>1, <1>3
<1>5. Range(r) = {s[i] : i \in m..n}
  <2>1. Range(r) = {r[i] : i \in 1..Len(r)}
    BY <1>3, Members
  <2>2. \A i \in m..n : i - m + 1 \in 1..Len(r) /\ r[i - m + 1] = s[i]
    <3> TAKE i \in m..n
    <3>1. i - m + 1 \in 1..Len(r) /\ m + (i - m + 1) - 1 = i
      BY <1>1, <1>3
    <3> QED BY <1>4, <3>1
  <2>3. \A x \in Range(r) : x \in {s[i] : i \in m..n}
    BY <1>4, <2>1
  <2>4. \A x \in {s[i] : i \in m..n} : x \in Range(r)
    BY <2>1, <2>2
  <2> QED BY <2>3, <2>4
<1>6. Keeps(r, s)
  <2> SUFFICES ASSUME NEW i \in 1..Len(r), NEW j \in 1..Len(r), i < j
               PROVE  \E a, b \in 1..Len(s) : a < b /\ s[a] = r[i] /\ s[b] = r[j]
    BY DEF Keeps
  <2>1. m + i - 1 \in 1..Len(s) /\ m + j - 1 \in 1..Len(s) /\ m + i - 1 < m + j - 1
    BY <1>1, <1>4
  <2> QED BY <1>4, <2>1
<1>7. \A i \in 1..Len(r) : r[i] = s[m + i - 1]
  BY <1>4
<1> QED BY <1>3, <1>5, <1>6, <1>7 DEF r

(* A list without the member at one place                                  *)
LEMMA Removed ==
  ASSUME NEW S, NEW s \in Seq(S), Distinct(s), NEW p \in 1..Len(s)
  PROVE  /\ RemoveAt(s, p) \in Seq(S) /\ Len(RemoveAt(s, p)) = Len(s) - 1
         /\ Range(RemoveAt(s, p)) = Range(s) \ {s[p]}
         /\ Keeps(RemoveAt(s, p), s)
<1> DEFINE u == SubSeq(s, 1, p - 1)
           v == SubSeq(s, p + 1, Len(s))
           r == RemoveAt(s, p)
<1>0. /\ Len(s) \in Nat /\ p \in Nat /\ 1 \in 1..Len(s) + 1 /\ p - 1 \in 0..Len(s)
      /\ p + 1 \in 1..Len(s) + 1 /\ Len(s) \in 0..Len(s)
  BY Members
<1>1. /\ u \in Seq(S) /\ Len(u) = (IF 1 <= p - 1 THEN p - 1 - 1 + 1 ELSE 0)
      /\ \A i \in 1..Len(u) : u[i] = s[1 + i - 1]
      /\ Range(u) = {s[i] : i \in 1..p - 1}
  BY <1>0, Segment
<1>2. /\ v \in Seq(S)
      /\ Len(v) = (IF p + 1 <= Len(s) THEN Len(s) - (p + 1) + 1 ELSE 0)
      /\ \A i \in 1..Len(v) : v[i] = s[p + 1 + i - 1]
      /\ Range(v) = {s[i] : i \in p + 1..Len(s)}
  BY <1>0, Segment
<1>3. r = u \o v
  BY DEF RemoveAt
<1> HIDE DEF r, u, v
<1>4. /\ r \in Seq(S) /\ Len(r) = Len(u) + Len(v)
      /\ \A i \in 1..Len(u) + Len(v) : r[i] = IF i <= Len(u) THEN u[i] ELSE v[i - Len(u)]
      /\ Range(r) = Range(u) \cup Range(v)
  BY <1>1, <1>2, <1>3, ConcatProperties, RangeConcatenation
<1>5. Len(u) = p - 1 /\ Len(v) = Len(s) - p
  BY <1>0, <1>1, <1>2
<1>6. Len(r) = Len(s) - 1
  BY <1>0, <1>4, <1>5
<1>7. \A i \in 1..Len(r) : r[i] = s[IF i < p THEN i ELSE i + 1]
  <2> TAKE i \in 1..Len(r)
  <2>1. CASE i < p
    <3>1. i \in 1..Len(u) /\ i <= Len(u) /\ i \in 1..Len(u) + Len(v) /\ 1 + i - 1 = i
      BY <1>0, <1>4, <1>5, <2>1
    <3> QED BY <1>1, <1>4, <2>1, <3>1
  <2>2. CASE ~ (i < p)
    <3>1. /\ i - Len(u) \in 1..Len(v) /\ ~ (i <= Len(u)) /\ i \in 1..Len(u) + Len(v)
          /\ p + 1 + (i - Len(u)) - 1 = i + 1
      BY <1>0, <1>4, <1>5, <2>2
    <3> QED BY <1>2, <1>4, <2>2, <3>1
  <2> QED BY <2>1, <2>2
<1>8. Keeps(r, s)
  <2> SUFFICES ASSUME NEW i \in 1..Len(r), NEW j \in 1..Len(r), i < j
               PROVE  \E a, b \in 1..Len(s) : a < b /\ s[a] = r[i] /\ s[b] = r[j]
    BY DEF Keeps
  <2> DEFINE a == IF i < p THEN i ELSE i + 1
             b == IF j < p THEN j ELSE j + 1
  <2>1. a \in 1..Len(s) /\ b \in 1..Len(s) /\ a < b
    BY <1>0, <1>6
  <2>2. s[a] = r[i] /\ s[b] = r[j]
    BY <1>7
  <2> HIDE DEF a, b
  <2> QED BY <2>1, <2>2
<1>9. Range(r) = Range(s) \ {s[p]}
  <2>1. Range(s) = {s[i] : i \in 1..Len(s)}
    BY Members
  <2>2. \A i \in 1..Len(s) : i # p => s[i] # s[p]
    <3> TAKE i \in 1..Len(s)
    <3>1. i # p => i < p \/ p < i
      BY <1>0
    <3> QED BY <3>1 DEF Distinct
  <2>3. Range(r) = {s[i] : i \in 1..p - 1} \cup {s[i] : i \in p + 1..Len(s)}
    BY <1>1, <1>2, <1>4
  <2>4. \A i \in 1..Len(s) : i # p <=> i \in (1..p - 1) \cup (p + 1..Len(s))
    BY <1>0
  <2>5. (1..p - 1) \cup (p + 1..Len(s)) \subseteq 1..Len(s)
    BY <1>0
  <2> QED BY <2>1, <2>2, <2>3, <2>4, <2>5
<1> QED BY <1>4, <1>6, <1>8, <1>9 DEF r

(* A list with a new last member                                           *)
LEMMA Added ==
  ASSUME NEW S, NEW s \in Seq(S), Distinct(s), NEW k \in S, k \notin Range(s)
  PROVE  /\ Append(s, k) \in Seq(S) /\ Len(Append(s, k)) = Len(s) + 1
         /\ Range(Append(s, k)) = Range(s) \cup {k}
         /\ Distinct(Append(s, k))
         /\ \A i \in 1..Len(s) : Append(s, k)[i] = s[i]
         /\ Append(s, k)[Len(s) + 1] = k
<1> DEFINE r == Append(s, k)
<1>1. /\ r \in Seq(S) /\ Len(r) = Len(s) + 1 /\ \A i \in 1..Len(s) : r[i] = s[i]
      /\ r[Len(s) + 1] = k
  BY AppendProperties
<1>2. Range(r) = {r[i] : i \in 1..Len(r)} /\ Range(s) = {s[i] : i \in 1..Len(s)}
  BY <1>1, Members
<1>3. Len(s) \in Nat
  BY Members
<1> HIDE DEF r
<1>4. Range(r) = Range(s) \cup {k}
  <2>1. 1..Len(r) = (1..Len(s)) \cup {Len(s) + 1}
    BY <1>1, <1>3
  <2> QED BY <1>1, <1>2, <2>1
<1>5. Distinct(r)
  <2> SUFFICES ASSUME NEW i \in 1..Len(r), NEW j \in 1..Len(r), i < j
               PROVE  r[i] # r[j]
    BY DEF Distinct
  <2>1. i \in 1..Len(s) /\ (j \in 1..Len(s) \/ j = Len(s) + 1)
    BY <1>1, <1>3
  <2> QED BY <1>1, <1>2, <2>1 DEF Distinct
<1> QED BY <1>1, <1>4, <1>5 DEF r

-----------------------------------------------------------------------------
(* Caches                                                                  *)

\* The list is without repetition, and a size is recorded for what is in it.
Sound(c) ==
  /\ c \in CacheValue
  /\ Distinct(c.lru)
  /\ \A k \in Key : c.size[k] > 0 <=> k \in Cached(c)

(* The fields of a cache, and what its sizes add up to                     *)
LEMMA Fields ==
  ASSUME NEW c, c \in CacheValue
  PROVE  /\ c.lru \in Seq(Key) /\ c.size \in [Key -> Nat] /\ c.timers \in SUBSET Key
         /\ Cached(c) \in SUBSET Key /\ IsFiniteSet(Cached(c))
         /\ Used(c) = SumFunctionOnSet(c.size, Key) /\ Used(c) \in Nat
<1>1. c.lru \in Seq(Key) /\ c.size \in [Key -> Nat] /\ c.timers \in SUBSET Key
  BY DEF CacheValue
<1>2. Cached(c) \in SUBSET Key /\ IsFiniteSet(Cached(c))
  BY <1>1, Members DEF Cached
<1>3. Used(c) = SumFunctionOnSet(c.size, Key)
  BY <1>1 DEF Used, SumFunction
<1>4. SumFunctionOnSet(c.size, Key) \in Nat
  BY <1>1, KeyAssumption, SumOfSizes
<1> QED BY <1>1, <1>2, <1>3, <1>4

(* What is not in the map has the recorded size 0.                         *)
LEMMA UsedByCached ==
  ASSUME NEW c, Sound(c)
  PROVE  /\ Used(c) = SumFunctionOnSet(c.size, Cached(c))
         /\ \A k \in Key \ Cached(c) : c.size[k] = 0
<1>1. /\ c.size \in [Key -> Nat] /\ Cached(c) \in SUBSET Key
      /\ Used(c) = SumFunctionOnSet(c.size, Key)
  BY Fields DEF Sound
<1>2. \A k \in Key \ Cached(c) : c.size[k] = 0
  BY <1>1 DEF Sound
<1>3. \A k \in Key : c.size[k] \in Nat
  BY <1>1
<1> QED BY <1>1, <1>2, <1>3, KeyAssumption, SumOfPart

(* The cache that is empty                                                 *)
LEMMA EmptyIs ==
  Sound(EmptyCache) /\ Cached(EmptyCache) = {} /\ Used(EmptyCache) = 0
<1>1. EmptyCache \in CacheValue
  BY EmptySeq DEF EmptyCache, CacheValue
<1>2. Cached(EmptyCache) = {}
  BY DEF EmptyCache, Cached, Range
<1>3. Sound(EmptyCache)
  <2>1. Distinct(EmptyCache.lru)
    BY DEF EmptyCache, Distinct
  <2>2. \A k \in Key : EmptyCache.size[k] = 0
    BY DEF EmptyCache
  <2> QED BY <1>1, <1>2, <2>1, <2>2 DEF Sound
<1> QED BY <1>2, <1>3, UsedByCached, SumOfNone

(* Where a key is                                                          *)
LEMMA PositionIs ==
  ASSUME NEW c, c \in CacheValue, NEW k \in Cached(c)
  PROVE  Position(c, k) \in 1..Len(c.lru) /\ c.lru[Position(c, k)] = k
<1>1. \E i \in 1..Len(c.lru) : c.lru[i] = k
  BY Fields, Members DEF Cached
<1> QED BY <1>1 DEF Position

(* get: the map keeps its keys and sizes, the key moves to the end.        *)
LEMMA GetIs ==
  ASSUME NEW c, Sound(c), NEW k
  PROVE  /\ Sound(CacheGet(c, k))
         /\ Cached(CacheGet(c, k)) = Cached(c)
         /\ CacheGet(c, k).size = c.size /\ CacheGet(c, k).timers = c.timers
         /\ Used(CacheGet(c, k)) = Used(c)
         /\ k \in Cached(c)
              => \E r \in Seq(Key) : /\ CacheGet(c, k).lru = Append(r, k)
                                     /\ Keeps(r, c.lru) /\ k \notin Range(r)
<1>1. CASE k \notin Cached(c)
  BY <1>1 DEF CacheGet
<1>2. CASE k \in Cached(c)
  <2> DEFINE r == RemoveAt(c.lru, Position(c, k))
             d == CacheGet(c, k)
  <2>1. c.lru \in Seq(Key) /\ Distinct(c.lru) /\ k \in Key /\ c \in CacheValue
    BY <1>2, Fields DEF Sound
  <2>2. r \in Seq(Key) /\ Range(r) = Range(c.lru) \ {k} /\ Keeps(r, c.lru)
    BY <1>2, <2>1, PositionIs, Removed
  <2>3. Distinct(r) /\ k \notin Range(r)
    BY <2>1, <2>2, KeepsDistinct
  <2>4. d = [c EXCEPT !.lru = Append(r, k)]
    BY <1>2 DEF CacheGet
  <2> HIDE DEF r, d
  <2>5. /\ Append(r, k) \in Seq(Key) /\ Range(Append(r, k)) = Range(r) \cup {k}
        /\ Distinct(Append(r, k))
    BY <2>1, <2>2, <2>3, Added
  <2>6. /\ d \in CacheValue
        /\ d.lru = Append(r, k) /\ d.size = c.size /\ d.timers = c.timers
    BY <2>1, <2>4, <2>5 DEF CacheValue
  <2>7. Cached(d) = Cached(c)
    BY <1>2, <2>2, <2>5, <2>6 DEF Cached
  <2>8. Sound(d)
    BY <2>5, <2>6, <2>7 DEF Sound
  <2>9. Used(d) = Used(c)
    BY <2>6 DEF Used
  <2> QED BY <2>2, <2>3, <2>6, <2>7, <2>8, <2>9 DEF d
<1> QED BY <1>1, <1>2

(* Removing a key: the others keep their order and their sizes.            *)
LEMMA ForgetIs ==
  ASSUME NEW c, Sound(c), NEW k \in Key
  PROVE  /\ Sound(Forget(c, k))
         /\ Cached(Forget(c, k)) = Cached(c) \ {k}
         /\ Forget(c, k).size = [c.size EXCEPT ![k] = 0]
         /\ Forget(c, k).timers = c.timers
         /\ Keeps(Forget(c, k).lru, c.lru)
         /\ Used(Forget(c, k)) = Used(c) - c.size[k]
<1> DEFINE d == Forget(c, k)
<1>0. /\ c.lru \in Seq(Key) /\ c.size \in [Key -> Nat] /\ c.timers \in SUBSET Key
      /\ c \in CacheValue /\ Distinct(c.lru)
  BY Fields DEF Sound
<1>1. /\ d \in CacheValue /\ Cached(d) = Cached(c) \ {k}
      /\ d.size = [c.size EXCEPT ![k] = 0] /\ d.timers = c.timers
      /\ Keeps(d.lru, c.lru)
  <2>1. CASE k \notin Cached(c)
    <3>1. d = c /\ c.size[k] = 0
      BY <2>1, UsedByCached DEF Forget
    <3>2. c.size = [c.size EXCEPT ![k] = 0]
      BY <1>0, <3>1
    <3>3. Keeps(c.lru, c.lru)
      BY DEF Keeps
    <3> QED BY <1>0, <2>1, <3>1, <3>2, <3>3
  <2>2. CASE k \in Cached(c)
    <3> DEFINE r == RemoveAt(c.lru, Position(c, k))
    <3>1. r \in Seq(Key) /\ Range(r) = Range(c.lru) \ {k} /\ Keeps(r, c.lru)
      <4>1. Position(c, k) \in 1..Len(c.lru) /\ c.lru[Position(c, k)] = k
        BY <1>0, <2>2, PositionIs
      <4> QED BY <1>0, <4>1, Removed
    <3>2. d = [c EXCEPT !.lru = r, !.size[k] = 0]
      BY <2>2 DEF Forget
    <3> HIDE DEF r, d
    <3>3. /\ d \in CacheValue
          /\ d.lru = r /\ d.size = [c.size EXCEPT ![k] = 0] /\ d.timers = c.timers
      BY <1>0, <3>1, <3>2 DEF CacheValue
    <3> QED BY <3>1, <3>3 DEF Cached
  <2> QED BY <2>1, <2>2
<1>2. Sound(d)
  <2>1. Distinct(d.lru)
    BY <1>0, <1>1, KeepsDistinct
  <2>2. \A x \in Key : d.size[x] > 0 <=> x \in Cached(d)
    BY <1>0, <1>1 DEF Sound
  <2> QED BY <1>1, <2>1, <2>2 DEF Sound
<1>3. Used(d) = Used(c) - c.size[k]
  <2>1. Used(d) = SumFunctionOnSet([c.size EXCEPT ![k] = 0], Key)
    BY <1>1, Fields
  <2>2. Used(c) = SumFunctionOnSet(c.size, Key) /\ Used(c) \in Nat
    BY <1>0, Fields
  <2>3. Used(d) = Used(c) - c.size[k] + 0
    BY <1>0, <2>1, <2>2, KeyAssumption, SumExcept
  <2> QED BY <1>0, <2>2, <2>3
<1> QED BY <1>1, <1>2, <1>3

(* delete: like removing, and the timer of the key is gone.                *)
LEMMA DeleteIs ==
  ASSUME NEW c, Sound(c), NEW k \in Key
  PROVE  /\ Sound(CacheDelete(c, k))
         /\ Cached(CacheDelete(c, k)) = Cached(c) \ {k}
         /\ CacheDelete(c, k).size = [c.size EXCEPT ![k] = 0]
         /\ CacheDelete(c, k).timers = c.timers \ {k}
         /\ Keeps(CacheDelete(c, k).lru, c.lru)
         /\ Used(CacheDelete(c, k)) = Used(c) - c.size[k]
<1> DEFINE f == Forget(c, k)
           d == CacheDelete(c, k)
<1>1. /\ Sound(f) /\ Cached(f) = Cached(c) \ {k} /\ f.size = [c.size EXCEPT ![k] = 0]
      /\ f.timers = c.timers /\ Keeps(f.lru, c.lru) /\ Used(f) = Used(c) - c.size[k]
  BY ForgetIs
<1>2. d = [f EXCEPT !.timers = @ \ {k}]
  BY DEF CacheDelete
<1> HIDE DEF d, f
<1>3. /\ d \in CacheValue /\ d.lru = f.lru /\ d.size = f.size
      /\ d.timers = f.timers \ {k}
  BY <1>1, <1>2 DEF Sound, CacheValue
<1> QED BY <1>1, <1>3 DEF Sound, Cached, Used, d

(* Arming a timer changes nothing else.                                    *)
LEMMA ArmIs ==
  ASSUME NEW c, Sound(c), NEW k \in Key
  PROVE  /\ Sound(Arm(c, k))
         /\ Arm(c, k).lru = c.lru /\ Arm(c, k).size = c.size
         /\ Arm(c, k).timers = c.timers \cup {k}
         /\ Cached(Arm(c, k)) = Cached(c) /\ Used(Arm(c, k)) = Used(c)
<1> DEFINE d == Arm(c, k)
<1>1. d = [c EXCEPT !.timers = @ \cup {k}]
  BY DEF Arm
<1> HIDE DEF d
<1>2. /\ d \in CacheValue /\ d.lru = c.lru /\ d.size = c.size
      /\ d.timers = c.timers \cup {k}
  BY <1>1 DEF Sound, CacheValue
<1> QED BY <1>2 DEF Sound, Cached, Used, d

(* The number of keys that are evicted to make room is the least number    *)
(* that does, if there is one; evicting all of them does.                  *)
LEMMA EvictionIs ==
  ASSUME NEW c, Sound(c), NEW size \in Nat, ~ TooLarge(size)
  PROVE  /\ EvictCount(c, size) \in 0..Len(c.lru)
         /\ Fits(c, EvictCount(c, size), size)
         /\ \A i \in 0..EvictCount(c, size) - 1 : ~ Fits(c, i, size)
<1> DEFINE A == {i \in 0..Len(c.lru) : Fits(c, i, size)} \cup {Len(c.lru)}
           n == EvictCount(c, size)
<1>0. c.lru \in Seq(Key) /\ Len(c.lru) \in Nat /\ n = Min(A)
  BY Fields, Members DEF Sound, EvictCount
<1>1. PICK m \in A : \A i \in A : m <= i
  <2>1. A \in SUBSET Nat /\ A # {}
    BY <1>0
  <2> HIDE DEF A
  <2> QED BY <2>1, SmallestNumber
<1>2. n \in A /\ \A i \in A : n <= i
  <2> HIDE DEF A, n
  <2> QED BY <1>0, <1>1 DEF Min
<1>3. Fits(c, Len(c.lru), size)
  <2>1. SubSeq(c.lru, Len(c.lru) + 1, Len(c.lru)) = <<>>
    BY <1>0, SubSeqEmpty
  <2>2. Range(<<>>) = {}
    BY DEF Range
  <2>3. SumFunctionOnSet(c.size, {}) + size <= MaxMemory
    BY SumOfNone, MaxMemoryAssumption DEF TooLarge
  <2> QED BY <2>1, <2>2, <2>3 DEF Fits
<1>4. \A i \in 0..n - 1 : i \in 0..Len(c.lru) /\ ~ (n <= i)
  <2> HIDE DEF n
  <2> QED BY <1>0, <1>2
<1> HIDE DEF n
<1>5. n \in 0..Len(c.lru) /\ Fits(c, n, size)
  BY <1>0, <1>2, <1>3
<1>6. \A i \in 0..n - 1 : ~ Fits(c, i, size)
  BY <1>2, <1>4
<1> QED BY <1>5, <1>6 DEF n

(* The evicted keys are the first of the list, and the others its rest.    *)
LEMMA EvictedIs ==
  ASSUME NEW c, Sound(c), NEW n \in 0..Len(c.lru)
  PROVE  /\ Range(SubSeq(c.lru, 1, n)) = {c.lru[i] : i \in 1..n}
         /\ Range(SubSeq(c.lru, n + 1, Len(c.lru))) = Cached(c) \ Range(SubSeq(c.lru, 1, n))
         /\ Range(SubSeq(c.lru, 1, n)) \subseteq Cached(c)
         /\ SubSeq(c.lru, n + 1, Len(c.lru)) \in Seq(Key)
         /\ Keeps(SubSeq(c.lru, n + 1, Len(c.lru)), c.lru)
<1> DEFINE s == c.lru
<1>0. s \in Seq(Key) /\ Len(s) \in Nat /\ Distinct(s) /\ Cached(c) = {s[i] : i \in 1..Len(s)}
  BY Fields, Members DEF Sound, Cached
<1> HIDE DEF s
<1>1. 1 \in 1..Len(s) + 1 /\ n + 1 \in 1..Len(s) + 1 /\ Len(s) \in 0..Len(s)
      /\ n \in 0..Len(s)
  BY <1>0 DEF s
<1>2. /\ Range(SubSeq(s, 1, n)) = {s[i] : i \in 1..n}
      /\ Range(SubSeq(s, n + 1, Len(s))) = {s[i] : i \in n + 1..Len(s)}
      /\ SubSeq(s, n + 1, Len(s)) \in Seq(Key) /\ Keeps(SubSeq(s, n + 1, Len(s)), s)
  BY <1>0, <1>1, Segment
<1>3. \A i \in 1..n : \A j \in n + 1..Len(s) : s[i] # s[j]
  <2> SUFFICES ASSUME NEW i \in 1..n, NEW j \in n + 1..Len(s) PROVE s[i] # s[j]
    OBVIOUS
  <2>1. i \in 1..Len(s) /\ j \in 1..Len(s) /\ i < j
    BY <1>0, <1>1
  <2> QED BY <1>0, <2>1 DEF Distinct
<1>4. /\ \A i \in 1..Len(s) : i \in 1..n \/ i \in n + 1..Len(s)
      /\ 1..n \subseteq 1..Len(s) /\ n + 1..Len(s) \subseteq 1..Len(s)
  BY <1>0, <1>1
<1>5. {s[i] : i \in n + 1..Len(s)} = {s[i] : i \in 1..Len(s)} \ {s[i] : i \in 1..n}
  BY <1>3, <1>4
<1>6. {s[i] : i \in 1..n} \subseteq {s[i] : i \in 1..Len(s)}
  BY <1>4
<1> QED BY <1>0, <1>2, <1>5, <1>6 DEF s

(* set, when the value is stored: what is not evicted keeps its order and  *)
(* its size, the total stays within the capacity, and one key less would   *)
(* not have been enough.                                                   *)
LEMMA StoreIs ==
  ASSUME NEW c, Sound(c), NEW k \in Key \ Cached(c), NEW size \in Nat \ {0},
         ~ TooLarge(size)
  PROVE  /\ Sound(Store(c, k, size))
         /\ Evicted(c, size) \subseteq Cached(c)
         /\ Cached(Store(c, k, size)) = (Cached(c) \ Evicted(c, size)) \cup {k}
         /\ Store(c, k, size).timers = c.timers
         /\ Store(c, k, size).size
              = [x \in Key |-> IF x = k THEN size
                               ELSE IF x \in Evicted(c, size) THEN 0 ELSE c.size[x]]
         /\ \E r \in Seq(Key) : /\ Store(c, k, size).lru = Append(r, k)
                                /\ Keeps(r, c.lru) /\ k \notin Range(r)
         /\ Used(Store(c, k, size)) <= MaxMemory
         /\ Used(Store(c, k, size)) + SumFunctionOnSet(c.size, Evicted(c, size))
              = Used(c) + size
<1> DEFINE n == EvictCount(c, size)
           E == Evicted(c, size)
           r == SubSeq(c.lru, n + 1, Len(c.lru))
           d == Store(c, k, size)
           s == [x \in Key |-> IF x = k THEN size ELSE IF x \in E THEN 0 ELSE c.size[x]]
<1>0. /\ c \in CacheValue /\ c.lru \in Seq(Key) /\ c.size \in [Key -> Nat]
      /\ Cached(c) \in SUBSET Key /\ IsFiniteSet(Cached(c)) /\ c.timers \in SUBSET Key
  BY Fields DEF Sound
<1>1. n \in 0..Len(c.lru) /\ Fits(c, n, size)
  BY EvictionIs
<1>2. /\ E \subseteq Cached(c) /\ Range(r) = Cached(c) \ E
      /\ r \in Seq(Key) /\ Keeps(r, c.lru)
  BY <1>1, EvictedIs DEF Evicted
<1>3. d = [c EXCEPT !.lru = Append(r, k), !.size = s]
  BY DEF Store
<1>4. SumFunctionOnSet(c.size, Range(r)) + size <= MaxMemory
  BY <1>1 DEF Fits
<1> HIDE DEF n, E, r, d
<1>5. Distinct(r) /\ k \notin Range(r)
  BY <1>2, KeepsDistinct DEF Sound
<1>6. /\ Append(r, k) \in Seq(Key) /\ Range(Append(r, k)) = Range(r) \cup {k}
      /\ Distinct(Append(r, k))
  BY <1>2, <1>5, Added
<1>7. s \in [Key -> Nat]
  BY <1>0
<1>8. /\ d \in CacheValue /\ d.lru = Append(r, k) /\ d.size = s /\ d.timers = c.timers
  <2> HIDE DEF s
  <2> QED BY <1>0, <1>3, <1>6, <1>7 DEF CacheValue
<1>9. Cached(d) = (Cached(c) \ E) \cup {k}
  BY <1>2, <1>6, <1>8 DEF Cached
<1>10. Sound(d)
  <2>1. \A x \in Key : s[x] > 0 <=> x \in (Cached(c) \ E) \cup {k}
    BY <1>0 DEF Sound
  <2> HIDE DEF s
  <2> QED BY <1>6, <1>8, <1>9, <2>1 DEF Sound
<1>11. Used(d) = size + SumFunctionOnSet(c.size, Cached(c) \ E)
  <2>1. Used(d) = SumFunctionOnSet(s, Cached(d)) /\ IsFiniteSet(Cached(d))
    BY <1>8, <1>10, UsedByCached, Fields
  <2>2. \A x \in Cached(d) : s[x] \in Nat
    BY <1>7, <1>8, Fields
  <2>3. k \in Cached(d) /\ s[k] = size /\ Cached(d) \ {k} = Cached(c) \ E
    BY <1>9
  <2>4. SumFunctionOnSet(s, Cached(d))
          = s[k] + SumFunctionOnSet(s, Cached(d) \ {k})
    <3> HIDE DEF s
    <3> QED BY <2>1, <2>2, <2>3, SumWithout
  <2>5. SumFunctionOnSet(s, Cached(c) \ E) = SumFunctionOnSet(c.size, Cached(c) \ E)
    <3>1. \A x \in Cached(c) \ E : s[x] = c.size[x]
      BY <1>0
    <3>2. IsFiniteSet(Cached(c) \ E)
      BY <1>0, FS_Subset
    <3> HIDE DEF s
    <3> QED BY <3>1, <3>2, SumOfSame
  <2> HIDE DEF s
  <2> QED BY <2>1, <2>3, <2>4, <2>5
<1>12. /\ Used(c) = SumFunctionOnSet(c.size, E) + SumFunctionOnSet(c.size, Cached(c) \ E)
       /\ SumFunctionOnSet(c.size, E) \in Nat
       /\ SumFunctionOnSet(c.size, Cached(c) \ E) \in Nat
  <2>1. Used(c) = SumFunctionOnSet(c.size, Cached(c))
    BY UsedByCached
  <2>2. \A x \in Cached(c) : c.size[x] \in Nat
    BY <1>0
  <2> QED BY <1>0, <1>2, <2>1, <2>2, SumOfPart
<1>13. Used(d) <= MaxMemory
  <2>1. SumFunctionOnSet(c.size, Cached(c) \ E) + size <= MaxMemory
    BY <1>2, <1>4
  <2> QED BY <1>11, <1>12, <2>1, MaxMemoryAssumption
<1>14. Used(d) + SumFunctionOnSet(c.size, E) = Used(c) + size
  BY <1>11, <1>12
<1> HIDE DEF s
<1>15. \E q \in Seq(Key) : d.lru = Append(q, k) /\ Keeps(q, c.lru) /\ k \notin Range(q)
  BY <1>2, <1>5, <1>8
<1> QED BY <1>2, <1>8, <1>9, <1>10, <1>13, <1>14, <1>15 DEF d, s, E

(* The last key that is evicted had to be: with it, the value that is      *)
(* stored would not have fitted.                                           *)
LEMMA LastEvicted ==
  ASSUME NEW c, Sound(c), NEW k \in Key \ Cached(c), NEW size \in Nat \ {0},
         ~ TooLarge(size), Evicted(c, size) # {}
  PROVE  \E n \in 1..Len(c.lru) :
           /\ Evicted(c, size) = {c.lru[i] : i \in 1..n}
           /\ Used(Store(c, k, size)) + c.size[c.lru[n]] > MaxMemory
<1> DEFINE n == EvictCount(c, size)
           E == Evicted(c, size)
           s == c.lru
           d == Store(c, k, size)
           rest == Cached(c) \ E
<1>0. /\ s \in Seq(Key) /\ Len(s) \in Nat /\ c.size \in [Key -> Nat] /\ Distinct(s)
      /\ Cached(c) \in SUBSET Key /\ IsFiniteSet(Cached(c)) /\ c \in CacheValue
      /\ Cached(c) = {s[i] : i \in 1..Len(s)}
  BY Fields, Members DEF Sound, Cached
<1>1. n \in 0..Len(s) /\ \A i \in 0..n - 1 : ~ Fits(c, i, size)
  BY EvictionIs
<1>2. E = {s[i] : i \in 1..n} /\ E \subseteq Cached(c)
  BY <1>1, EvictedIs DEF Evicted
<1>3. n \in 1..Len(s) /\ n - 1 \in 0..Len(s) /\ n - 1 \in 0..n - 1
  <2>1. n # 0
    <3>1. n = 0 => 1..n = {}
      BY <1>0
    <3> QED BY <1>2, <3>1
  <2> QED BY <1>0, <1>1, <2>1
<1> DEFINE x == s[n]
           kept == Range(SubSeq(s, n - 1 + 1, Len(s)))
<1>4. kept = Cached(c) \ {s[i] : i \in 1..n - 1}
  BY <1>3, EvictedIs
<1>5. x \in kept /\ kept \ {x} = rest /\ kept \subseteq Cached(c)
  <2>1. \A i \in 1..n - 1 : s[i] # x
    <3> SUFFICES ASSUME NEW i \in 1..n - 1 PROVE s[i] # x
      OBVIOUS
    <3>1. i \in 1..Len(s) /\ n \in 1..Len(s) /\ i < n
      BY <1>0, <1>3
    <3> QED BY <1>0, <3>1 DEF Distinct
  <2>2. x \in Cached(c)
    BY <1>0, <1>3
  <2>3. \A i \in 1..n : i \in 1..n - 1 \/ i = n
    BY <1>3
  <2>4. 1..n - 1 \subseteq 1..n /\ n \in 1..n
    BY <1>3
  <2> HIDE DEF n, s
  <2>5. E = {s[i] : i \in 1..n - 1} \cup {x}
    BY <1>2, <2>3, <2>4
  <2> QED BY <1>4, <2>1, <2>2, <2>5 DEF n, s
<1>6. SumFunctionOnSet(c.size, kept) = c.size[x] + SumFunctionOnSet(c.size, rest)
  <2>1. IsFiniteSet(kept) /\ \A y \in kept : c.size[y] \in Nat
    BY <1>0, <1>5, FS_Subset
  <2> HIDE DEF kept, x, rest
  <2> QED BY <2>1, <1>5, SumWithout
<1>7. ~ (SumFunctionOnSet(c.size, kept) + size <= MaxMemory)
  BY <1>1, <1>3 DEF Fits
<1>8. Used(d) + SumFunctionOnSet(c.size, E) = Used(c) + size /\ Used(d) \in Nat
  <2>1. Used(d) + SumFunctionOnSet(c.size, E) = Used(c) + size /\ Sound(d)
    BY StoreIs
  <2> QED BY <2>1, Fields DEF Sound
<1>9. /\ Used(c) = SumFunctionOnSet(c.size, E) + SumFunctionOnSet(c.size, rest)
      /\ SumFunctionOnSet(c.size, E) \in Nat /\ SumFunctionOnSet(c.size, rest) \in Nat
  <2>1. Used(c) = SumFunctionOnSet(c.size, Cached(c))
    BY UsedByCached
  <2>2. \A y \in Cached(c) : c.size[y] \in Nat
    BY <1>0
  <2> QED BY <1>0, <1>2, <2>1, <2>2, SumOfPart
<1>10. c.size[x] \in Nat
  BY <1>0, <1>5
<1>11. Used(d) + c.size[x] > MaxMemory
  <2> HIDE DEF d, E, rest, kept, x
  <2> QED BY <1>6, <1>7, <1>8, <1>9, <1>10, MaxMemoryAssumption
<1> QED BY <1>2, <1>3, <1>11

(* The size of what delete removes is the size that was recorded.          *)
LEMMA RemovedSize ==
  ASSUME NEW c, Sound(c), NEW k \in Key
  PROVE  SumFunctionOnSet(c.size, DeleteRemoves(c, k)) = c.size[k]
<1>1. CASE k \in Cached(c)
  <2>1. /\ DeleteRemoves(c, k) = {k} /\ IsFiniteSet({k}) /\ {k} \ {k} = {}
        /\ c.size[k] \in Nat
    <3>1. DeleteRemoves(c, k) = {k}
      BY <1>1 DEF DeleteRemoves
    <3>2. c.size[k] \in Nat
      BY Fields DEF Sound
    <3> QED BY <3>1, <3>2, FS_Singleton
  <2>2. SumFunctionOnSet(c.size, {k}) = c.size[k] + SumFunctionOnSet(c.size, {k} \ {k})
    BY <2>1, SumWithout
  <2> QED BY <2>1, <2>2, SumOfNone
<1>2. CASE k \notin Cached(c)
  BY <1>2, SumOfNone, UsedByCached DEF DeleteRemoves
<1> QED BY <1>1, <1>2

(* set, whatever lru-cache does with the value: the timer of the key is    *)
(* armed, 'remove' is emitted for the keys that left, the others keep      *)
(* their order, and the total grows by no more than the value.             *)
LEMMA SetIs ==
  ASSUME NEW c, Sound(c), NEW k \in Key, NEW size \in Nat
  PROVE  /\ Sound(CacheSet(c, k, size))
         /\ CacheSet(c, k, size).timers = c.timers \cup {k}
         /\ SetRemoves(c, k, size) = Cached(c) \ Cached(CacheSet(c, k, size))
         /\ Cached(CacheSet(c, k, size)) \subseteq Cached(c) \cup {k}
         /\ Used(c) <= MaxMemory => Used(CacheSet(c, k, size)) <= MaxMemory
         /\ Used(CacheSet(c, k, size)) + SumFunctionOnSet(c.size, SetRemoves(c, k, size))
              <= Used(c) + size
         /\ \/ /\ SetThrows(size) \/ TooLarge(size)
               /\ Keeps(CacheSet(c, k, size).lru, c.lru)
            \/ /\ ~ SetThrows(size) /\ ~ TooLarge(size)
               /\ \E r \in Seq(Key) : /\ CacheSet(c, k, size).lru = Append(r, k)
                                      /\ Keeps(r, c.lru) /\ k \notin Range(r)
<1> DEFINE a == Arm(c, k)
           f == Forget(a, k)
           d == CacheSet(c, k, size)
           R == SetRemoves(c, k, size)
<1>0. /\ c.lru \in Seq(Key) /\ c.size \in [Key -> Nat] /\ c.timers \in SUBSET Key
      /\ Cached(c) \in SUBSET Key /\ Used(c) \in Nat /\ c \in CacheValue
  BY Fields DEF Sound
<1>1. /\ Sound(a) /\ a.lru = c.lru /\ a.size = c.size /\ a.timers = c.timers \cup {k}
      /\ Cached(a) = Cached(c) /\ Used(a) = Used(c)
  BY ArmIs
<1>2. /\ Sound(f) /\ Cached(f) = Cached(c) \ {k} /\ f.size = [c.size EXCEPT ![k] = 0]
      /\ f.timers = c.timers \cup {k} /\ Keeps(f.lru, c.lru)
      /\ Used(f) = Used(c) - c.size[k]
  <2> HIDE DEF a
  <2>1. /\ Sound(f) /\ Cached(f) = Cached(a) \ {k} /\ f.size = [a.size EXCEPT ![k] = 0]
        /\ f.timers = a.timers /\ Keeps(f.lru, a.lru) /\ Used(f) = Used(a) - a.size[k]
    BY <1>1, ForgetIs
  <2> QED BY <1>1, <2>1
<1>3. CASE SetThrows(size)
  <2>1. d = a /\ R = {} /\ size = 0
    <3>1. size = 0 /\ ~ TooLarge(size)
      BY <1>3, MaxMemoryAssumption DEF SetThrows, TooLarge
    <3>2. d = a /\ R = {}
      BY <1>3, <3>1 DEF CacheSet, SetRemoves
    <3> QED BY <3>1, <3>2
  <2>2. Keeps(c.lru, c.lru)
    BY DEF Keeps
  <2> HIDE DEF a, d, R
  <2>3. SumFunctionOnSet(c.size, R) = 0
    BY <2>1, SumOfNone
  <2>4. R = Cached(c) \ Cached(d) /\ Cached(d) \subseteq Cached(c) \cup {k}
    BY <1>1, <2>1
  <2> QED BY <1>0, <1>1, <1>3, <2>1, <2>2, <2>3, <2>4 DEF d, R
<1>4. CASE ~ SetThrows(size) /\ TooLarge(size)
  <2>1. d = f /\ R = Cached(c) \cap {k}
    BY <1>4 DEF CacheSet, SetRemoves
  <2> HIDE DEF f, d, R
  <2>2. SumFunctionOnSet(c.size, R) = c.size[k]
    BY <2>1, RemovedSize DEF DeleteRemoves
  <2>3. R = Cached(c) \ Cached(d) /\ Cached(d) \subseteq Cached(c) \cup {k}
    BY <1>2, <2>1
  <2>4. Used(d) = Used(c) - c.size[k] /\ c.size[k] \in Nat
    BY <1>0, <1>2, <2>1
  <2>5. /\ Used(c) <= MaxMemory => Used(d) <= MaxMemory
        /\ Used(d) + SumFunctionOnSet(c.size, R) <= Used(c) + size
    BY <1>0, <2>2, <2>4, MaxMemoryAssumption
  <2> QED BY <1>2, <1>4, <2>1, <2>3, <2>5 DEF d, R
<1>5. CASE ~ SetThrows(size) /\ ~ TooLarge(size)
  <2> DEFINE E == Evicted(f, size)
             g == Forget(c, k)
  <2>1. d = Store(f, k, size) /\ size \in Nat \ {0} /\ k \in Key \ Cached(f)
    <3>1. d = Store(f, k, size)
      BY <1>5 DEF CacheSet
    <3>2. size # 0
      BY <1>5 DEF SetThrows
    <3> QED BY <1>2, <3>1, <3>2
  <2>2. /\ Sound(g) /\ Cached(g) = Cached(c) \ {k} /\ g.size = [c.size EXCEPT ![k] = 0]
    BY ForgetIs
  <2>3. f.lru = g.lru
    BY <1>1 DEF Forget, Arm, Cached, Position, CacheValue, Sound
  <2>4. R = E
    <3>1. R = Evicted(g, size)
      BY <1>5 DEF SetRemoves
    <3> QED BY <1>2, <2>2, <2>3, <3>1 DEF Evicted, EvictCount, Fits
  <2> HIDE DEF f, d, R, E, g
  <2>5. /\ Sound(d) /\ E \subseteq Cached(f) /\ Cached(d) = (Cached(f) \ E) \cup {k}
        /\ d.timers = f.timers
        /\ \E r \in Seq(Key) : d.lru = Append(r, k) /\ Keeps(r, f.lru) /\ k \notin Range(r)
        /\ Used(d) <= MaxMemory
        /\ Used(d) + SumFunctionOnSet(f.size, E) = Used(f) + size
    BY <1>2, <1>5, <2>1, StoreIs DEF E
  <2>6. R = Cached(c) \ Cached(d) /\ Cached(d) \subseteq Cached(c) \cup {k}
    BY <1>2, <2>4, <2>5
  <2>7. SumFunctionOnSet(f.size, E) = SumFunctionOnSet(c.size, E)
    <3>1. \A x \in E : f.size[x] = c.size[x]
      BY <1>0, <1>2, <2>5
    <3>2. IsFiniteSet(E)
      BY <1>2, <2>5, Fields, FS_Subset DEF Sound
    <3> QED BY <3>1, <3>2, SumOfSame
  <2>8. Used(d) + SumFunctionOnSet(c.size, R) <= Used(c) + size
    <3>1. c.size[k] \in Nat
      BY <1>0
    <3>2. Used(d) + SumFunctionOnSet(c.size, R) = Used(f) + size
      BY <2>4, <2>5, <2>7
    <3> QED BY <1>0, <1>2, <3>1, <3>2
  <2>9. \E r \in Seq(Key) : d.lru = Append(r, k) /\ Keeps(r, c.lru) /\ k \notin Range(r)
    <3>1. PICK r \in Seq(Key) : d.lru = Append(r, k) /\ Keeps(r, f.lru) /\ k \notin Range(r)
      BY <2>5
    <3>2. Keeps(r, c.lru)
      BY <1>2, <3>1, KeepsAll
    <3> QED BY <3>1, <3>2
  <2> QED BY <1>2, <1>5, <2>5, <2>6, <2>8, <2>9 DEF d, R
<1> QED BY <1>3, <1>4, <1>5

(* What set evicts are the first keys of the list, and all but the last of *)
(* them would not have been enough.                                        *)
LEMMA SetEvicts ==
  ASSUME NEW c, Sound(c), NEW k \in Key, NEW size \in Nat,
         ~ SetThrows(size), ~ TooLarge(size), SetRemoves(c, k, size) # {}
  PROVE  \E s \in Seq(Key), n \in Nat :
           /\ Keeps(s, c.lru) /\ n \in 1..Len(s)
           /\ SetRemoves(c, k, size) = {s[i] : i \in 1..n}
           /\ Used(CacheSet(c, k, size)) + c.size[s[n]] > MaxMemory
<1> DEFINE a == Arm(c, k)
           f == Forget(a, k)
           g == Forget(c, k)
           d == CacheSet(c, k, size)
<1>1. Sound(a) /\ a.lru = c.lru /\ a.size = c.size /\ Cached(a) = Cached(c)
  BY ArmIs
<1>2. /\ Sound(f) /\ Cached(f) = Cached(a) \ {k} /\ f.size = [a.size EXCEPT ![k] = 0]
      /\ Keeps(f.lru, a.lru)
  <2> HIDE DEF a
  <2> QED BY <1>1, ForgetIs
<1>3. g.size = [c.size EXCEPT ![k] = 0]
  BY ForgetIs
<1>4. f.lru = g.lru
  BY <1>1 DEF Forget, Arm, Cached, Position, CacheValue, Sound
<1>5. SetRemoves(c, k, size) = Evicted(f, size)
  <2>1. SetRemoves(c, k, size) = Evicted(g, size)
    BY DEF SetRemoves
  <2> QED BY <1>1, <1>2, <1>3, <1>4, <2>1 DEF Evicted, EvictCount, Fits
<1>6. d = Store(f, k, size) /\ size # 0
  <2>1. d = Store(f, k, size)
    BY DEF CacheSet
  <2>2. size # 0
    BY DEF SetThrows
  <2> QED BY <2>1, <2>2
<1> HIDE DEF a, f, g, d
<1>7. PICK n \in 1..Len(f.lru) :
        /\ Evicted(f, size) = {f.lru[i] : i \in 1..n}
        /\ Used(Store(f, k, size)) + f.size[f.lru[n]] > MaxMemory
  <2>1. k \in Key \ Cached(f) /\ size \in Nat \ {0} /\ Evicted(f, size) # {}
    BY <1>2, <1>5, <1>6
  <2> QED BY <1>2, <2>1, LastEvicted
<1>8. /\ f.lru \in Seq(Key) /\ f.lru[n] \in Cached(f) /\ Cached(f) \in SUBSET Key
      /\ c.size \in [Key -> Nat] /\ n \in Nat
  <2>1. f.lru \in Seq(Key) /\ Cached(f) \in SUBSET Key /\ c.size \in [Key -> Nat]
    BY <1>2, Fields DEF Sound
  <2> QED BY <2>1, Members DEF Cached
<1>9. f.size[f.lru[n]] = c.size[f.lru[n]]
  BY <1>1, <1>2, <1>8
<1>10. Used(d) + c.size[f.lru[n]] > MaxMemory
  BY <1>6, <1>7, <1>9
<1> QED BY <1>1, <1>2, <1>5, <1>7, <1>8, <1>10 DEF d

(* Sums are ordered as their summands are.                                 *)
LEMMA SumAtMost ==
  ASSUME NEW f, NEW g, NEW S, IsFiniteSet(S),
         \A x \in S : f[x] \in Nat /\ g[x] \in Nat /\ f[x] <= g[x]
  PROVE  SumFunctionOnSet(f, S) <= SumFunctionOnSet(g, S)
<1> DEFINE F(s) == SumFunctionOnSet(f, s)
           G(s) == SumFunctionOnSet(g, s)
           B == {s \in SUBSET S : ~ (F(s) <= G(s))}
<1>0. \A s \in SUBSET S : F(s) \in Nat /\ G(s) \in Nat
  BY SumOfSizes, FS_Subset
<1>1. ASSUME B # {} PROVE FALSE
  <2>1. PICK s \in B : \A t \in B : t \subseteq s => t = s
    <3>1. B \in SUBSET (SUBSET S)
      OBVIOUS
    <3> HIDE DEF B
    <3> QED BY <1>1, <3>1, SmallestSet
  <2> DEFINE y == First(s)
             t == s \ {y}
  <2>2. s # {}
    <3>1. s = {} => F(s) = 0 /\ G(s) = 0
      BY SumOfNone
    <3> HIDE DEF F, G
    <3> QED BY <3>1
  <2>3. y \in s /\ F(s) = f[y] + F(t) /\ G(s) = g[y] + G(t)
    BY <2>2, FirstIn, SumOfFirst, FS_Subset
  <2> HIDE DEF y
  <2>4. t \in SUBSET S /\ t \notin B
    BY <2>1, <2>3
  <2> HIDE DEF F, G, t
  <2>5. F(t) <= G(t) /\ F(t) \in Nat /\ G(t) \in Nat
    BY <1>0, <2>4
  <2>6. f[y] \in Nat /\ g[y] \in Nat /\ f[y] <= g[y]
    BY <2>3
  <2>7. F(s) <= G(s)
    BY <2>3, <2>5, <2>6
  <2> QED BY <2>1, <2>7
<1>2. S \notin B
  BY <1>1
<1> QED BY <1>2

(* What a set has stored, name by name                                     *)
LEMMA StoredSizes ==
  ASSUME NEW c, Sound(c), NEW k \in Key, NEW size \in Nat
  PROVE  /\ Store(c, k, size).size[k] = size
         /\ \A x \in Key \ ({k} \cup Evicted(c, size)) :
              Store(c, k, size).size[x] = c.size[x]
<1> DEFINE E == Evicted(c, size)
           s == [x \in Key |-> IF x = k THEN size ELSE IF x \in E THEN 0 ELSE c.size[x]]
           q == Append(SubSeq(c.lru, EvictCount(c, size) + 1, Len(c.lru)), k)
<1>1. c \in CacheValue
  BY Fields DEF Sound
<1>2. Store(c, k, size) = [c EXCEPT !.lru = q, !.size = s]
  BY DEF Store
<1>3. Store(c, k, size).size = s
  <2> HIDE DEF q, s
  <2> QED BY <1>1, <1>2 DEF CacheValue
<1>4. s[k] = size /\ \A x \in Key \ ({k} \cup E) : s[x] = c.size[x]
  <2> HIDE DEF E
  <2> QED OBVIOUS
<1> HIDE DEF s
<1> QED BY <1>3, <1>4

(* set, name by name: a value is recorded with its size, unless lru-cache  *)
(* refuses it, and what stays in the map keeps its own.                    *)
LEMMA SetSizes ==
  ASSUME NEW c, Sound(c), NEW k \in Key, NEW size \in Nat
  PROVE  /\ \A x \in Cached(CacheSet(c, k, size)) :
              \/ x \in Cached(c) /\ CacheSet(c, k, size).size[x] = c.size[x]
                   /\ (x = k => SetThrows(size))
              \/ x = k /\ CacheSet(c, k, size).size[x] = size /\ ~ TooLarge(size)
         /\ ~ SetThrows(size) /\ ~ TooLarge(size) => k \in Cached(CacheSet(c, k, size))
         /\ ~ SetThrows(size) /\ TooLarge(size) => k \notin Cached(CacheSet(c, k, size))
<1> DEFINE a == Arm(c, k)
           f == Forget(a, k)
           d == CacheSet(c, k, size)
<1>0. c.size \in [Key -> Nat] /\ Cached(c) \in SUBSET Key
  BY Fields DEF Sound
<1>1. Sound(a) /\ a.size = c.size /\ Cached(a) = Cached(c)
  BY ArmIs
<1>2. Sound(f) /\ Cached(f) = Cached(c) \ {k} /\ f.size = [c.size EXCEPT ![k] = 0]
  <2> HIDE DEF a
  <2>1. Sound(f) /\ Cached(f) = Cached(a) \ {k} /\ f.size = [a.size EXCEPT ![k] = 0]
    BY <1>1, ForgetIs
  <2> QED BY <1>1, <2>1
<1>3. CASE SetThrows(size)
  <2>1. ~ TooLarge(size)
    BY <1>3, MaxMemoryAssumption DEF SetThrows, TooLarge
  <2>2. d = a
    BY <1>3, <2>1 DEF CacheSet
  <2> HIDE DEF a, d
  <2>3. \A x \in Cached(d) : x \in Cached(c) /\ d.size[x] = c.size[x]
    BY <1>1, <2>2
  <2> QED BY <1>3, <2>3 DEF d
<1>4. CASE ~ SetThrows(size) /\ TooLarge(size)
  <2>1. d = f
    BY <1>4 DEF CacheSet
  <2> HIDE DEF f, d
  <2>2. \A x \in Cached(d) : x \in Cached(c) /\ d.size[x] = c.size[x] /\ x # k
    BY <1>0, <1>2, <2>1
  <2> QED BY <1>4, <2>2 DEF d
<1>5. CASE ~ SetThrows(size) /\ ~ TooLarge(size)
  <2> DEFINE E == Evicted(f, size)
  <2>1. d = Store(f, k, size) /\ size \in Nat \ {0} /\ k \in Key \ Cached(f)
    <3>1. d = Store(f, k, size)
      BY <1>5 DEF CacheSet
    <3>2. size # 0
      BY <1>5 DEF SetThrows
    <3> QED BY <1>2, <3>1, <3>2
  <2> HIDE DEF f, d, E
  <2>2. /\ Cached(d) = (Cached(f) \ E) \cup {k}
        /\ d.size[k] = size /\ \A x \in Key \ ({k} \cup E) : d.size[x] = f.size[x]
    <3>1. Cached(d) = (Cached(f) \ E) \cup {k}
      BY <1>2, <1>5, <2>1, StoreIs DEF E
    <3>2. d.size[k] = size /\ \A x \in Key \ ({k} \cup E) : d.size[x] = f.size[x]
      <4>1. /\ Store(f, k, size).size[k] = size
            /\ \A x \in Key \ ({k} \cup Evicted(f, size)) :
                 Store(f, k, size).size[x] = f.size[x]
        BY <1>2, StoredSizes, Zenon
      <4> QED BY <2>1, <4>1 DEF E
    <3> QED BY <3>1, <3>2
  <2>3. d.size[k] = size
    BY <2>2
  <2>4. \A x \in Cached(d) \ {k} : x \in Cached(c) /\ d.size[x] = c.size[x]
    <3>1. ASSUME NEW x \in Cached(d) \ {k} PROVE x \in Cached(f) /\ d.size[x] = f.size[x]
      BY <1>0, <1>2, <2>2
    <3>2. \A x \in Cached(f) : x \in Cached(c) /\ f.size[x] = c.size[x]
      BY <1>0, <1>2
    <3> QED BY <3>1, <3>2
  <2>5. k \in Cached(d)
    BY <2>2
  <2> QED BY <1>5, <2>3, <2>4, <2>5 DEF d
<1> QED BY <1>3, <1>4, <1>5
=============================================================================
