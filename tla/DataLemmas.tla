----------------------------- MODULE DataLemmas -----------------------------
(***************************************************************************)
(* Facts about the data the models are built from: least members and an    *)
(* induction rule for sets of numbers, the sums of functions, what is      *)
(* written one part after the other, and the texts of UnicodeText.         *)
(***************************************************************************)
EXTENDS UnicodeText, FiniteSetTheorems, SequenceTheorems, WellFoundedInduction, TLAPS

\* A set of numbers that is not empty has a least member.
LEMMA LeastMember ==
    ASSUME NEW T \in SUBSET Nat, T # {}
    PROVE  \E m \in T : \A k \in T : m <= k
<1> DEFINE Less == OpToRel(<, Nat)
<1>1. \E m \in T : \A k \in T : ~(<<k, m>> \in Less)
  BY NatLessThanWellFounded, WFMin
<1>2. \A k, m \in Nat : k < m => <<k, m>> \in Less
  BY DEF OpToRel
<1> HIDE DEF Less
<1>3. PICK m \in T : \A k \in T : ~(<<k, m>> \in Less)
  BY <1>1
<1>4. \A k \in T : ~(k < m)
  BY <1>2, <1>3
<1>5. QED
  BY <1>3, <1>4

\* A set of numbers with a bound has a greatest member.
LEMMA GreatestMember ==
    ASSUME NEW T \in SUBSET Nat, T # {}, NEW n \in Nat, \A k \in T : k <= n
    PROVE  \E m \in T : \A k \in T : k <= m
<1> DEFINE U == {n - k : k \in T}
<1>1. U \in SUBSET Nat /\ U # {}
  <2>1. \A k \in T : k \in Nat /\ n - k \in Nat
    OBVIOUS
  <2>2. QED
    BY <2>1
<1>2. PICK u \in U : \A v \in U : u <= v
  <2> HIDE DEF U
  <2>1. QED
    BY <1>1, LeastMember
<1>3. PICK m \in T : u = n - m
  OBVIOUS
<1>4. \A k \in T : n - m <= n - k
  BY <1>2, <1>3
<1>5. QED
  BY <1>4

\* Induction, for a set of numbers.
LEMMA SetInduction ==
    ASSUME NEW T \in SUBSET Nat, 0 \in T, \A n \in T : n + 1 \in T
    PROVE  T = Nat
<1> SUFFICES ASSUME Nat \ T # {} PROVE FALSE
  OBVIOUS
<1>1. PICK m \in Nat \ T : \A k \in Nat \ T : m <= k
  BY LeastMember
<1>2. m - 1 \in Nat /\ m - 1 \in T
  BY <1>1
<1>3. QED
  BY <1>1, <1>2

-----------------------------------------------------------------------------
(* Sums *)

First(T) == CHOOSE x \in T : TRUE

\* The function that the sum of f over S is read from.
Partial(f, S) ==
    CHOOSE h : h = [T \in SUBSET S |-> IF T = {} THEN 0 ELSE f[First(T)] + h[T \ {First(T)}]]

LEMMA SumIsPartial == ASSUME NEW f, NEW S PROVE SumFunctionOnSet(f, S) = Partial(f, S)[S]
BY DEF SumFunctionOnSet, FoldFunctionOnSet, MapThenFoldSet, Partial, First

\* The recursion of Partial is well-founded on a finite set, so the function
\* exists and obeys it.
LEMMA PartialObeys ==
    ASSUME NEW f, NEW S, IsFiniteSet(S)
    PROVE  \A T \in SUBSET S : Partial(f, S)[T] =
                IF T = {} THEN 0 ELSE f[First(T)] + Partial(f, S)[T \ {First(T)}]
<1> DEFINE Small(n) == {T \in SUBSET S : Cardinality(T) <= n}
           Obeys(h, D) == h = [T \in D |-> IF T = {} THEN 0 ELSE f[First(T)] + h[T \ {First(T)}]]
           Good == {n \in Nat : \E h : Obeys(h, Small(n))}
<1>1. \A T \in SUBSET S : IsFiniteSet(T) /\ Cardinality(T) \in Nat
  BY FS_Subset, FS_CardinalityType
<1>2. \A T \in SUBSET S : T # {} =>
        /\ First(T) \in T /\ T \ {First(T)} \in SUBSET S
        /\ Cardinality(T \ {First(T)}) = Cardinality(T) - 1
  <2> SUFFICES ASSUME NEW T \in SUBSET S, T # {}
               PROVE  /\ First(T) \in T /\ T \ {First(T)} \in SUBSET S
                      /\ Cardinality(T \ {First(T)}) = Cardinality(T) - 1
    OBVIOUS
  <2>1. First(T) \in T
    BY DEF First
  <2>2. QED
    BY <1>1, <2>1, FS_RemoveElement
<1>3. 0 \in Good
  <2> DEFINE h == [T \in Small(0) |-> 0]
  <2>1. \A T \in Small(0) : T = {}
    BY <1>1, FS_EmptySet
  <2>2. Obeys(h, Small(0))
    BY <2>1
  <2>3. QED
    BY <2>2
<1>4. ASSUME NEW n \in Good PROVE n + 1 \in Good
  <2>1. PICK h : Obeys(h, Small(n))
    OBVIOUS
  <2> DEFINE g == [T \in Small(n + 1) |-> IF T = {} THEN 0 ELSE f[First(T)] + h[T \ {First(T)}]]
  <2>2. \A T \in Small(n + 1) : T # {} => T \ {First(T)} \in Small(n) /\ T \ {First(T)} \in Small(n + 1)
    BY <1>1, <1>2
  <2>3. \A T \in Small(n) : T \in Small(n + 1)
    BY <1>1
  <2>4. \A T \in Small(n) : h[T] = IF T = {} THEN 0 ELSE f[First(T)] + h[T \ {First(T)}]
    BY <2>1
  <2> HIDE DEF Small
  <2>5. \A T \in Small(n) : g[T] = h[T]
    BY <2>3, <2>4
  <2>6. Obeys(g, Small(n + 1))
    BY <2>2, <2>5
  <2> HIDE DEF g, Obeys
  <2>7. QED
    BY <2>6
<1>5. Good = Nat
  <2> HIDE DEF Good
  <2>1. Good \in SUBSET Nat
    BY DEF Good
  <2>2. QED
    BY <1>3, <1>4, <2>1, SetInduction
<1>6. Small(Cardinality(S)) = SUBSET S
  BY <1>1, FS_Subset
<1>7. PICK h : Obeys(h, SUBSET S)
  <2>1. Cardinality(S) \in Good
    BY <1>1, <1>5
  <2> HIDE DEF Small, Obeys
  <2>2. QED
    BY <1>6, <2>1
<1>8. Obeys(Partial(f, S), SUBSET S)
  BY <1>7 DEF Partial
<1>9. QED
  <2> HIDE DEF Small, Good
  <2>1. QED
    BY <1>8

\* What a sum of numbers is: a number, no smaller than any of them, and no
\* smaller than how many there are if none is zero.
LEMMA PartialBounds ==
    ASSUME NEW f, NEW S, IsFiniteSet(S), \A x \in S : f[x] \in Nat
    PROVE  \A T \in SUBSET S :
                /\ Partial(f, S)[T] \in Nat
                /\ \A x \in T : f[x] <= Partial(f, S)[T]
                /\ (\A x \in S : f[x] >= 1) => Cardinality(T) <= Partial(f, S)[T]
<1> DEFINE h == Partial(f, S)
           Bounds(T) == /\ h[T] \in Nat
                        /\ \A x \in T : f[x] <= h[T]
                        /\ (\A x \in S : f[x] >= 1) => Cardinality(T) <= h[T]
           Good == {n \in Nat : \A T \in SUBSET S : Cardinality(T) <= n => Bounds(T)}
<1>1. \A T \in SUBSET S : IsFiniteSet(T) /\ Cardinality(T) \in Nat
  BY FS_Subset, FS_CardinalityType
<1>2. \A T \in SUBSET S : h[T] = IF T = {} THEN 0 ELSE f[First(T)] + h[T \ {First(T)}]
  BY PartialObeys
<1> HIDE DEF h
<1>3. 0 \in Good
  <2>1. \A T \in SUBSET S : Cardinality(T) <= 0 => T = {}
    BY <1>1, FS_EmptySet
  <2>2. h[{}] = 0 /\ Cardinality({}) = 0
    BY <1>2, FS_EmptySet
  <2>3. Bounds({})
    BY <2>2
  <2> HIDE DEF Bounds
  <2>4. QED
    BY <2>1, <2>3
<1>4. ASSUME NEW n \in Good PROVE n + 1 \in Good
  <2> SUFFICES ASSUME NEW T \in SUBSET S, Cardinality(T) <= n + 1 PROVE Bounds(T)
    OBVIOUS
  <2>1. CASE T = {}
    BY <1>3, <2>1, FS_EmptySet
  <2>2. CASE T # {}
    <3> DEFINE x == First(T)
               R == T \ {x}
    <3>1. x \in T
      BY <2>2 DEF First
    <3>2. R \in SUBSET S /\ Cardinality(R) = Cardinality(T) - 1
      BY <1>1, <3>1, FS_RemoveElement
    <3>3. h[T] = f[x] + h[R]
      BY <1>2, <2>2
    <3> HIDE DEF x
    <3>4. \A y \in T : y = x \/ y \in R
      OBVIOUS
    <3> HIDE DEF R
    <3>5. Cardinality(R) \in Nat /\ Cardinality(T) \in Nat
      BY <1>1, <3>2
    <3>6. Bounds(R)
      BY <3>2, <3>5
    <3>7. f[x] \in Nat /\ h[R] \in Nat
      BY <3>1, <3>6
    <3>8. h[T] \in Nat
      BY <3>3, <3>7
    <3>9. ASSUME NEW y \in T PROVE f[y] <= h[T]
      <4>1. f[y] \in Nat
        OBVIOUS
      <4>2. CASE y = x
        BY <3>3, <3>7, <4>2
      <4>3. CASE y \in R
        BY <3>3, <3>6, <3>7, <4>1, <4>3
      <4>4. QED
        BY <3>4, <4>2, <4>3
    <3>10. ASSUME \A y \in S : f[y] >= 1 PROVE Cardinality(T) <= h[T]
      BY <3>1, <3>2, <3>3, <3>5, <3>6, <3>7, <3>10
    <3>11. QED
      BY <3>8, <3>9, <3>10
  <2>3. QED
    BY <2>1, <2>2
<1>5. Good = Nat
  <2> HIDE DEF Good
  <2>1. Good \in SUBSET Nat
    BY DEF Good
  <2>2. QED
    BY <1>3, <1>4, <2>1, SetInduction
<1>6. QED
  <2> SUFFICES ASSUME NEW T \in SUBSET S PROVE Bounds(T)
    BY DEF h
  <2>1. Cardinality(T) \in Good
    BY <1>1, <1>5
  <2>2. Cardinality(T) <= Cardinality(T)
    BY <1>1
  <2> HIDE DEF Bounds
  <2>3. QED
    BY <2>1, <2>2

\* The same for a sequence of numbers: the bytes of a text's characters, the
\* texts of a result's segments.
LEMMA SumBounds ==
    ASSUME NEW s, NEW n \in Nat, DOMAIN s = 1 .. n, \A i \in 1 .. n : s[i] \in Nat
    PROVE  /\ SumFunction(s) \in Nat
           /\ \A i \in 1 .. n : s[i] <= SumFunction(s)
           /\ (\A i \in 1 .. n : s[i] >= 1) => n <= SumFunction(s)
<1> DEFINE D == 1 .. n
<1>1. IsFiniteSet(D) /\ Cardinality(D) = n
  BY FS_Interval
<1>2. SumFunction(s) = Partial(s, D)[D]
  BY SumIsPartial DEF SumFunction
<1>3. D \in SUBSET D
  OBVIOUS
<1>4. \A i \in D : s[i] \in Nat
  OBVIOUS
<1> HIDE DEF D
<1>5. /\ Partial(s, D)[D] \in Nat
      /\ \A i \in D : s[i] <= Partial(s, D)[D]
      /\ (\A i \in D : s[i] >= 1) => Cardinality(D) <= Partial(s, D)[D]
  BY <1>1, <1>3, <1>4, PartialBounds
<1>6. QED
  BY <1>1, <1>2, <1>5 DEF D

\* Pointwise smaller functions have smaller sums.
LEMMA PartialMonotone ==
    ASSUME NEW f, NEW g, NEW S, IsFiniteSet(S),
           \A x \in S : f[x] \in Nat /\ g[x] \in Nat /\ f[x] <= g[x]
    PROVE  \A T \in SUBSET S : Partial(f, S)[T] <= Partial(g, S)[T]
<1> DEFINE Good == {n \in Nat : \A T \in SUBSET S : Cardinality(T) <= n =>
                                    Partial(f, S)[T] <= Partial(g, S)[T]}
<1>1. \A T \in SUBSET S : IsFiniteSet(T) /\ Cardinality(T) \in Nat
  BY FS_Subset, FS_CardinalityType
<1>2. \A T \in SUBSET S :
        /\ Partial(f, S)[T] = IF T = {} THEN 0 ELSE f[First(T)] + Partial(f, S)[T \ {First(T)}]
        /\ Partial(g, S)[T] = IF T = {} THEN 0 ELSE g[First(T)] + Partial(g, S)[T \ {First(T)}]
  BY PartialObeys
<1>3. \A T \in SUBSET S : Partial(f, S)[T] \in Nat /\ Partial(g, S)[T] \in Nat
  BY PartialBounds
<1>4. 0 \in Good
  <2>1. \A T \in SUBSET S : Cardinality(T) <= 0 => T = {}
    BY <1>1, FS_EmptySet
  <2>2. \A T \in SUBSET S : T = {} => Partial(f, S)[T] = 0 /\ Partial(g, S)[T] = 0
    BY <1>2
  <2>3. QED
    BY <2>1, <2>2
<1>5. ASSUME NEW n \in Good PROVE n + 1 \in Good
  <2> SUFFICES ASSUME NEW T \in SUBSET S, Cardinality(T) <= n + 1
               PROVE  Partial(f, S)[T] <= Partial(g, S)[T]
    OBVIOUS
  <2>1. CASE T = {}
    BY <1>2, <2>1
  <2>2. CASE T # {}
    <3> DEFINE x == First(T)
               R == T \ {x}
    <3>1. x \in T
      BY <2>2 DEF First
    <3>2. R \in SUBSET S /\ Cardinality(R) = Cardinality(T) - 1
      BY <1>1, <3>1, FS_RemoveElement
    <3>3. Cardinality(R) <= n
      BY <1>1, <3>2
    <3>4. Partial(f, S)[R] <= Partial(g, S)[R]
      BY <3>2, <3>3
    <3>5. /\ Partial(f, S)[T] = f[x] + Partial(f, S)[R]
          /\ Partial(g, S)[T] = g[x] + Partial(g, S)[R]
      BY <1>2, <2>2
    <3>6. /\ f[x] \in Nat /\ g[x] \in Nat /\ f[x] <= g[x]
          /\ Partial(f, S)[R] \in Nat /\ Partial(g, S)[R] \in Nat
      BY <1>3, <3>1, <3>2
    <3> HIDE DEF x, R
    <3>7. QED
      BY <3>4, <3>5, <3>6
  <2>3. QED
    BY <2>1, <2>2
<1>6. Good = Nat
  <2> HIDE DEF Good
  <2>1. Good \in SUBSET Nat
    BY DEF Good
  <2>2. QED
    BY <1>4, <1>5, <2>1, SetInduction
<1>7. QED
  <2> SUFFICES ASSUME NEW T \in SUBSET S PROVE Partial(f, S)[T] <= Partial(g, S)[T]
    OBVIOUS
  <2>1. Cardinality(T) \in Good /\ Cardinality(T) <= Cardinality(T)
    BY <1>1, <1>6
  <2>2. QED
    BY <2>1

\* The same for functions on an interval.
LEMMA SumMonotone ==
    ASSUME NEW s, NEW t, NEW n \in Nat, DOMAIN s = 1 .. n, DOMAIN t = 1 .. n,
           \A i \in 1 .. n : s[i] \in Nat /\ t[i] \in Nat /\ s[i] <= t[i]
    PROVE  SumFunction(s) <= SumFunction(t)
<1> DEFINE D == 1 .. n
<1>1. IsFiniteSet(D)
  BY FS_Interval
<1>2. SumFunction(s) = Partial(s, D)[D] /\ SumFunction(t) = Partial(t, D)[D]
  BY SumIsPartial DEF SumFunction
<1>3. D \in SUBSET D /\ \A i \in D : s[i] \in Nat /\ t[i] \in Nat /\ s[i] <= t[i]
  OBVIOUS
<1> HIDE DEF D
<1>4. Partial(s, D)[D] <= Partial(t, D)[D]
  BY <1>1, <1>3, PartialMonotone
<1>5. QED
  BY <1>2, <1>4

\* It does not matter which member a sum is begun with.
LEMMA PartialAny ==
    ASSUME NEW f, NEW S, IsFiniteSet(S), \A x \in S : f[x] \in Nat
    PROVE  \A T \in SUBSET S, x \in S : x \in T => Partial(f, S)[T] = f[x] + Partial(f, S)[T \ {x}]
<1> DEFINE h == Partial(f, S)
           Good == {n \in Nat : \A T \in SUBSET S : Cardinality(T) <= n =>
                                    \A x \in T : h[T] = f[x] + h[T \ {x}]}
<1>1. \A T \in SUBSET S : IsFiniteSet(T) /\ Cardinality(T) \in Nat /\ h[T] \in Nat
  BY FS_Subset, FS_CardinalityType, PartialBounds
<1>2. \A T \in SUBSET S : T # {} => First(T) \in T /\ h[T] = f[First(T)] + h[T \ {First(T)}]
  <2>1. \A T \in SUBSET S : h[T] = IF T = {} THEN 0 ELSE f[First(T)] + h[T \ {First(T)}]
    BY PartialObeys
  <2>2. \A T \in SUBSET S : T # {} => First(T) \in T
    BY DEF First
  <2> HIDE DEF h
  <2>3. QED
    BY <2>1, <2>2
<1> HIDE DEF h
<1>3. 0 \in Good
  <2>1. \A T \in SUBSET S : Cardinality(T) <= 0 => T = {}
    BY <1>1, FS_EmptySet
  <2>2. QED
    BY <2>1
<1>4. ASSUME NEW n \in Good PROVE n + 1 \in Good
  <2> SUFFICES ASSUME NEW T \in SUBSET S, Cardinality(T) <= n + 1, NEW x \in T
               PROVE  h[T] = f[x] + h[T \ {x}]
    OBVIOUS
  <2> DEFINE c == First(T)
  <2>1. c \in T /\ h[T] = f[c] + h[T \ {c}]
    BY <1>2
  <2> HIDE DEF c
  <2>2. CASE x = c
    BY <2>1, <2>2
  <2>3. CASE x # c
    <3> DEFINE A == T \ {c}
               B == T \ {x}
               R == A \ {x}
    <3>1. /\ A \in SUBSET S /\ B \in SUBSET S /\ x \in A /\ c \in B /\ R = B \ {c} /\ R \in SUBSET S
          /\ A = T \ {c} /\ B = T \ {x}
      BY <2>1, <2>3
    <3> HIDE DEF A, B, R
    <3>2. Cardinality(A) = Cardinality(T) - 1 /\ Cardinality(B) = Cardinality(T) - 1
      BY <1>1, <2>1, <3>1, FS_RemoveElement
    <3>3. Cardinality(A) <= n /\ Cardinality(B) <= n
      BY <1>1, <3>2
    <3>4. h[A] = f[x] + h[R]
      BY <3>1, <3>3 DEF R
    <3>5. h[B] = f[c] + h[R]
      BY <3>1, <3>3
    <3>6. f[x] \in Nat /\ f[c] \in Nat /\ h[R] \in Nat
      BY <1>1, <2>1, <3>1
    <3>7. h[T] = f[c] + h[A]
      BY <2>1, <3>1
    <3>8. h[T] = f[x] + h[B]
      BY <3>4, <3>5, <3>6, <3>7
    <3>9. QED
      BY <3>1, <3>8
  <2>4. QED
    BY <2>2, <2>3
<1>5. Good = Nat
  <2> HIDE DEF Good
  <2>1. Good \in SUBSET Nat
    BY DEF Good
  <2>2. QED
    BY <1>3, <1>4, <2>1, SetInduction
<1>6. QED
  <2> SUFFICES ASSUME NEW T \in SUBSET S, NEW x \in S, x \in T PROVE h[T] = f[x] + h[T \ {x}]
    BY DEF h
  <2>1. Cardinality(T) \in Good /\ Cardinality(T) <= Cardinality(T)
    BY <1>1, <1>5
  <2>2. QED
    BY <2>1

\* What a sum obeys, whatever member it is begun with.
Adds(f, S) ==
    /\ Partial(f, S)[{}] = 0
    /\ \A T \in SUBSET S, x \in S : x \in T => Partial(f, S)[T] = f[x] + Partial(f, S)[T \ {x}]

Natural(f, S) == IsFiniteSet(S) /\ \A x \in S : f[x] \in Nat

LEMMA PartialSums == ASSUME NEW f, NEW S, Natural(f, S) PROVE Adds(f, S)
<1>0. IsFiniteSet(S) /\ \A x \in S : f[x] \in Nat
  BY DEF Natural
<1>1. {} \in SUBSET S
  OBVIOUS
<1>2. \A T \in SUBSET S : Partial(f, S)[T] =
            IF T = {} THEN 0 ELSE f[First(T)] + Partial(f, S)[T \ {First(T)}]
  BY <1>0, PartialObeys
<1>3. \A T \in SUBSET S, x \in S : x \in T => Partial(f, S)[T] = f[x] + Partial(f, S)[T \ {x}]
  BY <1>0, PartialAny
<1>4. QED
  BY <1>1, <1>2, <1>3 DEF Adds

\* L pairs the members of D with those of S, and f and g agree on them.
Paired(D, S, L, f, g) ==
    /\ Natural(f, S) /\ Natural(g, D)
    /\ \A i \in D : L[i] \in S /\ g[i] = f[L[i]]
    /\ \A i, j \in D : L[i] = L[j] => i = j
    /\ \A x \in S : \E i \in D : L[i] = x

\* Sums over two sets whose members correspond are equal.
LEMMA PartialMoved ==
    ASSUME NEW D, NEW S, NEW f, NEW g, NEW L, Paired(D, S, L, f, g)
    PROVE  Partial(g, D)[D] = Partial(f, S)[S]
<1>0. /\ IsFiniteSet(D) /\ IsFiniteSet(S)
      /\ \A i \in D : L[i] \in S /\ g[i] = f[L[i]]
      /\ \A i, j \in D : L[i] = L[j] => i = j
      /\ \A x \in S : \E i \in D : L[i] = x
  BY DEF Paired, Natural
<1> DEFINE hg == Partial(g, D)
           hf == Partial(f, S)
           Image(T) == {L[i] : i \in T}
           Good == {m \in Nat : \A T \in SUBSET D : Cardinality(T) <= m => hg[T] = hf[Image(T)]}
<1>1. Natural(g, D) /\ Natural(f, S)
  BY DEF Paired
<1>2. /\ hg[{}] = 0
      /\ \A T \in SUBSET D, i \in D : i \in T => hg[T] = g[i] + hg[T \ {i}]
  <2>1. Adds(g, D)
    BY <1>1, PartialSums
  <2>2. QED
    BY <2>1 DEF Adds
<1>3. /\ hf[{}] = 0
      /\ \A T \in SUBSET S, x \in S : x \in T => hf[T] = f[x] + hf[T \ {x}]
  <2>1. Adds(f, S)
    BY <1>1, PartialSums
  <2>2. QED
    BY <2>1 DEF Adds
<1> HIDE DEF hg, hf
<1>4. \A T \in SUBSET D : IsFiniteSet(T) /\ Cardinality(T) \in Nat /\ Image(T) \in SUBSET S
  <2>1. \A T \in SUBSET D : IsFiniteSet(T) /\ Cardinality(T) \in Nat
    BY <1>0, FS_Subset, FS_CardinalityType
  <2>2. \A T \in SUBSET D : Image(T) \in SUBSET S
    BY <1>0
  <2>3. QED
    BY <2>1, <2>2
<1>5. Image(D) = S /\ Image({}) = {}
  BY <1>0
<1>6. ASSUME NEW T \in SUBSET D, NEW i \in T
      PROVE  L[i] \in Image(T) /\ Image(T \ {i}) = Image(T) \ {L[i]}
  BY <1>0
<1> HIDE DEF Image
<1>7. 0 \in Good
  <2>1. \A T \in SUBSET D : Cardinality(T) <= 0 => T = {}
    BY <1>4, FS_EmptySet
  <2>2. QED
    BY <1>2, <1>3, <1>5, <2>1
<1>8. ASSUME NEW m \in Good PROVE m + 1 \in Good
  <2> SUFFICES ASSUME NEW T \in SUBSET D, Cardinality(T) <= m + 1
               PROVE  hg[T] = hf[Image(T)]
    OBVIOUS
  <2>1. CASE T = {}
    BY <1>2, <1>3, <1>5, <2>1
  <2>2. CASE T # {}
    <3>1. PICK i \in T : TRUE
      BY <2>2
    <3> DEFINE R == T \ {i}
               I == Image(T)
    <3>2. R \in SUBSET D /\ Cardinality(R) = Cardinality(T) - 1
      BY <1>4, FS_RemoveElement
    <3>3. Cardinality(R) <= m
      BY <1>4, <3>2
    <3>4. hg[R] = hf[Image(R)]
      BY <3>2, <3>3
    <3>5. hg[T] = g[i] + hg[R]
      BY <1>2
    <3>6. L[i] \in I /\ Image(R) = I \ {L[i]} /\ I \in SUBSET S
      BY <1>4, <1>6
    <3> HIDE DEF I, R
    <3>7. hf[I] = f[L[i]] + hf[Image(R)]
      BY <1>3, <3>6
    <3>8. g[i] = f[L[i]]
      BY <1>0
    <3>9. QED
      BY <3>4, <3>5, <3>7, <3>8 DEF I
  <2>3. QED
    BY <2>1, <2>2
<1>9. Good = Nat
  <2> HIDE DEF Good
  <2>1. Good \in SUBSET Nat
    BY DEF Good
  <2>2. QED
    BY <1>7, <1>8, <2>1, SetInduction
<1>10. hg[D] = hf[Image(D)]
  <2>1. D \in SUBSET D
    OBVIOUS
  <2>2. Cardinality(D) \in Good /\ Cardinality(D) <= Cardinality(D)
    BY <1>4, <1>9, <2>1
  <2>3. QED
    BY <2>1, <2>2
<1>11. QED
  BY <1>5, <1>10 DEF hg, hf

\* The same for the sums of two functions.
LEMMA SumMoved ==
    ASSUME NEW f, NEW g, NEW L, Paired(DOMAIN g, DOMAIN f, L, f, g)
    PROVE  SumFunction(g) = SumFunction(f)
<1>1. SumFunction(g) = Partial(g, DOMAIN g)[DOMAIN g] /\ SumFunction(f) = Partial(f, DOMAIN f)[DOMAIN f]
  BY SumIsPartial DEF SumFunction
<1>2. Partial(g, DOMAIN g)[DOMAIN g] = Partial(f, DOMAIN f)[DOMAIN f]
  BY PartialMoved
<1>3. QED
  BY <1>1, <1>2

-----------------------------------------------------------------------------
(* Sequences *)

\* InOrder lists a finite set of numbers in ascending order.
LEMMA Listing ==
    ASSUME NEW S \in SUBSET Nat, IsFiniteSet(S), NEW n, n = Cardinality(S)
    PROVE  /\ n \in Nat /\ DOMAIN InOrder(S) = 1 .. n
           /\ \A i \in 1 .. n :
                /\ InOrder(S)[i] \in S
                /\ Cardinality({j \in S : j <= InOrder(S)[i]}) = i
           /\ \A k \in S : \E i \in 1 .. n : InOrder(S)[i] = k
           /\ \A i, j \in 1 .. n : i < j => InOrder(S)[i] < InOrder(S)[j]
<1> DEFINE Upto(k) == {j \in S : j <= k}
           rank == [k \in S |-> Cardinality(Upto(k))]
<1>1. n \in Nat
  BY FS_CardinalityType
<1>2. \A k \in S : IsFiniteSet(Upto(k)) /\ rank[k] \in 1 .. n
  <2> SUFFICES ASSUME NEW k \in S PROVE IsFiniteSet(Upto(k)) /\ rank[k] \in 1 .. n
    OBVIOUS
  <2>1. Upto(k) \in SUBSET S /\ k \in Upto(k)
    OBVIOUS
  <2>2. IsFiniteSet(Upto(k)) /\ Cardinality(Upto(k)) <= n /\ Cardinality(Upto(k)) \in Nat
    BY <2>1, FS_Subset, FS_CardinalityType
  <2>3. Cardinality(Upto(k)) # 0
    BY <2>1, <2>2, FS_EmptySet
  <2> HIDE DEF Upto
  <2>4. QED
    BY <1>1, <2>2, <2>3
<1>3. \A k, m \in S : k < m => rank[k] < rank[m]
  <2> SUFFICES ASSUME NEW k \in S, NEW m \in S, k < m PROVE rank[k] < rank[m]
    OBVIOUS
  <2>0. k \in Nat /\ m \in Nat /\ \A j \in S : j \in Nat
    OBVIOUS
  <2>1. Upto(k) \in SUBSET Upto(m) /\ m \in Upto(m) /\ m \notin Upto(k)
    <3>1. \A j \in S : j <= k => j <= m
      BY <2>0
    <3>2. m <= m /\ ~(m <= k)
      BY <2>0
    <3>3. QED
      BY <3>1, <3>2
  <2>2. IsFiniteSet(Upto(m)) /\ rank[k] \in Nat /\ rank[m] \in Nat
    BY <1>2
  <2>3. Cardinality(Upto(k)) <= Cardinality(Upto(m)) /\ Cardinality(Upto(k)) # Cardinality(Upto(m))
    BY <2>1, <2>2, FS_Subset
  <2>4. rank[k] = Cardinality(Upto(k)) /\ rank[m] = Cardinality(Upto(m))
    OBVIOUS
  <2> HIDE DEF Upto, rank
  <2>5. QED
    BY <2>2, <2>3, <2>4
<1>4. \A k \in S : rank[k] = Cardinality({j \in S : j <= k})
  OBVIOUS
<1>5. rank \in [S -> 1 .. n]
  BY <1>2
<1>6. DOMAIN InOrder(S) = 1 .. n /\ \A i \in 1 .. n :
        InOrder(S)[i] = CHOOSE k \in S : Cardinality({j \in S : j <= k}) = i
  BY DEF InOrder
<1> HIDE DEF rank
<1>7. \A k, m \in S : rank[k] = rank[m] => k = m
  <2> SUFFICES ASSUME NEW k \in S, NEW m \in S, rank[k] = rank[m], k # m PROVE FALSE
    OBVIOUS
  <2>1. rank[k] \in Nat /\ k \in Nat /\ m \in Nat
    <3>1. rank[k] \in 1 .. n
      BY <1>2
    <3>2. k \in Nat /\ m \in Nat
      OBVIOUS
    <3>3. QED
      BY <1>1, <3>1, <3>2
  <2>2. k < m \/ m < k
    BY <2>1
  <2>3. QED
    BY <1>3, <2>1, <2>2
<1>8. rank \in Surjection(S, 1 .. n)
  <2>1. rank \in Injection(S, 1 .. n)
    BY <1>5, <1>7 DEF Injection, IsInjective
  <2>2. IsFiniteSet(1 .. n) /\ Cardinality(1 .. n) = n
    BY <1>1, FS_Interval
  <2>3. QED
    BY <2>1, <2>2, FS_Injection
<1>9. \A i \in 1 .. n : \E k \in S : rank[k] = i
  BY <1>8 DEF Surjection
<1>10. \A i \in 1 .. n : InOrder(S)[i] \in S /\ rank[InOrder(S)[i]] = i
  <2> SUFFICES ASSUME NEW i \in 1 .. n PROVE InOrder(S)[i] \in S /\ rank[InOrder(S)[i]] = i
    OBVIOUS
  <2>1. \E k \in S : Cardinality({j \in S : j <= k}) = i
    BY <1>4, <1>9
  <2>2. /\ InOrder(S)[i] \in S
        /\ Cardinality({j \in S : j <= InOrder(S)[i]}) = i
    BY <1>6, <2>1
  <2>3. QED
    BY <1>4, <2>2
<1>11. \A k \in S : \E i \in 1 .. n : InOrder(S)[i] = k
  BY <1>2, <1>7, <1>10
<1>12. ASSUME NEW i \in 1 .. n, NEW j \in 1 .. n, i < j
       PROVE  InOrder(S)[i] < InOrder(S)[j]
  <2>1. InOrder(S)[i] \in S /\ InOrder(S)[j] \in S
    BY <1>10
  <2>2. InOrder(S)[i] \in Nat /\ InOrder(S)[j] \in Nat
    BY <2>1
  <2>3. rank[InOrder(S)[i]] = i /\ rank[InOrder(S)[j]] = j /\ i \in Nat /\ j \in Nat
    BY <1>10
  <2>4. CASE InOrder(S)[j] < InOrder(S)[i]
    <3>1. rank[InOrder(S)[j]] < rank[InOrder(S)[i]]
      BY <1>3, <2>1, <2>4
    <3>2. QED
      BY <1>12, <2>3, <3>1
  <2>5. CASE InOrder(S)[j] = InOrder(S)[i]
    BY <1>12, <2>3, <2>5
  <2>6. QED
    BY <2>2, <2>4, <2>5
<1>13. QED
  BY <1>1, <1>4, <1>6, <1>10, <1>11, <1>12

-----------------------------------------------------------------------------
(* Sequences that are written one after the other *)

\* The function that FlattenSeq is read from, and its values from zero parts on.
Joined(a) ==
    CHOOSE f : f = [i \in 1 .. Len(a) |-> IF i = 1 THEN a[i] ELSE f[i - 1] \o a[i]]
Parts(a, k) == IF k = 0 THEN <<>> ELSE Joined(a)[k]

LEMMA FlattenIsParts == ASSUME NEW a \in Seq(Seq(Int)) PROVE FlattenSeq(a) = Parts(a, Len(a))
<1>1. CASE Len(a) = 0
  <2>1. a = <<>>
    BY <1>1
  <2>2. QED
    BY <1>1, <2>1 DEF FlattenSeq, Parts
<1>2. CASE Len(a) # 0
  BY <1>2 DEF FlattenSeq, Parts, Joined
<1>3. QED
  BY <1>1, <1>2

\* The recursion has a solution.
LEMMA JoinedObeys ==
    ASSUME NEW a \in Seq(Seq(Int))
    PROVE  Joined(a) = [i \in 1 .. Len(a) |-> IF i = 1 THEN a[i] ELSE Joined(a)[i - 1] \o a[i]]
<1> DEFINE Solves(f, n) == f = [i \in 1 .. n |-> IF i = 1 THEN a[i] ELSE f[i - 1] \o a[i]]
           Good == {n \in Nat : \E f : Solves(f, n)}
<1>1. 0 \in Good
  <2>1. Solves([i \in 1 .. 0 |-> 0], 0)
    OBVIOUS
  <2> HIDE DEF Solves
  <2>2. QED
    BY <2>1
<1>2. ASSUME NEW n \in Good PROVE n + 1 \in Good
  <2>1. PICK f : Solves(f, n)
    OBVIOUS
  <2> DEFINE g == [i \in 1 .. n + 1 |-> IF i <= n THEN f[i]
                                        ELSE IF i = 1 THEN a[i] ELSE f[i - 1] \o a[i]]
  <2>2. n \in Nat
    OBVIOUS
  <2>3. ASSUME NEW i \in 1 .. n + 1 PROVE g[i] = IF i = 1 THEN a[i] ELSE g[i - 1] \o a[i]
    <3>1. CASE i <= n
      <4>1. g[i] = f[i] /\ (i # 1 => g[i - 1] = f[i - 1])
        BY <2>2, <3>1
      <4>2. f[i] = IF i = 1 THEN a[i] ELSE f[i - 1] \o a[i]
        <5>1. i \in 1 .. n
          BY <2>2, <3>1
        <5>2. QED
          BY <2>1, <5>1
      <4>3. QED
        BY <4>1, <4>2
    <3>2. CASE ~(i <= n)
      <4>1. i # 1 => i - 1 \in 1 .. n + 1 /\ i - 1 <= n
        BY <2>2, <3>2
      <4>2. i # 1 => g[i - 1] = f[i - 1]
        BY <4>1
      <4>3. g[i] = IF i = 1 THEN a[i] ELSE f[i - 1] \o a[i]
        BY <3>2
      <4>4. QED
        BY <4>2, <4>3
    <3>3. QED
      BY <3>1, <3>2
  <2>4. g = [i \in 1 .. n + 1 |-> g[i]]
    OBVIOUS
  <2> HIDE DEF g
  <2>5. Solves(g, n + 1)
    BY <2>3, <2>4
  <2> HIDE DEF Solves
  <2>6. QED
    BY <2>2, <2>5
<1>3. Good = Nat
  <2>1. Good \in SUBSET Nat
    OBVIOUS
  <2> HIDE DEF Good
  <2>2. QED
    BY <1>1, <1>2, <2>1, SetInduction
<1>4. \E f : Solves(f, Len(a))
  <2>1. Len(a) \in Nat
    OBVIOUS
  <2>2. QED
    BY <1>3, <2>1
<1>5. QED
  BY <1>4 DEF Joined

Regrouped(s, t, u) == (s \o t) \o u = s \o (t \o u)

LEMMA Regroups == ASSUME NEW s \in Seq(Int), NEW t \in Seq(Int), NEW u \in Seq(Int)
                  PROVE  Regrouped(s, t, u)
BY ConcatAssociative DEF Regrouped

\* Each part is appended to those before it.
LEMMA PartsGrow ==
    ASSUME NEW a \in Seq(Seq(Int))
    PROVE  /\ Parts(a, 0) = <<>>
           /\ \A k \in 0 .. Len(a) : Parts(a, k) \in Seq(Int)
           /\ \A k \in Nat : k < Len(a) => Parts(a, k + 1) = Parts(a, k) \o a[k + 1]
<1>1. Len(a) \in Nat /\ \A i \in 1 .. Len(a) : a[i] \in Seq(Int)
  OBVIOUS
<1>2. ASSUME NEW k \in Nat, k < Len(a) PROVE Parts(a, k + 1) = Parts(a, k) \o a[k + 1]
  <2>1. k + 1 \in 1 .. Len(a) /\ k + 1 # 0 /\ (k + 1) - 1 = k /\ a[k + 1] \in Seq(Int)
    BY <1>1, <1>2
  <2>2. Joined(a)[k + 1] = IF k + 1 = 1 THEN a[k + 1] ELSE Joined(a)[k] \o a[k + 1]
    <3>1. Joined(a)[k + 1] = IF k + 1 = 1 THEN a[k + 1] ELSE Joined(a)[(k + 1) - 1] \o a[k + 1]
      BY <2>1, JoinedObeys, Zenon
    <3>2. QED
      BY <2>1, <3>1, Zenon
  <2>3. CASE k = 0
    <3>1. <<>> \o a[k + 1] = a[k + 1]
      BY <2>1, ConcatEmptySeq
    <3>2. QED
      BY <2>1, <2>2, <2>3, <3>1 DEF Parts
  <2>4. CASE k # 0
    <3>1. k + 1 # 1 /\ k + 1 # 0
      BY <2>4
    <3>2. QED
      BY <2>2, <2>4, <3>1, Zenon DEF Parts
  <2>5. QED
    BY <2>3, <2>4
<1>3. Parts(a, 0) = <<>>
  BY DEF Parts
<1> DEFINE Good == {k \in Nat : k <= Len(a) => Parts(a, k) \in Seq(Int)}
<1>4. 0 \in Good
  <2>1. <<>> \in Seq(Int)
    OBVIOUS
  <2>2. Parts(a, 0) \in Seq(Int)
    BY <1>3, <2>1, Zenon
  <2>3. QED
    BY <2>2
<1>5. ASSUME NEW k \in Good PROVE k + 1 \in Good
  <2> SUFFICES ASSUME k + 1 <= Len(a) PROVE Parts(a, k + 1) \in Seq(Int)
    OBVIOUS
  <2>1. k \in Nat /\ k < Len(a) /\ Parts(a, k) \in Seq(Int) /\ a[k + 1] \in Seq(Int)
    BY <1>1
  <2>2. QED
    BY <1>2, <2>1, ConcatProperties
<1>6. Good = Nat
  <2>1. Good \in SUBSET Nat
    OBVIOUS
  <2> HIDE DEF Good
  <2>2. QED
    BY <1>4, <1>5, <2>1, SetInduction
<1>7. \A k \in 0 .. Len(a) : Parts(a, k) \in Seq(Int)
  BY <1>1, <1>6
<1>8. QED
  BY <1>2, <1>3, <1>7

\* The code words of a prefix code: none begins another.
PrefixFree(C) ==
    /\ C \subseteq Seq(Int) \ {<<>>}
    /\ \A p, q \in C : \A x, y \in Seq(Int) : p \o x = q \o y => p = q

\* What follows k parts that read the same is the same, and so are the parts.
Readable(a, b, k) ==
    \A x, y \in Seq(Int) : Parts(a, k) \o x = Parts(b, k) \o y =>
        x = y /\ \A i \in 1 .. k : a[i] = b[i]

\* What code words are written one after the other can be told apart again.
LEMMA PartsDiffer ==
    ASSUME NEW C, PrefixFree(C), NEW a \in Seq(C), NEW b \in Seq(C), Len(a) <= Len(b)
    PROVE  \A k \in Nat : k <= Len(a) => Readable(a, b, k)
<1>1. /\ a \in Seq(Seq(Int)) /\ b \in Seq(Seq(Int)) /\ Len(a) \in Nat /\ Len(b) \in Nat
      /\ \A i \in 1 .. Len(a) : a[i] \in C /\ a[i] \in Seq(Int)
      /\ \A i \in 1 .. Len(b) : b[i] \in C /\ b[i] \in Seq(Int)
  BY DEF PrefixFree
<1>0. \A p, q \in C : \A x, y \in Seq(Int) : p \o x = q \o y => p = q
  BY DEF PrefixFree
<1> DEFINE Tells(k) == k <= Len(a) => Readable(a, b, k)
           Good == {k \in Nat : Tells(k)}
<1>2. 0 \in Good
  <2>1. Parts(a, 0) = <<>> /\ Parts(b, 0) = <<>>
    BY DEF Parts
  <2>2. \A x \in Seq(Int) : <<>> \o x = x
    BY ConcatEmptySeq
  <2>3. \A x, y \in Seq(Int) : Parts(a, 0) \o x = Parts(b, 0) \o y => x = y
    BY <2>1, <2>2, Zenon
  <2>4. \A i \in 1 .. 0 : a[i] = b[i]
    OBVIOUS
  <2>5. Tells(0)
    BY <2>3, <2>4, Zenon DEF Readable
  <2> HIDE DEF Tells
  <2>6. QED
    BY <2>5
<1>3. ASSUME NEW k \in Good PROVE k + 1 \in Good
  <2>0. k \in Nat /\ Tells(k)
    OBVIOUS
  <2>1. ASSUME k + 1 <= Len(a), NEW x \in Seq(Int), NEW y \in Seq(Int),
               Parts(a, k + 1) \o x = Parts(b, k + 1) \o y
        PROVE  x = y /\ \A i \in 1 .. k + 1 : a[i] = b[i]
    <3>1. /\ k < Len(a) /\ k < Len(b) /\ k <= Len(a) /\ k \in 0 .. Len(a) /\ k \in 0 .. Len(b)
          /\ k + 1 \in 1 .. Len(a) /\ k + 1 \in 1 .. Len(b)
      BY <1>1, <2>0, <2>1
    <3> DEFINE A == Parts(a, k)
               B == Parts(b, k)
               p == a[k + 1]
               q == b[k + 1]
    <3>2. A \in Seq(Int) /\ B \in Seq(Int)
      BY <1>1, <2>0, <3>1, PartsGrow
    <3>3. Parts(a, k + 1) = A \o p /\ Parts(b, k + 1) = B \o q
      BY <1>1, <2>0, <3>1, PartsGrow
    <3>4. p \in C /\ q \in C /\ p \in Seq(Int) /\ q \in Seq(Int)
      BY <1>1, <3>1
    <3> HIDE DEF A, B, p, q
    <3>5. (A \o p) \o x = A \o (p \o x) /\ (B \o q) \o y = B \o (q \o y)
      <4>1. Regrouped(A, p, x) /\ Regrouped(B, q, y)
        BY <3>2, <3>4, Regroups
      <4>2. QED
        BY <4>1, Zenon DEF Regrouped
    <3>6. A \o (p \o x) = B \o (q \o y)
      BY <2>1, <3>3, <3>5, Zenon
    <3>7. p \o x \in Seq(Int) /\ q \o y \in Seq(Int)
      BY <2>1, <3>4, ConcatProperties
    <3>8. p \o x = q \o y /\ \A i \in 1 .. k : a[i] = b[i]
      BY <2>0, <3>1, <3>6, <3>7, Zenon DEF A, B, Readable
    <3>9. p = q
      BY <1>0, <3>4, <3>8, Zenon
    <3>10. x = y
      BY <2>1, <3>4, <3>8, <3>9, ConcatSimplifications
    <3>11. \A i \in 1 .. k + 1 : i \in 1 .. k \/ i = k + 1
      BY <2>0
    <3>12. QED
      BY <3>8, <3>9, <3>10, <3>11 DEF p, q
  <2>2. Tells(k + 1)
    <3>1. k + 1 <= Len(a) => Readable(a, b, k + 1)
      BY <2>1, Zenon DEF Readable
    <3>2. QED
      BY <3>1
  <2> HIDE DEF Tells
  <2>3. QED
    BY <2>0, <2>2
<1>4. Good = Nat
  <2>1. Good \in SUBSET Nat
    OBVIOUS
  <2> HIDE DEF Good
  <2>2. QED
    BY <1>2, <1>3, <2>1, SetInduction
<1>5. \A k \in Nat : Tells(k)
  <2> HIDE DEF Tells
  <2>1. QED
    BY <1>4
<1>6. QED
  BY <1>5

\* More parts are longer.
LEMMA PartsExtend ==
    ASSUME NEW C, PrefixFree(C), NEW b \in Seq(C), NEW k \in Nat
    PROVE  \A m \in Nat : k + m <= Len(b) =>
                \E r \in Seq(Int) : Parts(b, k + m) = Parts(b, k) \o r /\ (m > 0 => r # <<>>)
<1>1. /\ b \in Seq(Seq(Int)) /\ Len(b) \in Nat
      /\ \A i \in 1 .. Len(b) : b[i] \in Seq(Int) /\ b[i] # <<>>
  BY DEF PrefixFree
<1> DEFINE Tells(m) == k + m <= Len(b) =>
                \E r \in Seq(Int) : Parts(b, k + m) = Parts(b, k) \o r /\ (m > 0 => r # <<>>)
           Good == {m \in Nat : Tells(m)}
<1>2. 0 \in Good
  <2>1. ASSUME k + 0 <= Len(b) PROVE Parts(b, k + 0) = Parts(b, k) \o <<>>
    <3>1. k + 0 = k /\ k \in 0 .. Len(b)
      BY <1>1, <2>1
    <3>2. Parts(b, k) \in Seq(Int)
      BY <1>1, <3>1, PartsGrow
    <3>3. QED
      BY <3>1, <3>2, ConcatEmptySeq
  <2>2. <<>> \in Seq(Int) /\ ~(0 > 0)
    OBVIOUS
  <2>3. Tells(0)
    BY <2>1, <2>2
  <2> HIDE DEF Tells
  <2>4. QED
    BY <2>3
<1>3. ASSUME NEW m \in Good PROVE m + 1 \in Good
  <2>0. m \in Nat /\ Tells(m)
    OBVIOUS
  <2>1. ASSUME k + (m + 1) <= Len(b)
        PROVE  \E r \in Seq(Int) : Parts(b, k + (m + 1)) = Parts(b, k) \o r /\ (m + 1 > 0 => r # <<>>)
    <3>1. /\ k + m \in Nat /\ k + m < Len(b) /\ k + (m + 1) = (k + m) + 1 /\ k + m <= Len(b)
          /\ (k + m) + 1 \in 1 .. Len(b) /\ k \in 0 .. Len(b)
      BY <1>1, <2>0, <2>1
    <3>2. PICK r \in Seq(Int) : Parts(b, k + m) = Parts(b, k) \o r
      BY <2>0, <3>1
    <3> DEFINE p == b[(k + m) + 1]
               B == Parts(b, k)
    <3>3. p \in Seq(Int) /\ p # <<>> /\ B \in Seq(Int)
      BY <1>1, <3>1, PartsGrow
    <3>4. Parts(b, (k + m) + 1) = Parts(b, k + m) \o p
      BY <1>1, <3>1, PartsGrow
    <3> HIDE DEF p, B
    <3>5. (B \o r) \o p = B \o (r \o p)
      <4>1. Regrouped(B, r, p)
        BY <3>2, <3>3, Regroups
      <4>2. QED
        BY <4>1, Zenon DEF Regrouped
    <3>6. r \o p \in Seq(Int) /\ r \o p # <<>>
      BY <3>2, <3>3, ConcatProperties, ConcatSimplifications
    <3>7. Parts(b, k + (m + 1)) = B \o (r \o p)
      BY <3>1, <3>2, <3>4, <3>5 DEF B
    <3>8. QED
      BY <3>6, <3>7 DEF B
  <2>2. Tells(m + 1)
    BY <2>1
  <2> HIDE DEF Tells
  <2>3. QED
    BY <2>0, <2>2
<1>4. Good = Nat
  <2>1. Good \in SUBSET Nat
    OBVIOUS
  <2> HIDE DEF Good
  <2>2. QED
    BY <1>2, <1>3, <2>1, SetInduction
<1>5. \A m \in Nat : Tells(m)
  <2> HIDE DEF Tells
  <2>1. QED
    BY <1>4
<1>6. QED
  BY <1>5

\* As many code words, and then something else.
LEMMA FlattenThenSame ==
    ASSUME NEW C, PrefixFree(C), NEW a \in Seq(C), NEW b \in Seq(C), Len(a) = Len(b),
           NEW x \in Seq(Int), NEW y \in Seq(Int), FlattenSeq(a) \o x = FlattenSeq(b) \o y
    PROVE  a = b /\ x = y
<1>1. a \in Seq(Seq(Int)) /\ b \in Seq(Seq(Int)) /\ Len(a) \in Nat
  BY DEF PrefixFree
<1>2. Parts(a, Len(a)) \o x = Parts(b, Len(a)) \o y
  BY <1>1, FlattenIsParts
<1>3. x = y /\ \A i \in 1 .. Len(a) : a[i] = b[i]
  <2>1. Len(a) <= Len(b) /\ Len(a) <= Len(a)
    BY <1>1
  <2>2. Readable(a, b, Len(a))
    BY <1>1, <2>1, PartsDiffer
  <2>3. QED
    BY <1>2, <2>2, Zenon DEF Readable
<1>4. a = b
  <2>1. a = [i \in 1 .. Len(a) |-> a[i]] /\ b = [i \in 1 .. Len(a) |-> b[i]]
    OBVIOUS
  <2>2. QED
    BY <1>3, <2>1, Zenon
<1>5. QED
  BY <1>3, <1>4

\* Nothing else.
LEMMA FlattenShorter ==
    ASSUME NEW C, PrefixFree(C), NEW a \in Seq(C), NEW b \in Seq(C), Len(a) <= Len(b),
           FlattenSeq(a) = FlattenSeq(b)
    PROVE  a = b
<1>1. a \in Seq(Seq(Int)) /\ b \in Seq(Seq(Int)) /\ Len(a) \in Nat /\ Len(b) \in Nat
  BY DEF PrefixFree
<1> DEFINE m == Len(b) - Len(a)
<1>2. m \in Nat /\ Len(a) + m = Len(b)
  BY <1>1
<1>3. PICK r \in Seq(Int) : Parts(b, Len(a) + m) = Parts(b, Len(a)) \o r /\ (m > 0 => r # <<>>)
  <2>1. Len(a) + m <= Len(b)
    BY <1>1, <1>2
  <2> HIDE DEF m
  <2>2. QED
    BY <1>1, <1>2, <2>1, PartsExtend
<1>4. Parts(a, Len(a)) = Parts(b, Len(a)) \o r
  BY <1>1, <1>2, <1>3, FlattenIsParts
<1>5. Parts(a, Len(a)) \o <<>> = Parts(b, Len(a)) \o r
  <2>1. Parts(a, Len(a)) \in Seq(Int)
    BY <1>1, PartsGrow
  <2>2. QED
    BY <1>4, <2>1, ConcatEmptySeq
<1>6. r = <<>>
  <2>1. <<>> \in Seq(Int) /\ Len(a) <= Len(a)
    BY <1>1
  <2>2. Readable(a, b, Len(a))
    BY <1>1, <2>1, PartsDiffer
  <2>3. QED
    BY <1>5, <2>1, <2>2, Zenon DEF Readable
<1>7. Len(a) = Len(b)
  BY <1>1, <1>2, <1>3, <1>6
<1>8. QED
  <2>1. <<>> \in Seq(Int) /\ FlattenSeq(a) \o <<>> = FlattenSeq(b) \o <<>>
    OBVIOUS
  <2>2. QED
    BY <1>7, <2>1, FlattenThenSame

\* So a sequence of code words is read back from what was written.
LEMMA FlattenSame ==
    ASSUME NEW C, PrefixFree(C), NEW a \in Seq(C), NEW b \in Seq(C), FlattenSeq(a) = FlattenSeq(b)
    PROVE  a = b
<1>1. Len(a) \in Nat /\ Len(b) \in Nat
  OBVIOUS
<1>2. Len(a) <= Len(b) \/ Len(b) <= Len(a)
  BY <1>1
<1>3. QED
  BY <1>2, FlattenShorter

\* What is written before two sequences can be cut off.
Cancelled(s, t, u) == s \o t = s \o u => t = u

LEMMA Cancels == ASSUME NEW s \in Seq(Int), NEW t \in Seq(Int), NEW u \in Seq(Int)
                 PROVE  Cancelled(s, t, u)
<1>1. \A S : \A x, y, z \in Seq(S) : x \o y = x \o z => y = z
  BY ConcatSimplifications, Zenon
<1>2. QED
  BY <1>1, Zenon DEF Cancelled

StartsWith(n, s) == (<<n>> \o s)[1] = n

LEMMA Starts == ASSUME NEW n \in Int, NEW s \in Seq(Int) PROVE StartsWith(n, s)
BY DEF StartsWith

-----------------------------------------------------------------------------
(* Texts *)

\* Texts are sequences of numbers.
LEMMA Subtexts == /\ Scalars \in SUBSET Nat /\ Scalars \in SUBSET Int
                  /\ Seq(Scalars) \in SUBSET Seq(Nat) /\ Seq(Scalars) \in SUBSET Seq(Int)
<1>1. Scalars \subseteq Nat /\ Scalars \subseteq Int
  BY DEF Scalars
<1>2. \A t \in Seq(Scalars) : t \in Seq(Nat)
  BY <1>1, SeqMonotonic
<1>3. \A t \in Seq(Scalars) : t \in Seq(Int)
  BY <1>1, SeqMonotonic
<1>4. QED
  BY <1>1, <1>2, <1>3

LEMMA BytesAreNatural == ASSUME NEW x \in Seq(Scalars) PROVE Bytes(x) \in Nat
<1> DEFINE b == [i \in DOMAIN x |-> Utf8Bytes(x[i])]
<1>1. Len(x) \in Nat /\ DOMAIN b = 1 .. Len(x) /\ \A i \in 1 .. Len(x) : b[i] \in Nat
  <2>1. Len(x) \in Nat /\ DOMAIN x = 1 .. Len(x)
    OBVIOUS
  <2>2. \A i \in 1 .. Len(x) : Utf8Bytes(x[i]) \in Nat
    BY DEF Utf8Bytes
  <2>3. QED
    BY <2>1, <2>2
<1> HIDE DEF b
<1>2. SumFunction(b) \in Nat
  BY <1>1, SumBounds
<1>3. QED
  BY <1>2 DEF Bytes, b

\* UTF-16 tells texts apart.
LEMMA Utf16IsPrefixFree == PrefixFree({Utf16(c) : c \in Scalars})
<1> DEFINE head(c) == IF c = Emoji THEN 55357 ELSE c
<1>1. \A c, d \in Scalars : head(c) = head(d) => c = d
  BY DEF Scalars, Emoji
<1>2. \A c \in Scalars : Utf16(c) \in Seq(Int) /\ Utf16(c) # <<>> /\ Len(Utf16(c)) >= 1 /\ Utf16(c)[1] = head(c)
  <2> SUFFICES ASSUME NEW c \in Scalars
               PROVE  Utf16(c) \in Seq(Int) /\ Utf16(c) # <<>> /\ Len(Utf16(c)) >= 1 /\ Utf16(c)[1] = head(c)
    OBVIOUS
  <2>1. c \in Int
    BY DEF Scalars
  <2>2. CASE c = Emoji
    BY <2>2 DEF Utf16
  <2>3. CASE c # Emoji
    BY <2>1, <2>3 DEF Utf16
  <2>4. QED
    BY <2>2, <2>3
<1> HIDE DEF head
<1>3. ASSUME NEW c \in Scalars, NEW d \in Scalars, NEW x \in Seq(Int), NEW y \in Seq(Int),
             Utf16(c) \o x = Utf16(d) \o y
      PROVE  Utf16(c) = Utf16(d)
  <2> DEFINE p == Utf16(c)
             q == Utf16(d)
  <2>1. p \in Seq(Int) /\ Len(p) >= 1 /\ p[1] = head(c) /\ q \in Seq(Int) /\ Len(q) >= 1 /\ q[1] = head(d)
    BY <1>2
  <2>2. p \o x = q \o y
    BY <1>3
  <2> HIDE DEF p, q
  <2>3. (p \o x)[1] = p[1] /\ (q \o y)[1] = q[1]
    BY <2>1, ConcatProperties
  <2>4. head(c) = head(d)
    BY <2>1, <2>2, <2>3
  <2>5. QED
    BY <1>1, <2>4
<1> DEFINE C == {Utf16(c) : c \in Scalars}
<1>4. \A p \in C : \E c \in Scalars : p = Utf16(c)
  OBVIOUS
<1> HIDE DEF C
<1>5. C \subseteq Seq(Int) \ {<<>>}
  BY <1>2, <1>4
<1>6. \A p, q \in C : \A x, y \in Seq(Int) : p \o x = q \o y => p = q
  BY <1>3, <1>4, Zenon
<1>7. PrefixFree(C)
  BY <1>5, <1>6, Zenon DEF PrefixFree
<1>8. QED
  BY <1>7 DEF C

\* Its UTF-16 units tell a text.
LEMMA UnitsTell ==
    ASSUME NEW s \in Seq(Scalars), NEW t \in Seq(Scalars)
    PROVE  Utf16Units(s) \in Seq(Int) /\ (Utf16Units(s) = Utf16Units(t) => s = t)
<1> DEFINE C == {Utf16(c) : c \in Scalars}
           a == [i \in DOMAIN s |-> Utf16(s[i])]
           b == [i \in DOMAIN t |-> Utf16(t[i])]
<1>1. /\ Len(s) \in Nat /\ Len(t) \in Nat
      /\ \A i \in 1 .. Len(s) : s[i] \in Scalars
      /\ \A i \in 1 .. Len(t) : t[i] \in Scalars
      /\ DOMAIN s = 1 .. Len(s) /\ DOMAIN t = 1 .. Len(t)
  OBVIOUS
<1>2. a \in Seq(C) /\ b \in Seq(C) /\ Len(a) = Len(s) /\ Len(b) = Len(t)
  BY <1>1
<1>3. PrefixFree(C)
  BY Utf16IsPrefixFree
<1>4. Utf16Units(s) = FlattenSeq(a) /\ Utf16Units(t) = FlattenSeq(b)
  BY DEF Utf16Units
<1>5. (\A i \in 1 .. Len(s) : a[i] = Utf16(s[i])) /\ (\A i \in 1 .. Len(t) : b[i] = Utf16(t[i]))
  BY <1>1
<1> HIDE DEF C, a, b
<1>6. Utf16Units(s) \in Seq(Int)
  <2>1. a \in Seq(Seq(Int)) /\ Len(a) \in 0 .. Len(a)
    BY <1>1, <1>2, <1>3 DEF PrefixFree
  <2>2. QED
    BY <1>4, <2>1, FlattenIsParts, PartsGrow
<1>7. ASSUME Utf16Units(s) = Utf16Units(t) PROVE s = t
  <2>1. a = b
    BY <1>2, <1>3, <1>4, <1>7, FlattenSame
  <2>2. Len(s) = Len(t) /\ \A i \in 1 .. Len(s) : Utf16(s[i]) = Utf16(t[i])
    BY <1>2, <1>5, <2>1
  <2>3. \A c, d \in Scalars : Utf16(c) = Utf16(d) => c = d
    <3> SUFFICES ASSUME NEW c \in Scalars, NEW d \in Scalars, Utf16(c) = Utf16(d) PROVE c = d
      OBVIOUS
    <3>1. Utf16(c)[1] = Utf16(d)[1] /\ Len(Utf16(c)) = Len(Utf16(d))
      OBVIOUS
    <3>2. \A x : Len(Utf16(x)) = IF x = Emoji THEN 2 ELSE 1
      BY DEF Utf16
    <3>3. \A x : x # Emoji => Utf16(x)[1] = x
      BY DEF Utf16
    <3>4. CASE c = Emoji
      BY <3>1, <3>2, <3>4
    <3>5. CASE c # Emoji
      <4>1. d # Emoji
        BY <3>1, <3>2, <3>5
      <4>2. QED
        BY <3>1, <3>3, <3>5, <4>1, Zenon
    <3>6. QED
      BY <3>4, <3>5
  <2>4. \A i \in 1 .. Len(s) : s[i] = t[i]
    BY <1>1, <2>2, <2>3
  <2>5. QED
    BY <1>1, <2>2, <2>4
<1>8. QED
  BY <1>6, <1>7

-----------------------------------------------------------------------------
(* White space *)

\* The characters that split_whitespace and join keep: those of the words and
\* the first of each gap.
Kept(t) == {i \in DOMAIN t : ~IsWhite(t[i]) \/ (i > 1 /\ ~IsWhite(t[i - 1]))}

Solid(t) == {i \in DOMAIN t : ~IsWhite(t[i])}
WordStarts(t) == {i \in DOMAIN t : ~IsWhite(t[i]) /\ (i = 1 \/ IsWhite(t[i - 1]))}
GapStarts(t) == {i \in DOMAIN t : IsWhite(t[i]) /\ i > 1 /\ ~IsWhite(t[i - 1])}

\* The positions of a text are finitely many numbers.
LEMMA KeptIsFinite ==
    ASSUME NEW t \in Seq(Nat), NEW T \in SUBSET DOMAIN t
    PROVE  /\ DOMAIN t = 1 .. Len(t) /\ Len(t) \in Nat /\ \A i \in DOMAIN t : i \in Nat /\ t[i] \in Nat
           /\ T \in SUBSET Nat /\ IsFiniteSet(T) /\ Cardinality(T) \in Nat
<1>1. DOMAIN t = 1 .. Len(t) /\ Len(t) \in Nat /\ \A i \in DOMAIN t : i \in Nat /\ t[i] \in Nat
  OBVIOUS
<1>2. IsFiniteSet(DOMAIN t)
  BY <1>1, FS_Interval
<1>3. QED
  BY <1>1, <1>2, FS_Subset, FS_CardinalityType

\* What ProviderTerm makes: one character per kept one, in their order.
LEMMA TermIsKept ==
    ASSUME NEW t \in Seq(Nat), NEW n, n = Cardinality(Kept(t)), NEW u, u = ProviderTerm(t),
           NEW L, L = InOrder(Kept(t))
    PROVE  /\ n \in Nat /\ u \in Seq(Nat) /\ Len(u) = n
           /\ \A i \in 1 .. n : /\ L[i] \in Kept(t)
                                /\ u[i] = IF IsWhite(t[L[i]]) THEN Space ELSE t[L[i]]
           /\ \A k \in Kept(t) : \E i \in 1 .. n : L[i] = k
           /\ \A i, j \in 1 .. n : i < j => L[i] < L[j]
<1>1. Kept(t) \in SUBSET DOMAIN t
  BY DEF Kept
<1>2. Kept(t) \in SUBSET Nat /\ IsFiniteSet(Kept(t))
  BY <1>1, KeptIsFinite
<1>3. /\ n \in Nat /\ DOMAIN L = 1 .. n
      /\ \A i \in 1 .. n : L[i] \in Kept(t)
      /\ \A k \in Kept(t) : \E i \in 1 .. n : L[i] = k
      /\ \A i, j \in 1 .. n : i < j => L[i] < L[j]
  BY <1>2, Listing
<1>4. u = [i \in 1 .. n |-> IF IsWhite(t[L[i]]) THEN Space ELSE t[L[i]]]
  BY <1>3 DEF ProviderTerm, Kept
<1>5. \A i \in 1 .. n : (IF IsWhite(t[L[i]]) THEN Space ELSE t[L[i]]) \in Nat
  BY <1>1, <1>3, KeptIsFinite DEF Space
<1>6. u \in Seq(Nat) /\ Len(u) = n
  BY <1>3, <1>4, <1>5
<1>7. QED
  BY <1>3, <1>4, <1>6

\* A term that is normalized twice is normalized once.
LEMMA NormalizedOnce ==
    ASSUME NEW t \in Seq(Nat)
    PROVE  ProviderTerm(ProviderTerm(t)) = ProviderTerm(t)
<1> DEFINE u == ProviderTerm(t)
           L == InOrder(Kept(t))
           n == Cardinality(Kept(t))
           M == InOrder(Kept(u))
           v == ProviderTerm(u)
<1>1. /\ n \in Nat /\ u \in Seq(Nat) /\ Len(u) = n
      /\ \A i \in 1 .. n : /\ L[i] \in Kept(t)
                           /\ u[i] = IF IsWhite(t[L[i]]) THEN Space ELSE t[L[i]]
      /\ \A k \in Kept(t) : \E i \in 1 .. n : L[i] = k
      /\ \A i, j \in 1 .. n : i < j => L[i] < L[j]
  BY TermIsKept
<1>2. \A i \in 1 .. n : L[i] \in DOMAIN t /\ L[i] \in Nat
  BY <1>1, KeptIsFinite DEF Kept
<1> HIDE DEF u, L, n
<1>3. \A i \in 1 .. n : IsWhite(u[i]) <=> IsWhite(t[L[i]])
  BY <1>1 DEF IsWhite
<1>4. ASSUME NEW i \in 1 .. n, IsWhite(u[i]) PROVE i > 1 /\ ~IsWhite(u[i - 1])
  <2>1. L[i] > 1 /\ ~IsWhite(t[L[i] - 1]) /\ L[i] \in 1 .. Len(t) /\ Len(t) \in Nat
    <3>1. L[i] \in Kept(t) /\ IsWhite(t[L[i]])
      BY <1>1, <1>3, <1>4
    <3>2. DOMAIN t = 1 .. Len(t) /\ Len(t) \in Nat
      OBVIOUS
    <3>3. QED
      BY <3>1, <3>2 DEF Kept
  <2>2. L[i] - 1 \in Kept(t)
    BY <2>1 DEF Kept
  <2>3. PICK m \in 1 .. n : L[m] = L[i] - 1
    BY <1>1, <2>2
  <2>4. m < i
    <3>1. m \in Nat /\ i \in Nat /\ L[i] \in Nat
      BY <1>1, <1>2
    <3>2. CASE m = i
      BY <2>3, <3>1, <3>2
    <3>3. CASE i < m
      <4>1. L[i] < L[m]
        BY <1>1, <3>3
      <4>2. QED
        BY <2>3, <3>1, <4>1
    <3>4. QED
      BY <3>1, <3>2, <3>3
  <2>5. m = i - 1
    <3> SUFFICES ASSUME m # i - 1 PROVE FALSE
      OBVIOUS
    <3>1. m \in Nat /\ i \in Nat /\ L[i] \in Nat
      BY <1>1, <1>2
    <3>2. i - 1 \in 1 .. n /\ m < i - 1 /\ i - 1 < i
      <4>1. n \in Nat /\ 1 <= m /\ i <= n
        BY <1>1
      <4>2. QED
        BY <2>4, <3>1, <4>1
    <3>3. L[m] < L[i - 1] /\ L[i - 1] < L[i] /\ L[i - 1] \in Nat
      BY <1>1, <1>2, <3>2
    <3>4. QED
      BY <2>3, <3>1, <3>3
  <2>6. i > 1
    BY <1>1, <2>4
  <2>7. QED
    BY <1>3, <2>1, <2>3, <2>5, <2>6
<1>5. Kept(u) = 1 .. n
  BY <1>1, <1>4 DEF Kept
<1>6. /\ Cardinality(Kept(u)) = n
      /\ \A i \in 1 .. n : M[i] \in Kept(u) /\ Cardinality({j \in Kept(u) : j <= M[i]}) = i
  <2>1. n \in Nat
    BY <1>1
  <2>2. Cardinality(1 .. n) = n /\ IsFiniteSet(1 .. n)
    BY <2>1, FS_Interval
  <2>3. 1 .. n \in SUBSET Nat
    BY <2>1
  <2>4. Cardinality(Kept(u)) = n /\ IsFiniteSet(Kept(u)) /\ Kept(u) \in SUBSET Nat
    BY <1>5, <2>2, <2>3
  <2>5. \A i \in 1 .. Cardinality(Kept(u)) :
            M[i] \in Kept(u) /\ Cardinality({j \in Kept(u) : j <= M[i]}) = i
    BY <2>4, Listing
  <2>6. QED
    BY <2>4, <2>5
<1>7. ASSUME NEW i \in 1 .. n PROVE M[i] = i
  <2>1. M[i] \in 1 .. n /\ Cardinality({j \in 1 .. n : j <= M[i]}) = i
    BY <1>5, <1>6
  <2>2. {j \in 1 .. n : j <= M[i]} = 1 .. M[i]
    BY <1>1, <2>1
  <2>3. M[i] \in Nat /\ M[i] > 0
    BY <1>1, <2>1
  <2>4. Cardinality(1 .. M[i]) = M[i]
    BY <2>3, FS_Interval
  <2>5. QED
    BY <2>1, <2>2, <2>4
<1>8. /\ v \in Seq(Nat) /\ Len(v) = n
      /\ \A i \in 1 .. n : v[i] = IF IsWhite(u[M[i]]) THEN Space ELSE u[M[i]]
  <2>1. u \in Seq(Nat)
    BY <1>1
  <2>2. /\ v \in Seq(Nat) /\ Len(v) = Cardinality(Kept(u))
        /\ \A i \in 1 .. Cardinality(Kept(u)) : v[i] = IF IsWhite(u[M[i]]) THEN Space ELSE u[M[i]]
    BY <2>1, TermIsKept
  <2> HIDE DEF v, M
  <2>3. QED
    BY <1>6, <2>2
<1> HIDE DEF v, M
<1>9. ASSUME NEW i \in 1 .. n PROVE v[i] = u[i]
  <2>1. v[i] = IF IsWhite(u[i]) THEN Space ELSE u[i]
    BY <1>7, <1>8
  <2>2. IsWhite(u[i]) => u[i] = Space
    BY <1>1, <1>3
  <2>3. QED
    BY <2>1, <2>2
<1>10. v = u
  BY <1>1, <1>8, <1>9
<1>11. QED
  BY <1>10 DEF v, u

\* A text that trim leaves alone has no white space at its ends.
LEMMA TrimmedEnds ==
    ASSUME NEW t \in Seq(Nat), t # <<>>, trim(t) = t
    PROVE  Len(t) >= 1 /\ ~IsWhite(t[1]) /\ ~IsWhite(t[Len(t)])
<1>1. /\ DOMAIN t = 1 .. Len(t) /\ Len(t) \in Nat /\ \A i \in DOMAIN t : i \in Nat /\ t[i] \in Nat
      /\ Solid(t) \in SUBSET Nat /\ Len(t) # 0
  BY KeptIsFinite DEF Solid
<1>2. Solid(t) # {}
  BY DEF trim, Solid
<1>3. \A k \in Solid(t) : k \in 1 .. Len(t) /\ ~IsWhite(t[k])
  BY <1>1 DEF Solid
<1> DEFINE a == Min(Solid(t))
           b == Max(Solid(t))
<1>4. a \in Solid(t)
  <2>1. \E m \in Solid(t) : \A k \in Solid(t) : m <= k
    BY <1>1, <1>2, LeastMember
  <2>2. QED
    BY <2>1 DEF Min
<1>5. b \in Solid(t)
  <2>1. \E m \in Solid(t) : \A k \in Solid(t) : k <= m
    <3>1. \A k \in Solid(t) : k <= Len(t)
      BY <1>1, <1>3
    <3>2. QED
      BY <1>1, <1>2, <3>1, GreatestMember
  <2>2. \E m \in Solid(t) : \A k \in Solid(t) : m >= k
    BY <1>1, <2>1
  <2>3. QED
    BY <2>2 DEF Max
<1>6. t = SubSeq(t, a, b)
  BY <1>2 DEF trim, Solid
<1> HIDE DEF a, b
<1>7. a \in 1 .. Len(t) /\ b \in 1 .. Len(t)
  BY <1>3, <1>4, <1>5
<1>8. \A i \in a .. b : t[i] \in Nat
  BY <1>1, <1>7
<1>9. Len(t) = IF a <= b THEN b - a + 1 ELSE 0
  BY <1>1, <1>6, <1>7, <1>8, SubSeqProperties
<1>10. a = 1 /\ b = Len(t)
  BY <1>1, <1>7, <1>9
<1>11. QED
  BY <1>1, <1>3, <1>4, <1>5, <1>10

\* In such a text the words are one more than the gaps between them.
LEMMA GapsAndWords ==
    ASSUME NEW t \in Seq(Nat), t # <<>>, ~IsWhite(t[1]), ~IsWhite(t[Len(t)])
    PROVE  Cardinality(WordStarts(t)) = Cardinality(GapStarts(t)) + 1
<1> DEFINE A(k) == {i \in WordStarts(t) : i <= k}
           B(k) == {i \in GapStarts(t) : i <= k}
           Good == {k \in Nat : k + 1 \in DOMAIN t =>
                Cardinality(A(k + 1)) = Cardinality(B(k + 1)) + IF IsWhite(t[k + 1]) THEN 0 ELSE 1}
<1>1. /\ DOMAIN t = 1 .. Len(t) /\ Len(t) \in Nat /\ Len(t) >= 1
      /\ \A i \in DOMAIN t : i \in Nat /\ i >= 1
  BY KeptIsFinite
<1>2. \A k \in Nat : IsFiniteSet(A(k)) /\ IsFiniteSet(B(k)) /\ Cardinality(A(k)) \in Nat
                     /\ Cardinality(B(k)) \in Nat
  <2> SUFFICES ASSUME NEW k \in Nat
               PROVE  IsFiniteSet(A(k)) /\ IsFiniteSet(B(k)) /\ Cardinality(A(k)) \in Nat
                     /\ Cardinality(B(k)) \in Nat
    OBVIOUS
  <2>1. A(k) \in SUBSET DOMAIN t /\ B(k) \in SUBSET DOMAIN t
    BY DEF WordStarts, GapStarts
  <2> HIDE DEF A, B
  <2>2. QED
    BY <2>1, KeptIsFinite
<1>3. 0 \in Good
  <2>1. \A i \in DOMAIN t : i <= 1 => i = 1
    BY <1>1
  <2>2. 1 \in DOMAIN t
    BY <1>1
  <2>3. A(1) = {1} /\ B(1) = {}
    BY <2>1, <2>2 DEF WordStarts, GapStarts
  <2>4. Cardinality(A(1)) = 1 /\ Cardinality(B(1)) = 0
    BY <2>3, FS_EmptySet, FS_Singleton
  <2> HIDE DEF A, B
  <2>5. QED
    BY <2>4
<1>4. ASSUME NEW k \in Good PROVE k + 1 \in Good
  <2> SUFFICES ASSUME k + 1 + 1 \in DOMAIN t
               PROVE  Cardinality(A(k + 1 + 1)) = Cardinality(B(k + 1 + 1))
                            + IF IsWhite(t[k + 1 + 1]) THEN 0 ELSE 1
    OBVIOUS
  <2> DEFINE j == k + 1
  <2>1. j \in Nat /\ j >= 1 /\ j \in DOMAIN t /\ j + 1 \in DOMAIN t
    BY <1>1
  <2>2. Cardinality(A(j)) = Cardinality(B(j)) + IF IsWhite(t[j]) THEN 0 ELSE 1
    BY <2>1
  <2>3. \A i \in DOMAIN t : i <= j + 1 <=> i <= j \/ i = j + 1
    BY <1>1, <2>1
  <2>4. j + 1 > 1 /\ j + 1 # 1 /\ (j + 1) - 1 = j /\ ~(j + 1 <= j)
    BY <2>1
  <2>5. j + 1 \in WordStarts(t) <=> ~IsWhite(t[j + 1]) /\ IsWhite(t[j])
    BY <2>1, <2>4 DEF WordStarts
  <2>6. j + 1 \in GapStarts(t) <=> IsWhite(t[j + 1]) /\ ~IsWhite(t[j])
    BY <2>1, <2>4 DEF GapStarts
  <2> HIDE DEF j, Good
  <2>7. A(j + 1) = IF j + 1 \in WordStarts(t) THEN A(j) \cup {j + 1} ELSE A(j)
    <3>1. \A i \in WordStarts(t) : i \in DOMAIN t
      BY DEF WordStarts
    <3>2. \A i \in WordStarts(t) : i <= j + 1 <=> i <= j \/ i = j + 1
      BY <2>3, <3>1
    <3>3. QED
      BY <3>2
  <2>8. B(j + 1) = IF j + 1 \in GapStarts(t) THEN B(j) \cup {j + 1} ELSE B(j)
    <3>1. \A i \in GapStarts(t) : i \in DOMAIN t
      BY DEF GapStarts
    <3>2. \A i \in GapStarts(t) : i <= j + 1 <=> i <= j \/ i = j + 1
      BY <2>3, <3>1
    <3>3. QED
      BY <3>2
  <2>9. j + 1 \notin A(j) /\ j + 1 \notin B(j)
    BY <2>4
  <2> HIDE DEF A, B
  <2>10. /\ Cardinality(A(j) \cup {j + 1}) = Cardinality(A(j)) + 1
         /\ Cardinality(B(j) \cup {j + 1}) = Cardinality(B(j)) + 1
    BY <1>2, <2>1, <2>9, FS_AddElement
  <2>11. Cardinality(A(j)) \in Nat /\ Cardinality(B(j)) \in Nat
    BY <1>2, <2>1
  <2>12. Cardinality(A(j + 1)) = Cardinality(B(j + 1)) + IF IsWhite(t[j + 1]) THEN 0 ELSE 1
    <3>1. CASE IsWhite(t[j + 1])
      BY <2>2, <2>5, <2>6, <2>7, <2>8, <2>10, <2>11, <3>1
    <3>2. CASE ~IsWhite(t[j + 1])
      BY <2>2, <2>5, <2>6, <2>7, <2>8, <2>10, <2>11, <3>2
    <3>3. QED
      BY <3>1, <3>2
  <2>13. QED
    BY <2>12 DEF j
<1>5. Good = Nat
  <2> HIDE DEF Good
  <2>1. Good \in SUBSET Nat
    BY DEF Good
  <2>2. QED
    BY <1>3, <1>4, <2>1, SetInduction
<1>6. Len(t) - 1 \in Good /\ (Len(t) - 1) + 1 = Len(t) /\ Len(t) \in DOMAIN t
  <2>1. Len(t) - 1 \in Nat /\ (Len(t) - 1) + 1 = Len(t) /\ Len(t) \in DOMAIN t
    BY <1>1
  <2> HIDE DEF Good
  <2>2. QED
    BY <1>5, <2>1
<1>7. Cardinality(A(Len(t))) = Cardinality(B(Len(t))) + 1
  <2>1. \A k \in Good : k + 1 \in DOMAIN t =>
            Cardinality(A(k + 1)) = Cardinality(B(k + 1)) + IF IsWhite(t[k + 1]) THEN 0 ELSE 1
    OBVIOUS
  <2> HIDE DEF Good, A, B
  <2>2. QED
    BY <1>6, <2>1
<1>8. A(Len(t)) = WordStarts(t) /\ B(Len(t)) = GapStarts(t)
  BY <1>1 DEF WordStarts, GapStarts
<1>9. QED
  BY <1>7, <1>8

\* The scalars that a term's bound counts are those of the term that is sent.
LEMMA ScalarsAreSent ==
    ASSUME NEW t \in Seq(Nat), t # <<>>, trim(t) = t
    PROVE  Len(ProviderTerm(t)) = NormalizedScalars(t)
<1>1. ~IsWhite(t[1]) /\ ~IsWhite(t[Len(t)])
  BY TrimmedEnds
<1>2. Cardinality(WordStarts(t)) = Cardinality(GapStarts(t)) + 1
  BY <1>1, GapsAndWords
<1>3. Kept(t) = Solid(t) \cup GapStarts(t) /\ Solid(t) \cap GapStarts(t) = {}
  BY DEF Kept, Solid, GapStarts
<1>4. /\ IsFiniteSet(Solid(t)) /\ IsFiniteSet(GapStarts(t))
      /\ Cardinality(Solid(t)) \in Nat /\ Cardinality(GapStarts(t)) \in Nat
  BY KeptIsFinite DEF Solid, GapStarts
<1>5. Cardinality(Kept(t)) = Cardinality(Solid(t)) + Cardinality(GapStarts(t))
  <2>1. Cardinality(Solid(t) \cap GapStarts(t)) = 0
    BY <1>3, FS_EmptySet
  <2>2. Cardinality(Solid(t) \cup GapStarts(t))
            = Cardinality(Solid(t)) + Cardinality(GapStarts(t)) - Cardinality(Solid(t) \cap GapStarts(t))
    BY <1>4, FS_Union
  <2>3. QED
    BY <1>3, <1>4, <2>1, <2>2
<1>6. Len(ProviderTerm(t)) = Cardinality(Kept(t))
  BY TermIsKept
<1>7. Words(t) = Cardinality(WordStarts(t))
  BY DEF Words, WordStarts
<1>8. Words(t) - 1 = Cardinality(GapStarts(t))
  BY <1>2, <1>4, <1>7
<1>9. \A g \in Nat : Max({0, g}) = g
  <2> SUFFICES ASSUME NEW g \in Nat PROVE Max({0, g}) = g
    OBVIOUS
  <2>1. \E m \in {0, g} : \A y \in {0, g} : m >= y
    OBVIOUS
  <2>2. Max({0, g}) \in {0, g} /\ \A y \in {0, g} : Max({0, g}) >= y
    BY <2>1 DEF Max
  <2>3. QED
    BY <2>2
<1>10. NormalizedScalars(t) = Cardinality(Solid(t)) + Cardinality(GapStarts(t))
  BY <1>4, <1>8, <1>9 DEF NormalizedScalars, Solid
<1>11. QED
  BY <1>5, <1>6, <1>10

\* A term that is sent has no more words than the one it was made of.
LEMMA WordsAreKept ==
    ASSUME NEW t \in Seq(Nat)
    PROVE  Words(ProviderTerm(t)) <= Words(t) /\ Words(ProviderTerm(t)) \in Nat /\ Words(t) \in Nat
<1> DEFINE u == ProviderTerm(t)
           L == InOrder(Kept(t))
           n == Cardinality(Kept(t))
           A == WordStarts(u)
           B == WordStarts(t)
           move == [i \in A |-> L[i]]
<1>1. /\ n \in Nat /\ u \in Seq(Nat) /\ Len(u) = n
      /\ \A i \in 1 .. n : /\ L[i] \in Kept(t)
                           /\ u[i] = IF IsWhite(t[L[i]]) THEN Space ELSE t[L[i]]
      /\ \A k \in Kept(t) : \E i \in 1 .. n : L[i] = k
      /\ \A i, j \in 1 .. n : i < j => L[i] < L[j]
  BY TermIsKept
<1>2. \A i \in 1 .. n : L[i] \in DOMAIN t /\ L[i] \in Nat
  BY <1>1, KeptIsFinite DEF Kept
<1>3. A \in SUBSET DOMAIN u /\ B \in SUBSET DOMAIN t
  BY DEF WordStarts
<1>4. IsFiniteSet(A) /\ IsFiniteSet(B) /\ Cardinality(A) \in Nat /\ Cardinality(B) \in Nat
  <2> HIDE DEF u, A, B
  <2>1. QED
    BY <1>1, <1>3, KeptIsFinite
<1>5. Words(u) = Cardinality(A) /\ Words(t) = Cardinality(B)
  BY DEF Words, WordStarts
<1>6. A \in SUBSET 1 .. n
  <2> HIDE DEF u, A, n
  <2>1. QED
    BY <1>1, <1>3
<1>7. \A i \in A : i \in 1 .. n /\ ~IsWhite(u[i]) /\ (i = 1 \/ IsWhite(u[i - 1]))
  <2>1. \A i \in A : ~IsWhite(u[i]) /\ (i = 1 \/ IsWhite(u[i - 1]))
    BY DEF WordStarts
  <2>2. QED
    BY <1>6, <2>1
<1> HIDE DEF u, L, n, A
<1>8. \A i \in 1 .. n : IsWhite(u[i]) <=> IsWhite(t[L[i]])
  BY <1>1 DEF IsWhite
<1>9. ASSUME NEW i \in A PROVE L[i] \in B
  <2>1. i \in 1 .. n /\ ~IsWhite(u[i]) /\ (i = 1 \/ IsWhite(u[i - 1]))
    BY <1>7
  <2>2. L[i] \in DOMAIN t /\ ~IsWhite(t[L[i]]) /\ L[i] \in Nat
    BY <1>2, <1>8, <2>1
  <2>3. ASSUME L[i] # 1, ~IsWhite(t[L[i] - 1]) PROVE FALSE
    <3>1. L[i] > 1 /\ L[i] - 1 \in DOMAIN t
      <4>1. DOMAIN t = 1 .. Len(t) /\ Len(t) \in Nat
        OBVIOUS
      <4>2. QED
        BY <2>2, <2>3, <4>1
    <3>2. L[i] - 1 \in Kept(t)
      BY <2>3, <3>1 DEF Kept
    <3>3. PICK m \in 1 .. n : L[m] = L[i] - 1
      BY <1>1, <3>2
    <3>4. m \in Nat /\ i \in Nat /\ m >= 1 /\ i <= n /\ n \in Nat
      BY <1>1, <2>1
    <3>5. m < i
      <4>1. ASSUME m = i PROVE FALSE
        BY <2>2, <3>3, <4>1
      <4>2. ASSUME i < m PROVE FALSE
        <5>1. L[i] < L[m]
          BY <1>1, <2>1, <4>2
        <5>2. QED
          BY <2>2, <3>3, <5>1
      <4>3. QED
        BY <3>4, <4>1, <4>2
    <3>6. i - 1 \in 1 .. n /\ i # 1 /\ i - 1 < i
      BY <3>4, <3>5
    <3>7. IsWhite(t[L[i - 1]])
      BY <1>8, <2>1, <3>6
    <3>8. m # i - 1
      BY <2>3, <3>3, <3>7
    <3>9. m < i - 1
      BY <3>4, <3>5, <3>8
    <3>10. L[m] < L[i - 1] /\ L[i - 1] < L[i] /\ L[i - 1] \in Nat
      BY <1>1, <1>2, <2>1, <3>6, <3>9
    <3>11. QED
      BY <2>2, <3>3, <3>10
  <2>4. QED
    BY <2>2, <2>3 DEF WordStarts
<1> HIDE DEF B
<1>10. \A i, j \in A : L[i] = L[j] => i = j
  <2> SUFFICES ASSUME NEW i \in A, NEW j \in A, L[i] = L[j] PROVE i = j
    OBVIOUS
  <2>1. i \in 1 .. n /\ j \in 1 .. n /\ i \in Nat /\ j \in Nat /\ L[i] \in Nat
    <3>1. i \in 1 .. n /\ j \in 1 .. n
      BY <1>7
    <3>2. i \in Nat /\ j \in Nat
      BY <1>1, <3>1
    <3>3. L[i] \in Nat
      BY <1>2, <3>1
    <3>4. QED
      BY <3>1, <3>2, <3>3
  <2>2. ~(i < j) /\ ~(j < i)
    BY <1>1, <2>1
  <2>3. QED
    BY <2>1, <2>2
<1>11. move \in Injection(A, B)
  BY <1>9, <1>10 DEF Injection, IsInjective
<1>12. Cardinality(A) <= Cardinality(B)
  BY <1>4, <1>11, FS_Injection
<1>13. QED
  BY <1>4, <1>5, <1>12 DEF u

\* What trim leaves: nothing, or a text with no white space at its ends.
LEMMA TrimTwice ==
    ASSUME NEW C \in SUBSET Nat, NEW t \in Seq(C)
    PROVE  trim(t) \in Seq(C) /\ trim(trim(t)) = trim(t)
<1>1. /\ DOMAIN t = 1 .. Len(t) /\ Len(t) \in Nat /\ \A i \in 1 .. Len(t) : t[i] \in C
  OBVIOUS
<1> DEFINE S == Solid(t)
           a == Min(S)
           b == Max(S)
<1>2. S \in SUBSET Nat /\ \A i \in S : i \in 1 .. Len(t) /\ ~IsWhite(t[i])
  BY <1>1 DEF Solid
<1>3. CASE S = {}
  <2>1. trim(t) = <<>>
    BY <1>3 DEF trim, Solid
  <2>2. trim(<<>>) = <<>>
    BY DEF trim
  <2>3. QED
    BY <2>1, <2>2
<1>4. CASE S # {}
  <2>1. trim(t) = SubSeq(t, a, b)
    BY <1>4 DEF trim, Solid
  <2>2. a \in S /\ b \in S /\ a <= b
    <3>1. \E m \in S : \A k \in S : m <= k
      BY <1>2, <1>4, LeastMember
    <3>2. \E m \in S : \A k \in S : k <= m
      <4>1. \A k \in S : k <= Len(t)
        BY <1>1, <1>2
      <4> HIDE DEF S
      <4>2. QED
        BY <1>1, <1>2, <1>4, <4>1, GreatestMember
    <3>3. \E m \in S : \A k \in S : m >= k
      BY <1>2, <3>2
    <3> HIDE DEF S
    <3>4. a \in S /\ \A k \in S : a <= k
      BY <3>1 DEF Min
    <3>5. b \in S
      BY <3>3 DEF Max
    <3>6. QED
      BY <3>4, <3>5
  <2> DEFINE u == SubSeq(t, a, b)
             n == b - a + 1
  <2> HIDE DEF a, b
  <2>3. a \in 1 .. Len(t) /\ b \in 1 .. Len(t) /\ ~IsWhite(t[a]) /\ ~IsWhite(t[b])
    BY <1>2, <2>2
  <2>4. /\ u = [i \in 1 .. n |-> t[a + i - 1]]
        /\ n \in Nat /\ n >= 1
    BY <1>1, <2>2, <2>3
  <2>5. \A i \in 1 .. n : a + i - 1 \in 1 .. Len(t)
    BY <1>1, <2>3
  <2> HIDE DEF u, n
  <2>6. u \in Seq(C) /\ Len(u) = n /\ DOMAIN u = 1 .. n
    BY <1>1, <2>4, <2>5
  <2>7. u[1] = t[a] /\ u[n] = t[b]
    <3>1. a + 1 - 1 = a /\ a + n - 1 = b
      BY <1>1, <2>3 DEF n
    <3>2. 1 \in 1 .. n /\ n \in 1 .. n
      BY <2>4
    <3>3. QED
      BY <2>4, <3>1, <3>2
  <2>8. 1 \in Solid(u) /\ n \in Solid(u) /\ \A i \in Solid(u) : i \in 1 .. n
    BY <2>3, <2>4, <2>6, <2>7 DEF Solid
  <2>9. Min(Solid(u)) = 1 /\ Max(Solid(u)) = n
    <3>1. 1 \in Solid(u) /\ \A k \in Solid(u) : 1 <= k /\ (k = 1 \/ ~(k <= 1))
      BY <2>4, <2>8
    <3>2. n \in Solid(u) /\ \A k \in Solid(u) : n >= k /\ (k = n \/ ~(k >= n))
      BY <2>4, <2>8
    <3>3. Min(Solid(u)) \in Solid(u) /\ \A k \in Solid(u) : Min(Solid(u)) <= k
      BY <3>1 DEF Min
    <3>4. Max(Solid(u)) \in Solid(u) /\ \A k \in Solid(u) : Max(Solid(u)) >= k
      BY <3>2 DEF Max
    <3>5. QED
      BY <3>1, <3>2, <3>3, <3>4
  <2>10. trim(u) = SubSeq(u, 1, n)
    BY <2>8, <2>9 DEF trim, Solid
  <2>11. SubSeq(u, 1, n) = u
    BY <2>4, <2>6
  <2>12. QED
    BY <2>1, <2>6, <2>10, <2>11 DEF u
<1>5. QED
  BY <1>3, <1>4
=============================================================================
