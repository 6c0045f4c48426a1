------------------------- MODULE SumsAndRemainders --------------------------
(***************************************************************************)
(* Division with remainder by a number that is not known: what the proofs  *)
(* about shares modulo a word or a prime use of it; the largest element of *)
(* a set; what the folds of the community modules, sums among them, are    *)
(* equal to, by an induction along a set of numbers; and digits, powers of *)
(* two and ranks.                                                          *)
(***************************************************************************)
EXTENDS Integers, FiniteSetsExt, Functions, FiniteSetTheorems, TLAPS

(* Division with remainder.                                                *)
LEMMA DivMod ==
    ASSUME NEW m \in Nat \ {0}, NEW x \in Int
    PROVE  /\ x = m * (x \div m) + (x % m)
           /\ x % m \in 0 .. m - 1
           /\ x \div m \in Int
OBVIOUS

(* The only multiple of m strictly between -m and m is 0.                  *)
LEMMA SmallMultiple ==
    ASSUME NEW m \in Nat \ {0}, NEW k \in Int, -m < m * k, m * k < m
    PROVE  k = 0
<1>1. CASE k >= 1
    <2>1. m * k >= m
        BY <1>1
    <2> QED BY <2>1
<1>2. CASE k <= -1
    <2>1. m * k <= -m
        BY <1>2
    <2> QED BY <2>1
<1> QED BY <1>1, <1>2

(* The remainder is unique.                                                *)
LEMMA ModUnique ==
    ASSUME NEW m \in Nat \ {0}, NEW x \in Int, NEW q \in Int, NEW y \in 0 .. m - 1,
           x = m * q + y
    PROVE  x % m = y
<1>1. /\ x = m * (x \div m) + (x % m)
      /\ x % m \in 0 .. m - 1
      /\ x \div m \in Int
    BY DivMod
<1>2. m * (q - (x \div m)) = (x % m) - y
    BY <1>1
<1>3. q - (x \div m) = 0
    BY <1>1, <1>2, SmallMultiple
<1> QED BY <1>1, <1>2, <1>3

(* A remainder is its own remainder.                                       *)
LEMMA ModOfSmall ==
    ASSUME NEW m \in Nat \ {0}, NEW y \in 0 .. m - 1
    PROVE  y % m = y
<1>1. y = m * 0 + y /\ y \in Int
    OBVIOUS
<1> QED BY <1>1, ModUnique

(* Numbers with one remainder differ by a multiple of the modulus, and     *)
(* only those.                                                             *)
LEMMA SameRemainder ==
    ASSUME NEW m \in Nat \ {0}, NEW a \in Int, NEW b \in Int
    PROVE  /\ \A q, x : q \in Int /\ x = m * q /\ a = b + x => a % m = b % m
           /\ a % m = b % m => \E q \in Int : a = b + m * q
<1>1. ASSUME NEW q \in Int, NEW x, x = m * q, a = b + x
      PROVE  a % m = b % m
  <2>1. b = m * (b \div m) + (b % m) /\ b % m \in 0 .. m - 1 /\ b \div m \in Int
    BY DivMod
  <2>2. (b \div m) + q \in Int
    BY <2>1
  <2>3. m * ((b \div m) + q) = m * (b \div m) + m * q
    BY <2>1
  <2>4. m * q \in Int /\ m * (b \div m) \in Int
    BY <2>1
  <2>5. a = m * ((b \div m) + q) + (b % m)
    BY <1>1, <2>1, <2>3, <2>4
  <2>6. QED
    BY <2>1, <2>2, <2>5, ModUnique
<1>2. ASSUME a % m = b % m
      PROVE  \E q \in Int : a = b + m * q
  <2>1. b = m * (b \div m) + (b % m) /\ b \div m \in Int /\ b % m \in Int
    BY DivMod
  <2>2. a = m * (a \div m) + (a % m) /\ a \div m \in Int
    BY DivMod
  <2>3. m * ((a \div m) - (b \div m)) = m * (a \div m) - m * (b \div m)
    BY <2>1, <2>2
  <2>4. m * (a \div m) \in Int /\ m * (b \div m) \in Int
    BY <2>1, <2>2
  <2>5. a = b + m * ((a \div m) - (b \div m))
    BY <1>2, <2>1, <2>2, <2>3, <2>4
  <2>6. (a \div m) - (b \div m) \in Int
    BY <2>1, <2>2
  <2>7. QED
    BY <2>5, <2>6
<1>3. QED
  BY <1>1, <1>2

(* The share that complements r: either d - r, or m more where d is below. *)
LEMMA ModOfDifference ==
    ASSUME NEW m \in Nat \ {0}, NEW d \in 0 .. m - 1, NEW r \in 0 .. m - 1
    PROVE  (d - r) % m = IF r > d THEN d - r + m ELSE d - r
<1>1. CASE r > d
    <2>1. d - r \in Int /\ d - r + m \in 0 .. m - 1 /\ d - r = m * (-1) + (d - r + m)
        BY <1>1
    <2> QED BY <1>1, <2>1, ModUnique
<1>2. CASE ~ (r > d)
    <2>1. d - r \in 0 .. m - 1
        BY <1>2
    <2> QED BY <1>2, <2>1, ModOfSmall
<1> QED BY <1>1, <1>2

(* A share and its complement add up to the value, and so do they where    *)
(* the complement is m less.                                               *)
LEMMA ComplementAdds ==
    ASSUME NEW m \in Nat \ {0}, NEW d \in 0 .. m - 1, NEW r \in 0 .. m - 1
    PROVE  /\ (d - r) % m \in 0 .. m - 1
           /\ (r + ((d - r) % m)) % m = d
           /\ (r + (((d - r) % m) - m)) % m = d
           /\ (((d - r) % m) - m) % m = (d - r) % m
<1> DEFINE s == (d - r) % m
<1>1. s = IF r > d THEN d - r + m ELSE d - r
    BY ModOfDifference
<1>2. s \in 0 .. m - 1
    BY <1>1
<1> HIDE DEF s
<1>3. PICK q \in {0, 1} : r + s = m * q + d
    BY <1>1
<1>4. (r + s) % m = d
    <2>1. q \in Int /\ r + s \in Int
        BY <1>2
    <2> QED BY <1>3, <2>1, ModUnique
<1>5. (r + (s - m)) % m = d
    <2>1. q - 1 \in Int /\ r + (s - m) \in Int /\ r + (s - m) = m * (q - 1) + d
        BY <1>2, <1>3
    <2> QED BY <2>1, ModUnique
<1>6. (s - m) % m = s
    <2>1. s - m \in Int /\ s - m = m * (-1) + s
        BY <1>2
    <2> QED BY <1>2, <2>1, ModUnique
<1> QED BY <1>2, <1>4, <1>5, <1>6 DEF s

(* So is the quotient.                                                     *)
LEMMA DivUnique ==
    ASSUME NEW m \in Nat \ {0}, NEW x \in Int, NEW q \in Int, NEW y \in 0 .. m - 1,
           x = m * q + y
    PROVE  x \div m = q
<1>1. /\ x = m * (x \div m) + (x % m)
      /\ x % m = y
      /\ x \div m \in Int
    BY DivMod, ModUnique
<1>2. m * (q - (x \div m)) = 0
    BY <1>1
<1>3. q - (x \div m) = 0
    BY <1>1, <1>2, SmallMultiple
<1> QED BY <1>1, <1>3

(* The quotient grows by one where the remainder is the last, and is the   *)
(* same elsewhere.                                                         *)
LEMMA QuotientStep ==
    ASSUME NEW m \in Nat \ {0}, NEW x \in Nat
    PROVE  (x + 1) \div m = IF x % m = m - 1 THEN (x \div m) + 1 ELSE x \div m
<1> DEFINE q == x \div m
           y == x % m
<1>1. x = m * q + y /\ y \in 0 .. m - 1 /\ q \in Int
    BY DivMod
<1> HIDE DEF q, y
<1>2. CASE y = m - 1
    <2>1. x + 1 = m * (q + 1) + 0
        BY <1>1, <1>2
    <2>2. (x + 1) \div m = q + 1
        BY <1>1, <2>1, DivUnique
    <2> QED BY <1>2, <2>2 DEF q, y
<1>3. CASE y # m - 1
    <2>1. x + 1 = m * q + (y + 1) /\ y + 1 \in 0 .. m - 1
        BY <1>1, <1>3
    <2>2. (x + 1) \div m = q
        BY <1>1, <2>1, DivUnique
    <2> QED BY <1>3, <2>2 DEF q, y
<1> QED BY <1>2, <1>3

(* A quotient is a natural number that is at most the number divided.      *)
LEMMA QuotientBound ==
    ASSUME NEW m \in Nat \ {0}, NEW x \in Nat
    PROVE  x \div m \in 0 .. x
<1> DEFINE q == x \div m
<1>1. x = m * q + (x % m) /\ x % m \in 0 .. m - 1 /\ q \in Int
    BY DivMod
<1> HIDE DEF q
<1>2. q >= 0
    <2>1. CASE q <= -1
        <3>1. m * q <= -m
            BY <1>1, <2>1
        <3> QED BY <1>1, <3>1
    <2> QED BY <1>1, <2>1
<1>3. m * q >= q
    BY <1>1, <1>2
<1> QED BY <1>1, <1>2, <1>3 DEF q

(* A non-empty finite set of numbers has a largest element: the hash map   *)
(* of generate_response keeps a definite row for every prefix it holds,    *)
(* and the parameters of PIRANA are such elements.                         *)
LEMMA LargestElement ==
    ASSUME NEW S \in SUBSET Nat, IsFiniteSet(S), S # {}
    PROVE  \E h \in S : \A g \in S : g <= h
<1> DEFINE Above(h) == {g \in S : g > h}
           T == {Above(h) : h \in S}
<1>1. T # {}
    OBVIOUS
<1>2. T \subseteq FiniteSubsetsOf(S)
    <2>1. T \subseteq SUBSET S
        OBVIOUS
    <2> QED BY <2>1, FS_FiniteSubsetsOfFinite
<1>3. PICK U \in T : \A V \in T : ~ (<<V, U>> \in StrictSubsetOrdering(S))
    <2> HIDE DEF T
    <2> QED BY <1>1, <1>2, FS_StrictSubsetOrderingWellFounded, WFMin
<1>4. PICK h \in S : U = Above(h)
    BY <1>3
<1>5. ASSUME NEW g \in S, g > h
      PROVE  FALSE
    <2>0. \A x \in S : x \in Nat
        OBVIOUS
    <2>1. \A x \in Above(g) : x \in Above(h)
        BY <2>0, <1>5
    <2>2. g \in Above(h) /\ g \notin Above(g)
        BY <2>0, <1>5
    <2>3. Above(g) \in SUBSET S /\ Above(h) \in SUBSET S
        OBVIOUS
    <2>4. <<Above(g), Above(h)>> \in StrictSubsetOrdering(S)
        <3> HIDE DEF Above
        <3> QED BY <2>1, <2>2, <2>3 DEF StrictSubsetOrdering
    <2>5. Above(g) \in T
        OBVIOUS
    <2> QED
        <3> HIDE DEF Above, T
        <3> QED BY <1>3, <1>4, <2>4, <2>5
<1> QED BY <1>5

(* A set of numbers has a smallest element.                                *)
LEMMA SmallestElement ==
    ASSUME NEW S \in SUBSET Nat, S # {}
    PROVE  \E h \in S : \A g \in S : h <= g
<1>1. PICK y \in S : TRUE
    OBVIOUS
<1> DEFINE R == {g \in 0 .. y : y - g \in S}
<1>2. R \in SUBSET Nat /\ R # {} /\ IsFiniteSet(R)
    <2> DEFINE zero == 0
    <2>1. zero \in Int /\ y \in Int /\ y \in Nat
        OBVIOUS
    <2>2. R \subseteq zero .. y
        OBVIOUS
    <2>3. y - 0 = y /\ 0 \in 0 .. y
        BY <2>1
    <2>4. R # {}
        BY <2>3
    <2>5. R \in SUBSET Nat
        OBVIOUS
    <2> HIDE DEF zero, R
    <2>6. IsFiniteSet(zero .. y)
        BY <2>1, FS_Interval
    <2> QED BY <2>2, <2>4, <2>5, <2>6, FS_Subset
<1>3. PICK h \in R : \A g \in R : g <= h
    <2> HIDE DEF R
    <2> QED BY <1>2, LargestElement
<1>4. y - h \in S /\ h \in 0 .. y
    OBVIOUS
<1>5. ASSUME NEW g \in S PROVE y - h <= g
    <2>1. CASE g > y
        BY <2>1, <1>4
    <2>2. CASE ~ (g > y)
        <3>1. y - g \in 0 .. y /\ y - (y - g) = g
            BY <2>2
        <3>2. y - g \in R
            BY <3>1
        <3>3. y - g <= h
            BY <3>2, <1>3
        <3> QED BY <3>1, <3>3, <1>4
    <2> QED BY <2>1, <2>2
<1> QED BY <1>4, <1>5

(* What Min chooses.                                                       *)
LEMMA MinIs ==
    ASSUME NEW S \in SUBSET Nat, S # {}
    PROVE  Min(S) \in S /\ \A x \in S : Min(S) <= x
<1>1. PICK h \in S : \A g \in S : h <= g
    BY SmallestElement
<1> QED BY <1>1 DEF Min

(* And Max, in a finite set.                                               *)
LEMMA MaxIs ==
    ASSUME NEW S \in SUBSET Nat, S # {}, IsFiniteSet(S)
    PROVE  Max(S) \in S /\ \A x \in S : x <= Max(S)
<1>1. PICK h \in S : \A g \in S : g <= h
    BY LargestElement
<1>2. \A g \in S : h >= g
    BY <1>1
<1>3. Max(S) \in S /\ \A x \in S : Max(S) >= x
    BY <1>2 DEF Max
<1> QED BY <1>3

-----------------------------------------------------------------------------
(* Folds over finite sets.                                                 *)

(* Induction up to a number, for a set in place of a property.             *)
LEMMA InductionUpTo ==
    ASSUME NEW m \in Nat, NEW S, 0 \in S,
           \A n \in 0 .. m - 1 : n \in S => n + 1 \in S
    PROVE  \A n \in 0 .. m : n \in S
<1> SUFFICES ASSUME NEW n \in 0 .. m, n \notin S PROVE FALSE
    OBVIOUS
<1> DEFINE D == {k \in 0 .. n : \A j \in 0 .. k : j \in S}
<1>1. IsFiniteSet(D)
    <2>1. IsFiniteSet(0 .. n)
        BY FS_Interval
    <2> QED BY <2>1, FS_Subset
<1>2. 0 \in D /\ D \in SUBSET Int
    OBVIOUS
<1>3. PICK k \in D : \A g \in D : g <= k
    BY <1>1, <1>2, LargestElement
<1>4. k \in 0 .. m - 1 /\ k + 1 \in 0 .. n
    OBVIOUS
<1>5. k + 1 \in S
    BY <1>4
<1>6. \A j \in 0 .. k + 1 : j \in 0 .. k \/ j = k + 1
    BY <1>4
<1>7. k + 1 \in D
    BY <1>4, <1>5, <1>6
<1> QED BY <1>3, <1>4, <1>7

(* A fold over a finite set exists, whichever element is taken first.      *)
Foldable(S, D, base, h, G) ==
    /\ IsFiniteSet(S) /\ base \in D
    /\ \A s \in SUBSET S : s # {} => h[s] \in s
    /\ \A x \in S : \A d \in D : G[x][d] \in D
Folded(S, D, base, h, G, iter) ==
    /\ iter = [s \in SUBSET S |-> IF s = {} THEN base ELSE G[h[s]][iter[s \ {h[s]}]]]
    /\ \A s \in SUBSET S : iter[s] \in D

(* A fold over a finite set is well defined, whatever the choice h: by     *)
(* induction along the number of elements.                                 *)
LEMMA FoldExists ==
    ASSUME NEW S, NEW D, NEW base, NEW h, NEW G, Foldable(S, D, base, h, G)
    PROVE  \E iter : Folded(S, D, base, h, G, iter)
<1> USE DEF Foldable
<1> DEFINE T(n) == {s \in SUBSET S : Cardinality(s) <= n}
           Value(iter, s) == IF s = {} THEN base ELSE G[h[s]][iter[s \ {h[s]}]]
           Good(n, iter) == \A s \in T(n) : iter[s] = Value(iter, s) /\ iter[s] \in D
           c == Cardinality(S)
           A == {n \in 0 .. c : \E iter : Good(n, iter)}
<1>1. c \in Nat /\ \A s \in SUBSET S : IsFiniteSet(s) /\ Cardinality(s) \in 0 .. c
    <2>1. c \in Nat
        BY FS_CardinalityType
    <2>2. ASSUME NEW s \in SUBSET S PROVE IsFiniteSet(s) /\ Cardinality(s) \in 0 .. c
        <3>1. IsFiniteSet(s) /\ Cardinality(s) <= c
            BY FS_Subset
        <3>2. Cardinality(s) \in Nat
            BY <3>1, FS_CardinalityType
        <3> QED BY <2>1, <3>1, <3>2
    <2> QED BY <2>1, <2>2
<1>2. \A s \in SUBSET S : s # {} => /\ s \ {h[s]} \in SUBSET S
                                    /\ Cardinality(s \ {h[s]}) = Cardinality(s) - 1
    BY <1>1, FS_RemoveElement
<1>3. 0 \in A
    <2> DEFINE iter == [s \in SUBSET S |-> base]
    <2>1. ASSUME NEW s \in T(0) PROVE s = {}
        BY <1>1, FS_EmptySet
    <2>2. Good(0, iter)
        BY <2>1
    <2>3. 0 \in 0 .. c
        BY <1>1
    <2> QED BY <2>2, <2>3
<1>4. ASSUME NEW n \in 0 .. c - 1, n \in A PROVE n + 1 \in A
    <2>1. PICK iter : Good(n, iter)
        BY <1>4
    <2> DEFINE more == [s \in SUBSET S |-> IF s \in T(n) THEN iter[s] ELSE Value(iter, s)]
    <2>2. ASSUME NEW s \in T(n + 1) PROVE more[s] = Value(more, s) /\ more[s] \in D
        <3>1. CASE s = {}
            <4>1. Cardinality(s) = 0
                BY <3>1, FS_EmptySet
            <4>2. s \in T(n)
                BY <1>1, <4>1
            <4> QED BY <2>1, <3>1, <4>2
        <3>2. CASE s # {}
            <4> DEFINE r == s \ {h[s]}
            <4>1. r \in T(n) /\ h[s] \in S
                BY <1>1, <1>2, <3>2
            <4>2. more[r] = iter[r] /\ iter[r] \in D
                BY <2>1, <4>1
            <4>3. Value(more, s) = Value(iter, s)
                BY <3>2, <4>2
            <4>4. Value(iter, s) \in D
                BY <3>2, <4>1, <4>2
            <4>5. s \in T(n) => more[s] = Value(iter, s)
                BY <2>1
            <4>6. s \notin T(n) => more[s] = Value(iter, s)
                OBVIOUS
            <4> HIDE DEF more, Value, T
            <4> QED BY <4>3, <4>4, <4>5, <4>6
        <3> QED BY <3>1, <3>2
    <2>3. Good(n + 1, more)
        BY <2>2
    <2>4. n + 1 \in 0 .. c
        BY <1>1
    <2> HIDE DEF Good
    <2> QED BY <2>3, <2>4
<1>5. c \in A
    <2> HIDE DEF A
    <2>1. \A n \in 0 .. c - 1 : n \in A => n + 1 \in A
        BY <1>4
    <2>2. \A n \in 0 .. c : n \in A
        BY <1>1, <1>3, <2>1, InductionUpTo
    <2> QED BY <1>1, <2>2
<1>6. PICK iter : Good(c, iter)
    BY <1>5
<1>7. \A s \in SUBSET S : s \in T(c)
    BY <1>1
<1> DEFINE whole == [s \in SUBSET S |-> iter[s]]
<1>8. \A s \in SUBSET S : whole[s] = Value(whole, s) /\ whole[s] \in D
    BY <1>2, <1>6, <1>7
<1>9. whole = [s \in SUBSET S |-> Value(whole, s)]
    BY <1>8
<1> HIDE DEF whole
<1>10. Folded(S, D, base, h, G, whole)
    BY <1>8, <1>9 DEF Folded
<1> QED BY <1>10

(* Induction over the subsets of a finite set.                             *)
LEMMA SetInduction ==
    ASSUME NEW S, IsFiniteSet(S), NEW A, {} \in A,
           \A s \in SUBSET S : \A x \in S \ s : s \in A => s \cup {x} \in A
    PROVE  \A s \in SUBSET S : s \in A
<1> DEFINE c == Cardinality(S)
           B == {n \in 0 .. c : \A s \in SUBSET S : Cardinality(s) = n => s \in A}
<1>1. c \in Nat /\ \A s \in SUBSET S : IsFiniteSet(s) /\ Cardinality(s) \in 0 .. c
    <2>1. c \in Nat
        BY FS_CardinalityType
    <2>2. ASSUME NEW s \in SUBSET S PROVE IsFiniteSet(s) /\ Cardinality(s) \in 0 .. c
        <3>1. IsFiniteSet(s) /\ Cardinality(s) <= c
            BY FS_Subset
        <3>2. Cardinality(s) \in Nat
            BY <3>1, FS_CardinalityType
        <3> QED BY <2>1, <3>1, <3>2
    <2> QED BY <2>1, <2>2
<1>2. 0 \in B
    BY <1>1, FS_EmptySet
<1>3. ASSUME NEW n \in 0 .. c - 1, n \in B PROVE n + 1 \in B
    <2>1. ASSUME NEW s \in SUBSET S, Cardinality(s) = n + 1 PROVE s \in A
        <3>1. s # {}
            BY <1>1, <2>1, FS_EmptySet
        <3>2. PICK x \in s : TRUE
            BY <3>1
        <3>3. Cardinality(s \ {x}) = n /\ s \ {x} \in SUBSET S
            BY <1>1, <2>1, <3>2, FS_RemoveElement
        <3>4. s \ {x} \in A /\ x \in S \ (s \ {x})
            BY <1>3, <3>2, <3>3
        <3>5. (s \ {x}) \cup {x} = s
            BY <3>2
        <3> QED BY <3>3, <3>4, <3>5
    <2>2. n + 1 \in 0 .. c
        BY <1>1
    <2> QED BY <2>1, <2>2
<1>4. \A n \in 0 .. c : n \in B
    <2> HIDE DEF B
    <2>1. \A n \in 0 .. c - 1 : n \in B => n + 1 \in B
        BY <1>3
    <2> QED BY <1>1, <1>2, <2>1, InductionUpTo
<1> QED BY <1>1, <1>4

-----------------------------------------------------------------------------
(* Sums of integers over finite sets.                                      *)
Ints(F) == IsFiniteSet(DOMAIN F) /\ \A x \in DOMAIN F : F[x] \in Int

(* The sums over all subsets: an element more adds its term.               *)
LEMMA SumIs ==
    ASSUME NEW F, Ints(F)
    PROVE  \E P : /\ P[{}] = 0
                  /\ \A s \in SUBSET DOMAIN F : P[s] \in Int
                  /\ \A s \in SUBSET DOMAIN F : \A x \in s : P[s] = F[x] + P[s \ {x}]
                  /\ SumFunction(F) = P[DOMAIN F]
<1> DEFINE S == DOMAIN F
           h == [s \in SUBSET S |-> CHOOSE x \in s : TRUE]
           G == [x \in S |-> [d \in Int |-> F[x] + d]]
           Folds(iter) == iter = [s \in SUBSET S |->
                             IF s = {} THEN 0
                             ELSE F[CHOOSE x \in s : TRUE] + iter[s \ {CHOOSE x \in s : TRUE}]]
<1>1. IsFiniteSet(S) /\ \A x \in S : F[x] \in Int
    BY DEF Ints
<1>2. SumFunction(F) = (CHOOSE iter : Folds(iter))[S]
    BY DEF SumFunction, SumFunctionOnSet, FoldFunctionOnSet, MapThenFoldSet
<1>3. \A s \in SUBSET S : s # {} => h[s] \in s
    OBVIOUS
<1>4. \A x \in S : \A d \in Int : G[x][d] \in Int /\ G[x][d] = F[x] + d
    BY <1>1
<1>5. \E iter : Folds(iter)
    <2>1. PICK iter : Folded(S, Int, 0, h, G, iter)
        <3> HIDE DEF h, G, S
        <3>1. Foldable(S, Int, 0, h, G)
            BY <1>1, <1>3, <1>4 DEF Foldable
        <3> QED BY <3>1, FoldExists
    <2>2. ASSUME NEW s \in SUBSET S, s # {}
          PROVE  G[h[s]][iter[s \ {h[s]}]] = F[CHOOSE x \in s : TRUE] + iter[s \ {CHOOSE x \in s : TRUE}]
        <3>1. h[s] = CHOOSE x \in s : TRUE
            OBVIOUS
        <3>2. h[s] \in S /\ s \ {h[s]} \in SUBSET S
            BY <1>3, <2>2
        <3>3. iter[s \ {h[s]}] \in Int
            BY <2>1, <3>2 DEF Folded
        <3>4. G[h[s]][iter[s \ {h[s]}]] = F[h[s]] + iter[s \ {h[s]}]
            <4> HIDE DEF G, h
            <4> QED BY <1>4, <3>2, <3>3
        <3> QED BY <3>1, <3>4
    <2>3. iter = [s \in SUBSET S |->
                     IF s = {} THEN 0
                     ELSE F[CHOOSE x \in s : TRUE] + iter[s \ {CHOOSE x \in s : TRUE}]]
        <3> HIDE DEF G, h, S
        <3> QED BY <2>1, <2>2 DEF Folded
    <2> QED BY <2>3
<1>6. PICK P : Folds(P) /\ SumFunction(F) = P[S]
    BY <1>2, <1>5
<1>7. P[{}] = 0
    BY <1>6
<1>8. ASSUME NEW s \in SUBSET S, s # {} PROVE \E x \in s : P[s] = F[x] + P[s \ {x}]
    BY <1>6, <1>8
<1> HIDE DEF Folds, S
<1> DEFINE A == {s \in SUBSET S : P[s] \in Int /\ \A x \in s : P[s] = F[x] + P[s \ {x}]}
           Small(n) == \A s \in SUBSET S : Cardinality(s) <= n => s \in A
           c == Cardinality(S)
           B == {n \in 0 .. c : Small(n)}
<1>9. c \in Nat /\ \A s \in SUBSET S : IsFiniteSet(s) /\ Cardinality(s) \in 0 .. c
    <2>1. c \in Nat
        BY <1>1, FS_CardinalityType
    <2>2. ASSUME NEW s \in SUBSET S PROVE IsFiniteSet(s) /\ Cardinality(s) \in 0 .. c
        <3>1. IsFiniteSet(s) /\ Cardinality(s) <= c
            BY <1>1, FS_Subset
        <3>2. Cardinality(s) \in Nat
            BY <3>1, FS_CardinalityType
        <3> QED BY <2>1, <3>1, <3>2
    <2> QED BY <2>1, <2>2
<1>10. 0 \in B
    <2>1. ASSUME NEW s \in SUBSET S, Cardinality(s) <= 0 PROVE s \in A
        <3>1. s = {}
            BY <1>9, <2>1, FS_EmptySet
        <3> QED BY <1>7, <3>1
    <2>2. 0 \in 0 .. c
        BY <1>9
    <2> QED BY <2>1, <2>2
<1>11. ASSUME NEW n \in 0 .. c - 1, n \in B PROVE n + 1 \in B
    <2>1. ASSUME NEW s \in SUBSET S, Cardinality(s) <= n + 1 PROVE s \in A
        <3>1. CASE s = {}
            BY <1>7, <3>1
        <3>2. CASE s # {}
            <4>1. PICK y \in s : P[s] = F[y] + P[s \ {y}]
                BY <1>8, <3>2
            <4>2. \A x \in s : s \ {x} \in A
                <5>1. ASSUME NEW x \in s PROVE Cardinality(s \ {x}) <= n /\ s \ {x} \in SUBSET S
                    <6>1. Cardinality(s \ {x}) = Cardinality(s) - 1
                        BY <1>9, FS_RemoveElement
                    <6> QED BY <1>9, <2>1, <6>1
                <5> QED BY <1>11, <5>1
            <4>3. y \in S /\ F[y] \in Int /\ P[s \ {y}] \in Int
                BY <1>1, <4>2
            <4>4. P[s] \in Int
                BY <4>1, <4>3
            <4>5. ASSUME NEW x \in s PROVE P[s] = F[x] + P[s \ {x}]
                <5>1. CASE x = y
                    BY <4>1, <5>1
                <5>2. CASE x # y
                    <6>1. x \in s \ {y} /\ y \in s \ {x} /\ (s \ {y}) \ {x} = (s \ {x}) \ {y}
                        BY <5>2
                    <6>2. P[s \ {y}] = F[x] + P[(s \ {y}) \ {x}]
                        BY <4>2, <6>1
                    <6>3. P[s \ {x}] = F[y] + P[(s \ {x}) \ {y}]
                        BY <4>2, <6>1
                    <6>4. x \in S /\ F[x] \in Int /\ P[s \ {x}] \in Int
                        BY <1>1, <4>2
                    <6>5. (s \ {x}) \ {y} \in SUBSET S
                        OBVIOUS
                    <6>6. P[(s \ {x}) \ {y}] \in Int
                        <7>1. Cardinality((s \ {x}) \ {y}) <= n
                            <8>1. Cardinality(s \ {x}) = Cardinality(s) - 1
                                BY <1>9, FS_RemoveElement
                            <8>2. Cardinality((s \ {x}) \ {y}) = Cardinality(s \ {x}) - 1
                                <9>1. IsFiniteSet(s \ {x})
                                    BY <1>9, FS_RemoveElement
                                <9> QED BY <6>1, <9>1, FS_RemoveElement
                            <8> QED BY <1>9, <2>1, <8>1, <8>2
                        <7>2. Small(n)
                            BY <1>11
                        <7>3. (s \ {x}) \ {y} \in A
                            <8> HIDE DEF A
                            <8> QED BY <6>5, <7>1, <7>2
                        <7> QED BY <7>3
                    <6> DEFINE u == P[s \ {x}]
                               v == P[s \ {y}]
                               w == P[(s \ {x}) \ {y}]
                               a == F[x]
                               b == F[y]
                    <6>7. P[s] = b + v /\ v = a + w /\ u = b + w
                        BY <4>1, <6>1, <6>2, <6>3
                    <6>8. a \in Int /\ b \in Int /\ w \in Int
                        BY <4>3, <6>4, <6>6
                    <6> HIDE DEF u, v, w, a, b
                    <6>9. P[s] = a + u
                        BY <6>7, <6>8
                    <6> QED BY <6>9 DEF a, u
                <5> QED BY <5>1, <5>2
            <4> QED BY <4>4, <4>5
        <3> QED BY <3>1, <3>2
    <2>2. n + 1 \in 0 .. c
        BY <1>9
    <2> HIDE DEF A
    <2> QED BY <2>1, <2>2
<1>12. \A n \in 0 .. c : n \in B
    <2> HIDE DEF B
    <2>1. \A n \in 0 .. c - 1 : n \in B => n + 1 \in B
        BY <1>11
    <2> QED BY <1>9, <1>10, <2>1, InductionUpTo
<1>13. \A s \in SUBSET S : s \in A
    <2>1. c \in B
        BY <1>9, <1>12
    <2> HIDE DEF A
    <2> QED BY <1>9, <2>1
<1>14. /\ \A s \in SUBSET S : P[s] \in Int
       /\ \A s \in SUBSET S : \A x \in s : P[s] = F[x] + P[s \ {x}]
    BY <1>13
<1> QED BY <1>6, <1>7, <1>14 DEF S

-----------------------------------------------------------------------------
(* The sum of a function over a set.                                       *)

(* P gives the sum of F over every subset of S.                            *)
AreSums(S, F, P) ==
    /\ P[{}] = 0
    /\ \A s \in SUBSET S : P[s] \in Int
    /\ \A s \in SUBSET S : \A x \in s : P[s] = F[x] + P[s \ {x}]

(* Sums of the same terms are the same.                                    *)
LEMMA SumsAgree ==
    ASSUME NEW S, IsFiniteSet(S), NEW F, NEW P, NEW G, NEW Q,
           AreSums(S, F, P), AreSums(S, G, Q), \A x \in S : F[x] = G[x]
    PROVE  \A s \in SUBSET S : P[s] = Q[s]
<1> DEFINE A == {s \in SUBSET S : P[s] = Q[s]}
<1>1. {} \in A
    BY DEF AreSums
<1>2. ASSUME NEW s \in SUBSET S, NEW x \in S \ s, s \in A PROVE s \cup {x} \in A
    <2>1. s \cup {x} \in SUBSET S /\ x \in s \cup {x} /\ (s \cup {x}) \ {x} = s
        OBVIOUS
    <2> DEFINE r == s \cup {x}
    <2> HIDE DEF r
    <2>2. P[r] = F[x] + P[r \ {x}] /\ Q[r] = G[x] + Q[r \ {x}]
        BY <2>1 DEF AreSums, r
    <2>3. r \ {x} = s /\ P[s] = Q[s] /\ F[x] = G[x]
        BY <1>2, <2>1 DEF r
    <2>4. r \in A
        BY <2>1, <2>2, <2>3 DEF r
    <2> QED BY <2>4 DEF r
<1> HIDE DEF A
<1>3. \A s \in SUBSET S : s \in A
    BY <1>1, <1>2, SetInduction
<1> QED BY <1>3 DEF A

(* All sums of terms of F.                                                 *)
LEMMA PartialSums ==
    ASSUME NEW S, IsFiniteSet(S), NEW F, \A x \in S : F[x] \in Int
    PROVE  \E P : AreSums(S, F, P) /\ \A s \in SUBSET S : SumFunction([x \in s |-> F[x]]) = P[s]
<1>1. ASSUME NEW s \in SUBSET S
      PROVE  \E P : AreSums(s, F, P) /\ SumFunction([x \in s |-> F[x]]) = P[s]
    <2> DEFINE f == [x \in s |-> F[x]]
    <2>1. DOMAIN f = s /\ \A x \in s : f[x] = F[x]
        OBVIOUS
    <2>2. Ints(f)
        <3>1. IsFiniteSet(s)
            BY FS_Subset
        <3> QED BY <3>1 DEF Ints
    <2> HIDE DEF f
    <2>3. PICK P : /\ P[{}] = 0
                   /\ \A r \in SUBSET s : P[r] \in Int
                   /\ \A r \in SUBSET s : \A x \in r : P[r] = f[x] + P[r \ {x}]
                   /\ SumFunction(f) = P[s]
        BY <2>1, <2>2, SumIs
    <2>4. AreSums(s, F, P)
        BY <2>1, <2>3 DEF AreSums
    <2> QED BY <2>3, <2>4 DEF f
<1>2. PICK P : AreSums(S, F, P)
    BY <1>1
<1>3. ASSUME NEW s \in SUBSET S PROVE SumFunction([x \in s |-> F[x]]) = P[s]
    <2>1. PICK Q : AreSums(s, F, Q) /\ SumFunction([x \in s |-> F[x]]) = Q[s]
        BY <1>1
    <2>2. AreSums(s, F, P)
        BY <1>2 DEF AreSums
    <2>3. IsFiniteSet(s)
        BY FS_Subset
    <2>4. P[s] = Q[s]
        BY <2>1, <2>2, <2>3, SumsAgree
    <2> QED BY <2>1, <2>4
<1> QED BY <1>2, <1>3

(* The sum of F over S, as SumFunction computes it.                        *)
SumOn(S, F) == SumFunction([x \in S |-> F[x]])

(* The sum without a term.                                                 *)
LEMMA SumStep ==
    ASSUME NEW S, IsFiniteSet(S), NEW F, \A x \in S : F[x] \in Int
    PROVE  /\ SumOn(S, F) \in Int
           /\ SumOn({}, F) = 0
           /\ \A x \in S : SumOn(S, F) = F[x] + SumOn(S \ {x}, F)
<1>1. PICK P : AreSums(S, F, P) /\ \A s \in SUBSET S : SumOn(s, F) = P[s]
    BY PartialSums DEF SumOn
<1> QED BY <1>1 DEF AreSums

(* A new element adds its term.                                            *)
LEMMA SumAdds ==
    ASSUME NEW S, IsFiniteSet(S), NEW x, x \notin S, NEW F, F[x] \in Int, \A y \in S : F[y] \in Int
    PROVE  SumOn(S \cup {x}, F) = F[x] + SumOn(S, F)
<1>1. IsFiniteSet(S \cup {x}) /\ x \in S \cup {x} /\ (S \cup {x}) \ {x} = S
    BY FS_AddElement
<1>2. \A y \in S \cup {x} : F[y] \in Int
    OBVIOUS
<1> QED BY <1>1, <1>2, SumStep

(* Equal terms have equal sums.                                            *)
LEMMA SumEqual ==
    ASSUME NEW S, NEW F, NEW G, \A x \in S : F[x] = G[x]
    PROVE  SumOn(S, F) = SumOn(S, G)
<1>1. [x \in S |-> F[x]] = [x \in S |-> G[x]]
    OBVIOUS
<1> QED BY <1>1 DEF SumOn

(* Sums are linear.                                                        *)
LEMMA SumLinear ==
    ASSUME NEW S, IsFiniteSet(S), NEW F, NEW G, NEW H, NEW a \in Int, NEW b \in Int,
           \A x \in S : F[x] \in Int /\ G[x] \in Int /\ H[x] = (a * F[x]) + (b * G[x])
    PROVE  SumOn(S, H) = (a * SumOn(S, F)) + (b * SumOn(S, G))
<1> DEFINE A == {s \in SUBSET S : SumOn(s, H) = (a * SumOn(s, F)) + (b * SumOn(s, G))}
<1>0. \A x \in S : H[x] \in Int
    <2> TAKE x \in S
    <2> DEFINE u == F[x]
               v == G[x]
    <2>1. u \in Int /\ v \in Int /\ H[x] = (a * u) + (b * v)
        OBVIOUS
    <2> HIDE DEF u, v
    <2> QED BY <2>1
<1>1. {} \in A
    <2>1. SumOn({}, H) = 0 /\ SumOn({}, F) = 0 /\ SumOn({}, G) = 0
        BY <1>0, SumStep
    <2> QED BY <2>1
<1>2. ASSUME NEW s \in SUBSET S, NEW x \in S \ s, s \in A PROVE s \cup {x} \in A
    <2>1. IsFiniteSet(s)
        BY FS_Subset
    <2> DEFINE u == F[x]
               v == G[x]
               p == SumOn(s, F)
               q == SumOn(s, G)
    <2>2. /\ SumOn(s \cup {x}, F) = u + p /\ SumOn(s \cup {x}, G) = v + q
          /\ SumOn(s \cup {x}, H) = H[x] + SumOn(s, H)
        BY <1>0, <2>1, SumAdds
    <2>3. u \in Int /\ v \in Int /\ H[x] = (a * u) + (b * v) /\ SumOn(s, H) = (a * p) + (b * q)
        BY <1>2
    <2>4. p \in Int /\ q \in Int
        BY <2>1, SumStep
    <2> HIDE DEF u, v, p, q
    <2>5. ((a * u) + (b * v)) + ((a * p) + (b * q)) = (a * (u + p)) + (b * (v + q))
        BY <2>3, <2>4
    <2> QED BY <2>2, <2>3, <2>5
<1> HIDE DEF A
<1>3. \A s \in SUBSET S : s \in A
    BY <1>1, <1>2, SetInduction
<1> QED BY <1>3 DEF A

(* Terms of zero.                                                          *)
LEMMA SumZero ==
    ASSUME NEW S, IsFiniteSet(S), NEW F, \A x \in S : F[x] = 0
    PROVE  SumOn(S, F) = 0
<1>1. SumOn(S, F) = (0 * SumOn(S, F)) + (0 * SumOn(S, F))
    <2>1. 0 \in Int /\ \A x \in S : F[x] \in Int /\ F[x] = (0 * F[x]) + (0 * F[x])
        OBVIOUS
    <2> QED BY <2>1, SumLinear
<1>2. SumOn(S, F) \in Int
    BY SumStep
<1> QED BY <1>1, <1>2

(* A common factor.                                                        *)
LEMMA SumScale ==
    ASSUME NEW S, IsFiniteSet(S), NEW F, NEW H, NEW a \in Int,
           \A x \in S : F[x] \in Int /\ H[x] = a * F[x]
    PROVE  SumOn(S, H) = a * SumOn(S, F)
<1>1. \A x \in S : H[x] = (a * F[x]) + (0 * F[x])
    <2> TAKE x \in S
    <2> DEFINE u == F[x]
    <2>1. u \in Int /\ H[x] = a * u
        OBVIOUS
    <2> HIDE DEF u
    <2>2. a * u \in Int
        BY <2>1
    <2>3. H[x] = (a * u) + (0 * u)
        BY <2>1, <2>2
    <2> QED BY <2>3 DEF u
<1>2. SumOn(S, H) = (a * SumOn(S, F)) + (0 * SumOn(S, F))
    BY <1>1, SumLinear
<1>3. SumOn(S, F) \in Int
    BY SumStep
<1>4. a * SumOn(S, F) \in Int
    BY <1>3
<1> QED BY <1>2, <1>3, <1>4

(* Two sums over one set, term by term.                                    *)
LEMMA SumBoth ==
    ASSUME NEW S, IsFiniteSet(S), NEW F, NEW G, NEW H,
           \A x \in S : F[x] \in Int /\ G[x] \in Int /\ H[x] = F[x] + G[x]
    PROVE  SumOn(S, H) = SumOn(S, F) + SumOn(S, G)
<1> DEFINE one == 1
<1>1. SumOn(S, H) = (one * SumOn(S, F)) + (one * SumOn(S, G))
    <2>1. one \in Int /\ \A x \in S : F[x] \in Int /\ G[x] \in Int /\ H[x] = (one * F[x]) + (one * G[x])
        OBVIOUS
    <2> HIDE DEF one
    <2> QED BY <2>1, SumLinear
<1>2. SumOn(S, F) \in Int /\ SumOn(S, G) \in Int
    BY SumStep
<1> QED BY <1>1, <1>2

(* The terms outside a set are zero.                                       *)
LEMMA SumRestrict ==
    ASSUME NEW S, IsFiniteSet(S), NEW T \in SUBSET S, NEW F, \A x \in S : F[x] \in Int,
           \A x \in S \ T : F[x] = 0
    PROVE  SumOn(S, F) = SumOn(T, F)
<1> DEFINE A == {s \in SUBSET S : SumOn(s, F) = SumOn(s \cap T, F)}
<1>1. {} \in A
    <2>1. {} \cap T = {}
        OBVIOUS
    <2> QED BY <2>1
<1>2. ASSUME NEW s \in SUBSET S, NEW x \in S \ s, s \in A PROVE s \cup {x} \in A
    <2>1. IsFiniteSet(s) /\ IsFiniteSet(s \cap T)
        BY FS_Subset
    <2>2. SumOn(s \cup {x}, F) = F[x] + SumOn(s, F)
        BY <2>1, SumAdds
    <2>3. SumOn(s, F) = SumOn(s \cap T, F)
        BY <1>2
    <2>4. SumOn(s \cap T, F) \in Int
        BY <2>1, SumStep
    <2>5. SumOn(s \cup {x}, F) = SumOn((s \cup {x}) \cap T, F)
        <3>1. CASE x \in T
            <4>1. (s \cup {x}) \cap T = (s \cap T) \cup {x} /\ x \notin s \cap T
                BY <3>1
            <4>2. SumOn((s \cap T) \cup {x}, F) = F[x] + SumOn(s \cap T, F)
                BY <2>1, <4>1, SumAdds
            <4> QED BY <2>2, <2>3, <4>1, <4>2
        <3>2. CASE x \notin T
            <4>1. (s \cup {x}) \cap T = s \cap T /\ F[x] = 0
                BY <3>2
            <4>2. SumOn(s \cup {x}, F) = SumOn(s, F)
                BY <2>2, <2>3, <2>4, <4>1
            <4>3. SumOn((s \cup {x}) \cap T, F) = SumOn(s \cap T, F)
                BY <4>1
            <4> QED BY <2>3, <4>2, <4>3
        <3> QED BY <3>1, <3>2
    <2> QED BY <2>5
<1> HIDE DEF A
<1>3. \A s \in SUBSET S : s \in A
    BY <1>1, <1>2, SetInduction
<1>4. SumOn(S, F) = SumOn(S \cap T, F)
    BY <1>3 DEF A
<1>5. S \cap T = T
    OBVIOUS
<1> QED BY <1>4, <1>5

(* At most one term is not zero.                                           *)
LEMMA SumOne ==
    ASSUME NEW S, IsFiniteSet(S), NEW F, \A x \in S : F[x] \in Int,
           NEW y \in S, \A x \in S : x # y => F[x] = 0
    PROVE  SumOn(S, F) = F[y]
<1>1. IsFiniteSet(S \ {y}) /\ \A x \in S \ {y} : F[x] = 0
    BY FS_RemoveElement
<1>2. SumOn(S \ {y}, F) = 0
    BY <1>1, SumZero
<1>3. SumOn(S, F) = F[y] + SumOn(S \ {y}, F)
    BY SumStep
<1> QED BY <1>2, <1>3

(* Sums of congruent terms are congruent.                                  *)
LEMMA SumMod ==
    ASSUME NEW S, IsFiniteSet(S), NEW F, NEW G, NEW m \in Nat \ {0},
           \A x \in S : F[x] \in Int /\ G[x] \in Int /\ F[x] % m = G[x] % m
    PROVE  SumOn(S, F) % m = SumOn(S, G) % m
<1> DEFINE H == [x \in S |-> (F[x] \div m) - (G[x] \div m)]
           one == 1
<1>1. ASSUME NEW x \in S PROVE H[x] \in Int /\ F[x] = (m * H[x]) + (one * G[x])
    <2> DEFINE u == F[x]
               v == G[x]
               qu == u \div m
               qv == v \div m
               r == u % m
    <2>1. u = m * qu + r /\ v = m * qv + r /\ qu \in Int /\ qv \in Int /\ r \in Int
        <3>1. u \in Int /\ v \in Int /\ u % m = v % m
            OBVIOUS
        <3> HIDE DEF u, v
        <3>2. /\ u = m * (u \div m) + (u % m) /\ u % m \in 0 .. m - 1 /\ u \div m \in Int
              /\ v = m * (v \div m) + (v % m) /\ v \div m \in Int
            BY <3>1, DivMod
        <3> QED BY <3>1, <3>2
    <2>2. H[x] = qu - qv
        OBVIOUS
    <2> DEFINE d == H[x]
    <2> HIDE DEF qu, qv, r, u, v, H
    <2>3. u = (m * d) + v
        BY <2>1, <2>2
    <2>4. v \in Int /\ d \in Int
        BY <2>1, <2>2
    <2> HIDE DEF d
    <2>5. u = (m * d) + (one * v)
        BY <2>3, <2>4
    <2> QED BY <2>4, <2>5 DEF u, v, d
<1>2. m \in Int /\ one \in Int
    OBVIOUS
<1> HIDE DEF H, one
<1>3. SumOn(S, F) = (m * SumOn(S, H)) + (one * SumOn(S, G))
    <2>1. \A x \in S : H[x] \in Int /\ G[x] \in Int /\ F[x] = (m * H[x]) + (one * G[x])
        BY <1>1
    <2> QED BY <1>2, <2>1, SumLinear
<1> DEFINE a == SumOn(S, F)
           b == SumOn(S, G)
           c == SumOn(S, H)
<1>4. b \in Int /\ c \in Int
    BY <1>1, SumStep
<1>5. b = m * (b \div m) + (b % m) /\ b % m \in 0 .. m - 1 /\ b \div m \in Int
    BY <1>4, DivMod
<1> DEFINE q == b \div m
           r == b % m
<1>6. a = (m * c) + b
    BY <1>3, <1>4 DEF one
<1>7. b = m * q + r /\ r \in 0 .. m - 1 /\ q \in Int
    BY <1>5
<1> HIDE DEF a, b, c, q, r
<1>8. a = m * (c + q) + r /\ c + q \in Int /\ a \in Int
    BY <1>4, <1>6, <1>7
<1>9. a % m = r
    BY <1>7, <1>8, ModUnique
<1> QED BY <1>9 DEF a, b, r

(* The sum by rows is the sum by columns.                                  *)
LEMMA SumSwap ==
    ASSUME NEW S, IsFiniteSet(S), NEW T, IsFiniteSet(T), NEW F,
           \A x \in S : \A y \in T : F[x][y] \in Int
    PROVE  SumOn(S, [x \in S |-> SumOn(T, F[x])])
             = SumOn(T, [y \in T |-> SumOn(S, [x \in S |-> F[x][y]])])
<1> DEFINE R == [x \in S |-> SumOn(T, F[x])]
           C(y) == [x \in S |-> F[x][y]]
           L(s) == [y \in T |-> SumOn(s, C(y))]
           A == {s \in SUBSET S : SumOn(s, R) = SumOn(T, L(s))}
<1>1. /\ \A x \in S : R[x] \in Int
      /\ \A y \in T : \A x \in S : C(y)[x] \in Int
    <2>1. ASSUME NEW x \in S PROVE R[x] \in Int
        BY SumStep
    <2> QED BY <2>1
<1>2. {} \in A
    <2>1. SumOn({}, R) = 0
        BY <1>1, SumStep
    <2>2. \A y \in T : L({})[y] = 0
        <3> TAKE y \in T
        <3>1. SumOn({}, C(y)) = 0
            <4>1. \A x \in S : C(y)[x] \in Int
                BY <1>1
            <4> QED BY <4>1, SumStep
        <3> QED BY <3>1
    <2>3. SumOn(T, L({})) = 0
        <3> HIDE DEF L
        <3> QED BY <2>2, SumZero
    <2> QED BY <2>1, <2>3
<1>3. ASSUME NEW s \in SUBSET S, NEW x \in S \ s, s \in A PROVE s \cup {x} \in A
    <2>1. IsFiniteSet(s)
        BY FS_Subset
    <2>2. SumOn(s \cup {x}, R) = R[x] + SumOn(s, R)
        BY <1>1, <2>1, SumAdds
    <2>3. R[x] = SumOn(T, F[x])
        OBVIOUS
    <2>4. ASSUME NEW y \in T
          PROVE  /\ F[x][y] \in Int /\ L(s)[y] \in Int
                 /\ L(s \cup {x})[y] = F[x][y] + L(s)[y]
        <3>1. \A z \in S : C(y)[z] \in Int
            BY <1>1
        <3>2. SumOn(s \cup {x}, C(y)) = C(y)[x] + SumOn(s, C(y)) /\ SumOn(s, C(y)) \in Int
            <4> HIDE DEF C
            <4>1. SumOn(s \cup {x}, C(y)) = C(y)[x] + SumOn(s, C(y))
                BY <2>1, <3>1, SumAdds
            <4>2. SumOn(s, C(y)) \in Int
                BY <2>1, <3>1, SumStep
            <4> QED BY <4>1, <4>2
        <3>3. C(y)[x] = F[x][y]
            OBVIOUS
        <3> QED BY <3>2, <3>3
    <2>5. SumOn(T, L(s \cup {x})) = SumOn(T, F[x]) + SumOn(T, L(s))
        <3> HIDE DEF L
        <3> QED BY <2>4, SumBoth
    <2>6. SumOn(s \cup {x}, R) = SumOn(T, L(s \cup {x}))
        <3>1. SumOn(s, R) = SumOn(T, L(s))
            BY <1>3
        <3> HIDE DEF L, R
        <3> QED BY <2>2, <2>3, <2>5, <3>1
    <2> QED BY <2>6
<1>4. \A s \in SUBSET S : s \in A
    <2> HIDE DEF A
    <2> QED BY <1>2, <1>3, SetInduction
<1> QED BY <1>4

(* Terms may be counted in another order.                                  *)
LEMMA SumReindex ==
    ASSUME NEW S, IsFiniteSet(S), NEW T, IsFiniteSet(T), NEW h, NEW F, NEW G,
           \A x \in S : F[x] \in Int,
           \A y \in T : h[y] \in S /\ G[y] = F[h[y]],
           \A y, z \in T : h[y] = h[z] => y = z,
           \A x \in S : F[x] # 0 => \E y \in T : h[y] = x
    PROVE  SumOn(T, G) = SumOn(S, F)
<1> DEFINE D == [y \in T |-> [x \in S |-> IF h[y] = x THEN F[x] ELSE 0]]
           E == [x \in S |-> [y \in T |-> D[y][x]]]
           B == [y \in T |-> SumOn(S, D[y])]
           C == [x \in S |-> SumOn(T, [y \in T |-> D[y][x]])]
<1>1. \A y \in T : \A x \in S : D[y][x] \in Int
    OBVIOUS
<1>2. SumOn(T, B) = SumOn(S, C)
    <2> HIDE DEF D
    <2> QED BY <1>1, SumSwap
<1>3. ASSUME NEW y \in T PROVE B[y] = G[y]
    <2> DEFINE f == D[y]
    <2>1. /\ \A x \in S : f[x] \in Int
          /\ h[y] \in S /\ \A x \in S : x # h[y] => f[x] = 0
          /\ f[h[y]] = F[h[y]]
        OBVIOUS
    <2>2. B[y] = SumOn(S, f)
        OBVIOUS
    <2> HIDE DEF f, B, D
    <2>3. SumOn(S, f) = f[h[y]]
        BY <2>1, SumOne
    <2> QED BY <2>1, <2>2, <2>3
<1>4. ASSUME NEW x \in S PROVE C[x] = F[x]
    <2> DEFINE f == [y \in T |-> D[y][x]]
    <2>1. C[x] = SumOn(T, f) /\ \A y \in T : f[y] = IF h[y] = x THEN F[x] ELSE 0
        OBVIOUS
    <2>2. \A y \in T : f[y] \in Int
        BY <2>1
    <2> HIDE DEF f, C, D
    <2>3. CASE \E y \in T : h[y] = x
        <3>1. PICK y \in T : h[y] = x
            BY <2>3
        <3>2. \A z \in T : z # y => f[z] = 0
            BY <2>1, <3>1
        <3>3. SumOn(T, f) = f[y]
            BY <2>2, <3>2, SumOne
        <3> QED BY <2>1, <3>1, <3>3
    <2>4. CASE ~ \E y \in T : h[y] = x
        <3>1. \A y \in T : f[y] = 0
            BY <2>1, <2>4
        <3>2. SumOn(T, f) = 0
            BY <3>1, SumZero
        <3> QED BY <2>1, <2>4, <3>2
    <2> QED BY <2>3, <2>4
<1>5. SumOn(T, B) = SumOn(T, G)
    <2> HIDE DEF B
    <2> QED BY <1>3, SumEqual
<1>6. SumOn(S, C) = SumOn(S, F)
    <2> HIDE DEF C
    <2> QED BY <1>4, SumEqual
<1> QED BY <1>2, <1>5, <1>6

-----------------------------------------------------------------------------
(* FoldLeft and FoldRight.                                                 *)

(* A list is folded from its last element down.                            *)
LEMMA LastOfPrefix ==
    ASSUME NEW k \in Nat
    PROVE  Max(1 .. k + 1) = k + 1 /\ (1 .. k + 1) \ {k + 1} = 1 .. k
<1>1. (\A y \in 1 .. k + 1 : k + 1 >= y)
      /\ \A z \in 1 .. k + 1 : (\A y \in 1 .. k + 1 : z >= y) => z = k + 1
    OBVIOUS
<1>2. k + 1 \in 1 .. k + 1
    OBVIOUS
<1>3. \A y : y \in (1 .. k + 1) \ {k + 1} <=> y \in 1 .. k
    OBVIOUS
<1> QED BY <1>1, <1>2, <1>3 DEF Max

(* A list is folded from its first element up.                             *)
LEMMA FirstOfRest ==
    ASSUME NEW n \in Nat, NEW k \in 1 .. n
    PROVE  Min(k .. n) = k /\ (k .. n) \ {k} = k + 1 .. n
<1>1. (\A y \in k .. n : k <= y)
      /\ \A z \in k .. n : (\A y \in k .. n : z <= y) => z = k
    OBVIOUS
<1>2. k \in k .. n
    OBVIOUS
<1>3. \A y : y \in (k .. n) \ {k} <=> y \in k + 1 .. n
    OBVIOUS
<1> QED BY <1>1, <1>2, <1>3 DEF Min

(* The largest element of a finite set of numbers, as Max chooses it.      *)
LEMMA MaxIn ==
    ASSUME NEW S \in SUBSET Nat, IsFiniteSet(S), S # {}
    PROVE  Max(S) \in S /\ \A y \in S : y <= Max(S)
<1>1. PICK m \in S : \A y \in S : y <= m
    BY LargestElement
<1>2. \A y \in S : m >= y
    BY <1>1
<1> QED BY <1>2 DEF Max

(* The smallest element, as Min chooses it.                                *)
LEMMA MinIn ==
    ASSUME NEW S \in SUBSET Nat, IsFiniteSet(S), S # {}
    PROVE  Min(S) \in S /\ \A y \in S : Min(S) <= y
<1>0. PICK c \in S : \A y \in S : y <= c
    BY LargestElement
<1> DEFINE f == [y \in S |-> c - y]
           T == {f[y] : y \in S}
<1>1. IsFiniteSet(T) /\ T \in SUBSET Nat /\ T # {}
    <2>1. f \in Surjection(S, T)
        BY DEF Surjection
    <2>2. IsFiniteSet(T)
        <3> HIDE DEF T, f
        <3> QED BY <2>1, FS_Surjection
    <2>3. \A y \in S : f[y] \in Nat
        BY <1>0
    <2> QED BY <2>2, <2>3
<1>2. PICK m \in T : \A y \in T : y <= m
    <2> HIDE DEF T
    <2> QED BY <1>1, LargestElement
<1>3. PICK z \in S : m = c - z
    BY <1>2
<1>4. \A y \in S : z <= y
    <2> TAKE y \in S
    <2>1. c - y \in T
        OBVIOUS
    <2>2. c - y <= c - z
        BY <1>2, <1>3, <2>1
    <2> QED BY <2>2
<1> QED BY <1>4 DEF Min

(* The order in which FoldLeft and FoldRight go through a list: the last   *)
(* index of a prefix, the first of a rest.                                 *)
PrefixSets(n) == [s \in SUBSET (1 .. n) |-> Max(s)]
SuffixSets(n) == [s \in SUBSET (1 .. n) |-> Min(s)]

(* What FoldLeft and FoldRight need of their steps.                        *)
LEMMA ListsFold ==
    ASSUME NEW n \in Nat, NEW D, NEW base \in D, NEW G,
           \A x \in 1 .. n : \A d \in D : G[x][d] \in D
    PROVE  /\ Foldable(1 .. n, D, base, PrefixSets(n), G)
           /\ Foldable(1 .. n, D, base, SuffixSets(n), G)
<1>1. IsFiniteSet(1 .. n) /\ \A s \in SUBSET (1 .. n) : IsFiniteSet(s) /\ s \in SUBSET Nat
    <2>1. IsFiniteSet(1 .. n)
        BY FS_Interval
    <2>2. ASSUME NEW s \in SUBSET (1 .. n) PROVE IsFiniteSet(s)
        BY <2>1, FS_Subset
    <2> QED BY <2>1, <2>2
<1>2. \A s \in SUBSET (1 .. n) : s # {} => PrefixSets(n)[s] \in s /\ SuffixSets(n)[s] \in s
    BY <1>1, MaxIn, MinIn DEF PrefixSets, SuffixSets
<1> QED BY <1>1, <1>2 DEF Foldable

-----------------------------------------------------------------------------
(* Quotients, digits, multiples and powers of two.                         *)

(* A quotient is no more than what is divided, and 0 if that is smaller.   *)
LEMMA Quotients ==
    ASSUME NEW x \in Nat, NEW y \in Nat \ {0}
    PROVE  /\ x \div y \in 0 .. x
           /\ x < y => x \div y = 0
<1>1. x = y * (x \div y) + (x % y) /\ x % y \in 0 .. y - 1 /\ x \div y \in Int
    BY DivMod
<1> DEFINE q == x \div y
           f == x % y
<1> HIDE DEF q, f
<1>2. x = y * q + f /\ f \in 0 .. y - 1 /\ q \in Int
    BY <1>1 DEF q, f
<1>3. q >= 0
    <2> SUFFICES ASSUME q <= -1 PROVE FALSE
        BY <1>2
    <2>1. y * q <= - y
        BY <1>2
    <2> QED BY <1>2, <2>1
<1>4. y * q >= q
    BY <1>2, <1>3
<1>5. ASSUME x < y PROVE q = 0
    <2> SUFFICES ASSUME q >= 1 PROVE FALSE
        BY <1>2, <1>3
    <2>1. y * q >= y
        BY <1>2
    <2> QED BY <1>2, <1>5, <2>1
<1> QED BY <1>2, <1>3, <1>4, <1>5 DEF q

(* Dividing by less gives no less.                                         *)
LEMMA QuotientOfLess ==
    ASSUME NEW x \in Nat, NEW y \in Nat \ {0}, NEW z \in Nat \ {0}, y <= z
    PROVE  x \div z <= x \div y
<1> DEFINE d == x \div y
           e == x \div z
<1>1. x = y * d + (x % y) /\ x % y \in 0 .. y - 1 /\ d \in Int
    BY DivMod
<1>2. x = z * e + (x % z) /\ x % z \in 0 .. z - 1 /\ e \in Int
    BY DivMod
<1>3. e \in 0 .. x
    BY QuotientBound
<1> HIDE DEF d, e
<1>4. ASSUME e >= d + 1 PROVE FALSE
    <2>1. z * e >= y * e
        BY <1>3
    <2>2. y * e >= y * (d + 1)
        BY <1>1, <1>3, <1>4
    <2>3. y * (d + 1) = y * d + y
        BY <1>1
    <2>4. y * d \in Int /\ y * e \in Int /\ z * e \in Int
        BY <1>1, <1>2
    <2>5. z * e >= y * d + y
        BY <2>1, <2>2, <2>3, <2>4
    <2> QED BY <1>1, <1>2, <2>4, <2>5
<1>5. e <= d
    BY <1>1, <1>2, <1>4
<1> QED BY <1>5 DEF d, e

(* Halving and then dividing by y is dividing by the double of y.          *)
LEMMA HalfThen ==
    ASSUME NEW x \in Nat, NEW y \in Nat \ {0}
    PROVE  x \div (2 * y) = (x \div 2) \div y
<1> DEFINE c == x \div 2
           e == x % 2
<1>1. x = 2 * c + e /\ e \in 0 .. 1 /\ c \in Int
    OBVIOUS
<1> HIDE DEF c, e
<1> DEFINE q == c \div y
           f == c % y
<1>2. c = y * q + f /\ f \in 0 .. y - 1 /\ q \in Int
    BY <1>1, DivMod
<1> HIDE DEF q, f
<1>3. 2 * f + e \in 0 .. 2 * y - 1 /\ 2 * y \in Nat \ {0}
    BY <1>1, <1>2
<1>4. x = (2 * y) * q + (2 * f + e)
    BY <1>1, <1>2
<1>5. x \div (2 * y) = q
    <2> DEFINE m == 2 * y
    <2>1. m \in Nat \ {0} /\ x \in Int /\ 2 * f + e \in 0 .. m - 1 /\ x = m * q + (2 * f + e)
        BY <1>3, <1>4
    <2> HIDE DEF m
    <2>2. x \div m = q
        BY <1>2, <2>1, DivUnique
    <2> QED BY <2>2 DEF m
<1> QED BY <1>5 DEF q, c

(* Dividing and then halving.                                              *)
LEMMA ThenHalf ==
    ASSUME NEW x \in Nat, NEW y \in Nat \ {0}
    PROVE  x \div (2 * y) = (x \div y) \div 2
<1> DEFINE q == x \div y
           f == x % y
<1>1. x = y * q + f /\ f \in 0 .. y - 1 /\ q \in Int
    BY DivMod
<1> HIDE DEF q, f
<1> DEFINE c == q \div 2
           e == q % 2
<1>2. q = 2 * c + e /\ e \in 0 .. 1 /\ c \in Int
    BY <1>1
<1> HIDE DEF c, e
<1>3. y * e \in {0, y}
    BY <1>2
<1> DEFINE m == 2 * y
           g == y * e + f
<1>4. g \in 0 .. m - 1 /\ m \in Nat \ {0}
    BY <1>1, <1>3
<1>5. x = m * c + g
    BY <1>1, <1>2
<1>6. x \div m = c
    <2> HIDE DEF m, g
    <2> QED BY <1>2, <1>4, <1>5, DivUnique
<1> QED BY <1>6 DEF c, q

(* A number's half and the next one's.                                     *)
LEMMA HalvesOf ==
    ASSUME NEW x \in Nat
    PROVE  /\ x \div 2 \in Nat /\ x % 2 \in {0, 1} /\ x = 2 * (x \div 2) + (x % 2)
           /\ x % 2 = 0 => (x + 1) \div 2 = x \div 2
           /\ x % 2 = 1 => (x + 1) \div 2 = (x \div 2) + 1
<1>1. x % 2 \in {0, 1}
    OBVIOUS
<1>2. x \div 2 \in Nat
    OBVIOUS
<1>3. x = 2 * (x \div 2) + (x % 2)
    <2>1. 2 \in Nat \ {0} /\ x \in Int
        OBVIOUS
    <2> QED BY <2>1, DivMod
<1>4. x % 2 = 0 => (x + 1) \div 2 = x \div 2
    OBVIOUS
<1>5. x % 2 = 1 => (x + 1) \div 2 = (x \div 2) + 1
    OBVIOUS
<1> QED BY <1>1, <1>2, <1>3, <1>4, <1>5

(* A number and its two digits.                                            *)
LEMMA Digits ==
    ASSUME NEW m \in Nat \ {0}, NEW n \in Nat, NEW hi \in 0 .. n - 1, NEW r \in 0 .. m - 1,
           NEW x, x = m * hi + r
    PROVE  x \in 0 .. (n * m) - 1 /\ x \div m = hi /\ x % m = r
<1>1. m * hi \in Nat /\ x \in Nat /\ hi \in Int
    OBVIOUS
<1>2. x \div m = hi /\ x % m = r
    BY <1>1, DivUnique, ModUnique
<1>3. x < n * m
    <2>1. hi + 1 <= n
        OBVIOUS
    <2>2. m * (hi + 1) <= m * n
        BY <2>1
    <2>3. m * (hi + 1) = m * hi + m /\ m * n = n * m
        OBVIOUS
    <2> DEFINE u == m * hi
               w == n * m
    <2>4. u \in Nat /\ w \in Nat /\ u + m <= w /\ x = u + r
        BY <2>2, <2>3, <1>1
    <2> HIDE DEF u, w
    <2>5. x < w
        BY <2>4
    <2> QED BY <2>5 DEF w
<1>4. n * m \in Int
    OBVIOUS
<1> QED BY <1>1, <1>2, <1>3, <1>4

(* The same of the number that is written with these digits.               *)
LEMMA DigitsOf ==
    ASSUME NEW m \in Nat \ {0}, NEW n \in Nat, NEW hi \in 0 .. n - 1, NEW r \in 0 .. m - 1
    PROVE  /\ (hi * m) + r \in 0 .. (n * m) - 1
           /\ ((hi * m) + r) \div m = hi /\ ((hi * m) + r) % m = r
<1> DEFINE x == (hi * m) + r
<1>1. x = m * hi + r
    OBVIOUS
<1> HIDE DEF x
<1>2. x \in 0 .. (n * m) - 1 /\ x \div m = hi /\ x % m = r
    BY <1>1, Digits
<1> QED BY <1>2 DEF x

(* A multiple more leaves the remainder.                                   *)
LEMMA MultipleMore ==
    ASSUME NEW m \in Nat \ {0}, NEW u \in Int, NEW q \in Int
    PROVE  (u + m * q) % m = u % m
<1> DEFINE y == m * q
           x == u + y
<1>1. y \in Int /\ x \in Int /\ x = u + y /\ y = m * q
    OBVIOUS
<1> HIDE DEF x, y
<1>2. x % m = u % m
    BY <1>1, SameRemainder
<1> QED BY <1>2 DEF x, y

(* Numbers with one remainder have one by a divisor of the modulus too.    *)
LEMMA FinerRemainder ==
    ASSUME NEW m \in Nat \ {0}, NEW n \in Nat \ {0}, NEW copies \in Nat, m = copies * n,
           NEW u \in Int, NEW v \in Int, u % m = v % m
    PROVE  u % n = v % n
<1>1. PICK q \in Int : u = v + m * q
    BY SameRemainder
<1> DEFINE x == copies * q
           y == m * q
<1>2. m * q = n * (copies * q) /\ copies * q \in Int
    BY <1>1
<1>3. y = n * x /\ x \in Int /\ u = v + y
    BY <1>1, <1>2
<1> HIDE DEF x, y
<1> QED BY <1>3, SameRemainder

\* j turns of the query, d turns of the sums and so many whole rounds from index
\* are k turns of the query.
Meets(k, j, step, width, d, index, c) ==
    (((((k - j) * step) + d) + index) + ((width * step) * c)) % (width * step)
      = index % (width * step)

Within(step, d) == -step < d /\ d < step

SameTurn(width, j, k) == j % width = k % width

(* Which turn of a query meets the slots of which turn of a sum: j steps   *)
(* and d more are a multiple of the width only for d = 0.                  *)
LEMMA TurnsMeet ==
    ASSUME NEW step \in Nat \ {0}, NEW width \in Nat \ {0},
           NEW d \in Int, Within(step, d), NEW j \in Int, NEW k \in Int, NEW index \in Int,
           NEW c \in Int
    PROVE  Meets(k, j, step, width, d, index, c) <=> (d = 0 /\ SameTurn(width, j, k))
<1> DEFINE all == width * step
           x == ((((k - j) * step) + d) + index) + (all * c)
           e == k - j
           es == e * step
           ac == all * c
<1>1. e \in Int /\ es \in Int /\ ac \in Int /\ x = ((es + d) + index) + ac /\ x \in Int
      /\ all \in Nat \ {0} /\ all = width * step
    OBVIOUS
<1>d. -step < d /\ d < step
    BY DEF Within
<1>0. all \in Nat \ {0}
    BY <1>1
<1>x. Meets(k, j, step, width, d, index, c) <=> x % all = index % all
    BY DEF Meets
<1>y. all = width * step
    OBVIOUS
<1> HIDE DEF x, all
<1>2. ASSUME x % all = index % all PROVE d = 0 /\ j % width = k % width
    <2>1. PICK q \in Int : x = index + all * q
        <3>1. x \in Int /\ x % all = index % all
            BY <1>1, <1>2
        <3> QED BY <1>0, <3>1, SameRemainder
    <2> DEFINE aq == all * q
               w == q - c
    <2>2. aq \in Int /\ w \in Int /\ x = index + aq
        BY <1>0, <2>1
    <2>3. aq - ac = all * w
        BY <1>0, <2>1
    <2>4. all * w = step * (width * w) /\ width * w \in Int
        BY <1>0, <1>y, <2>2
    <2> DEFINE ww == width * w
    <2>5. step * (ww - e) = step * ww - es
        BY <1>1, <2>2, <2>4
    <2>6. step * ww \in Int /\ step * ww = aq - ac /\ ww \in Int
        BY <2>2, <2>3, <2>4
    <2> HIDE DEF aq, ac, es, ww, w, e
    <2>7. es + d = step * ww
        BY <1>1, <2>2, <2>6
    <2>8. step * (ww - e) = d /\ ww - e \in Int
        BY <1>1, <2>5, <2>6, <2>7
    <2>9. ww - e = 0
        <3>1. -step < step * (ww - e) /\ step * (ww - e) < step
            BY <1>d, <2>8
        <3> QED BY <2>8, <3>1, SmallMultiple
    <2>10. d = 0
        <3>1. step * 0 = 0
            OBVIOUS
        <3> QED BY <2>8, <2>9, <3>1
    <2>11. k = j + ww
        BY <1>1, <2>6, <2>9 DEF e
    <2>12. ww = width * w /\ w \in Int
        BY <2>2 DEF ww
    <2>13. k % width = j % width
        BY <2>6, <2>11, <2>12, SameRemainder
    <2> QED BY <2>10, <2>13
<1>3. ASSUME d = 0, j % width = k % width PROVE x % all = index % all
    <2>0. k % width = j % width
        BY <1>3
    <2>1. PICK q \in Int : k = j + width * q
        BY <2>0, SameRemainder
    <2> DEFINE wq == width * q
    <2>2. wq \in Int /\ e = wq
        BY <2>1
    <2>3. wq * step = all * q
        BY <1>y, <2>1
    <2>4. all * q + all * c = all * (q + c) /\ all * q \in Int
        BY <1>0, <2>1
    <2> DEFINE y == all * (q + c)
    <2>5. y \in Int /\ q + c \in Int /\ es = all * q
        BY <1>0, <2>1, <2>2, <2>3
    <2>6. y = all * q + ac
        BY <2>4
    <2>7. y = all * (q + c)
        OBVIOUS
    <2> HIDE DEF y, es, e, ac, wq
    <2>8. x = index + y
        BY <1>1, <1>3, <2>4, <2>5, <2>6
    <2> DEFINE f == q + c
    <2>9. f \in Int /\ y = all * f
        BY <2>5, <2>7
    <2> HIDE DEF f
    <2>10. (index + all * f) % all = index % all
        BY <1>0, <2>9, MultipleMore
    <2>11. x = index + all * f
        BY <2>8, <2>9
    <2> QED BY <2>10, <2>11
<1> QED BY <1>2, <1>3, <1>x DEF SameTurn

(* Powers of two below the largest of TLC's.                               *)
LEMMA PowersDouble ==
    /\ 2^0 = 1 /\ 2^30 >= 1024
    /\ \A k \in 0 .. 30 : 2^k \in Nat \ {0}
    /\ \A k \in 0 .. 29 : 2^(k + 1) = 2 * 2^k
<1>1. \A k \in 0 .. 30 : k \in {0, 1, 2, 3, 4, 5, 6, 7, 8, 9, 10, 11, 12, 13, 14, 15, 16, 17, 18,
                               19, 20, 21, 22, 23, 24, 25, 26, 27, 28, 29, 30}
    OBVIOUS
<1> DEFINE Q == [k \in 0 .. 30 |-> 2^k]
<1>2. /\ Q[0] = 1 /\ Q[1] = 2 /\ Q[2] = 4 /\ Q[3] = 8 /\ Q[4] = 16 /\ Q[5] = 32 /\ Q[6] = 64
      /\ Q[7] = 128 /\ Q[8] = 256 /\ Q[9] = 512 /\ Q[10] = 1024 /\ Q[11] = 2048 /\ Q[12] = 4096
      /\ Q[13] = 8192 /\ Q[14] = 16384 /\ Q[15] = 32768 /\ Q[16] = 65536 /\ Q[17] = 131072
      /\ Q[18] = 262144 /\ Q[19] = 524288 /\ Q[20] = 1048576 /\ Q[21] = 2097152 /\ Q[22] = 4194304
      /\ Q[23] = 8388608 /\ Q[24] = 16777216 /\ Q[25] = 33554432 /\ Q[26] = 67108864
      /\ Q[27] = 134217728 /\ Q[28] = 268435456 /\ Q[29] = 536870912 /\ Q[30] = 1073741824
    BY SMT
<1>3. /\ \A k \in 0 .. 30 : Q[k] \in Nat \ {0}
      /\ \A k \in 0 .. 29 : Q[k + 1] = 2 * Q[k]
    <2> HIDE DEF Q
    <2> QED BY <1>1, <1>2, SMT
<1>4. \A k \in 0 .. 30 : 2^k = Q[k]
    OBVIOUS
<1>5. \A k \in 0 .. 29 : 2^(k + 1) = Q[k + 1]
    OBVIOUS
<1>6. Q[0] = 2^0 /\ Q[30] = 2^30
    OBVIOUS
<1>7. Q[0] = 1 /\ Q[30] >= 1024
    BY <1>2, SMT
<1> HIDE DEF Q
<1> QED BY <1>3, <1>4, <1>5, <1>6, <1>7

(* They grow, as far as a tree has layers.                                 *)
LEMMA PowersRise ==
    \A j, k \in 0 .. 9 : j <= k => 2^j <= 2^k
<1> DEFINE Q == [k \in 0 .. 9 |-> 2^k]
<1>1. \A k \in 0 .. 9 : k \in {0, 1, 2, 3, 4, 5, 6, 7, 8, 9}
    OBVIOUS
<1>2. Q[0] = 1 /\ Q[1] = 2 /\ Q[2] = 4 /\ Q[3] = 8 /\ Q[4] = 16 /\ Q[5] = 32 /\ Q[6] = 64
      /\ Q[7] = 128 /\ Q[8] = 256 /\ Q[9] = 512
    OBVIOUS
<1>3. \A j, k \in 0 .. 9 : j <= k => Q[j] <= Q[k]
    <2> HIDE DEF Q
    <2> QED BY <1>1, <1>2
<1>4. \A k \in 0 .. 9 : 2^k = Q[k]
    OBVIOUS
<1> HIDE DEF Q
<1> QED BY <1>3, <1>4

-----------------------------------------------------------------------------
(* The members of a set of numbers, in order.                              *)

\* How many of S are below i.
Rank(S, i) == Cardinality({x \in S : x < i})

(* The ranks are the columns, one each.                                    *)
LEMMA RanksAre ==
    ASSUME NEW n \in Nat, NEW S \in SUBSET (0 .. n - 1)
    PROVE  /\ IsFiniteSet(S) /\ Cardinality(S) \in 0 .. n
           /\ \A i \in S : Rank(S, i) \in 0 .. Cardinality(S) - 1
           /\ \A i, j \in S : Rank(S, i) = Rank(S, j) => i = j
           /\ \A c \in 0 .. Cardinality(S) - 1 : \E i \in S : Rank(S, i) = c
<1> DEFINE Low(i) == {x \in S : x < i}
<1>1. IsFiniteSet(0 .. n - 1) /\ Cardinality(0 .. n - 1) = n
    <2> DEFINE zero == 0
    <2>1. zero \in Int /\ n - 1 \in Int
        OBVIOUS
    <2> HIDE DEF zero
    <2>2. /\ IsFiniteSet(zero .. n - 1)
          /\ Cardinality(zero .. n - 1) = IF zero > n - 1 THEN 0 ELSE ((n - 1) - zero) + 1
        BY <2>1, FS_Interval
    <2> QED BY <2>2 DEF zero
<1>2. IsFiniteSet(S) /\ Cardinality(S) \in Nat /\ Cardinality(S) <= n
    BY <1>1, FS_Subset, FS_CardinalityType
<1>3. \A i : IsFiniteSet(Low(i)) /\ Cardinality(Low(i)) \in Nat
    <2> TAKE i
    <2>1. Low(i) \subseteq S
        OBVIOUS
    <2> HIDE DEF Low
    <2> QED BY <2>1, <1>2, FS_Subset, FS_CardinalityType
<1>0. \A x \in S : x \in 0 .. n - 1
    OBVIOUS
<1>4. ASSUME NEW k \in 0 .. n - 1
      PROVE  Cardinality(Low(k + 1)) = IF k \in S THEN Cardinality(Low(k)) + 1 ELSE Cardinality(Low(k))
    <2>1. CASE k \in S
        <3>0. \A x \in S : x < k + 1 <=> (x < k \/ x = k)
            BY <1>0
        <3>2. ~ (k < k)
            OBVIOUS
        <3>1. Low(k + 1) = Low(k) \cup {k} /\ k \notin Low(k)
            BY <2>1, <3>0, <3>2
        <3> HIDE DEF Low
        <3> QED BY <2>1, <3>1, <1>3, FS_AddElement
    <2>2. CASE k \notin S
        <3>0. \A x \in S : x < k + 1 <=> (x < k \/ x = k)
            BY <1>0
        <3>1. Low(k + 1) = Low(k)
            BY <2>2, <3>0
        <3> QED BY <2>2, <3>1
    <2> QED BY <2>1, <2>2
<1>5. Low(0) = {} /\ Low(n) = S
    <2>1. \A x \in S : ~ (x < 0) /\ x < n
        BY <1>0
    <2> QED BY <2>1
<1>6. Cardinality(Low(0)) = 0
    BY <1>5, FS_EmptySet
<1> DEFINE L == [k \in 0 .. n |-> Cardinality(Low(k))]
<1>7. /\ \A k \in 0 .. n : L[k] \in Nat /\ L[k] = Rank(S, k)
      /\ L[0] = 0 /\ L[n] = Cardinality(S)
      /\ \A k \in 0 .. n - 1 : L[k + 1] = IF k \in S THEN L[k] + 1 ELSE L[k]
    <2>1. \A k \in 0 .. n : L[k] = Cardinality(Low(k)) /\ Rank(S, k) = Cardinality(Low(k))
        BY DEF Rank
    <2>2. 0 \in 0 .. n /\ n \in 0 .. n /\ \A k \in 0 .. n - 1 : k \in 0 .. n /\ k + 1 \in 0 .. n
        OBVIOUS
    <2> HIDE DEF Low, L
    <2> QED BY <2>1, <2>2, <1>3, <1>4, <1>5, <1>6
<1> HIDE DEF L, Low
<1>8. ASSUME NEW i \in 0 .. n - 1, NEW k \in 0 .. n, i < k, i \in S
      PROVE  L[i] < L[k]
    <2> DEFINE T == {j \in Nat : (i + 1) + j <= n => L[i] < L[(i + 1) + j]}
    <2>1. 0 \in T
        BY <1>7, <1>8
    <2>2. ASSUME NEW j \in 0 .. (k - (i + 1)) - 1, j \in T PROVE j + 1 \in T
        <3>1. (i + 1) + (j + 1) = ((i + 1) + j) + 1 /\ j + 1 \in Nat
            OBVIOUS
        <3>2. (i + 1) + j \in 0 .. n - 1 /\ i \in 0 .. n /\ (i + 1) + j \in 0 .. n
              /\ ((i + 1) + j) + 1 \in 0 .. n
            OBVIOUS
        <3>3. L[i] < L[(i + 1) + j] /\ L[i] \in Nat /\ L[(i + 1) + j] \in Nat
            BY <2>2, <3>2, <1>7
        <3>4. L[((i + 1) + j) + 1] \in {L[(i + 1) + j], L[(i + 1) + j] + 1}
            BY <1>7, <3>2
        <3>5. L[i] < L[((i + 1) + j) + 1]
            BY <3>3, <3>4
        <3> QED BY <3>1, <3>5
    <2>3. k - (i + 1) \in Nat /\ (i + 1) + (k - (i + 1)) = k
        BY <1>8
    <2> HIDE DEF T
    <2>4. k - (i + 1) \in T
        BY <2>1, <2>2, <2>3, InductionUpTo
    <2> QED BY <2>3, <2>4 DEF T
<1>9. \A i \in S : i \in 0 .. n - 1 /\ i \in 0 .. n /\ i \in Nat
    OBVIOUS
<1>10. ASSUME NEW i \in S PROVE Rank(S, i) \in 0 .. Cardinality(S) - 1
    <2>1. L[i] < L[n] /\ L[i] \in Nat /\ L[n] \in Nat
        <3>1. n \in 0 .. n /\ i < n
            BY <1>9
        <3> QED BY <3>1, <1>7, <1>8, <1>9
    <2> QED BY <2>1, <1>7, <1>9
<1>11. ASSUME NEW i \in S, NEW j \in S, Rank(S, i) = Rank(S, j) PROVE i = j
    <2>1. L[i] = L[j] /\ L[i] \in Nat
        BY <1>11, <1>7, <1>9
    <2>2. ~ (i < j) /\ ~ (j < i)
        BY <2>1, <1>7, <1>8, <1>9
    <2> QED BY <2>2, <1>9
<1>12. ASSUME NEW c \in 0 .. Cardinality(S) - 1 PROVE \E i \in S : Rank(S, i) = c
    <2> DEFINE T == {k \in 0 .. n : c < L[k] => \E i \in S : L[i] = c}
    <2>1. 0 \in T
        BY <1>2, <1>7
    <2>2. ASSUME NEW k \in 0 .. n - 1, k \in T PROVE k + 1 \in T
        <3>1. CASE c < L[k]
            BY <3>1, <2>2
        <3>2. CASE ~ (c < L[k]) /\ c < L[k + 1]
            <4>1. k \in S /\ L[k] = c
                <5>1. L[k] \in Nat /\ c \in Int
                    BY <1>7, <1>2
                <5>2. L[k + 1] = IF k \in S THEN L[k] + 1 ELSE L[k]
                    BY <1>7
                <5> QED BY <5>1, <5>2, <3>2
            <4> QED BY <4>1
        <3> QED BY <3>1, <3>2
    <2> HIDE DEF T
    <2>3. n \in T
        BY <2>1, <2>2, InductionUpTo
    <2>4. c < L[n]
        BY <1>2, <1>7
    <2>5. PICK i \in S : L[i] = c
        BY <2>3, <2>4 DEF T
    <2> QED BY <2>5, <1>7, <1>9
<1> QED BY <1>2, <1>10, <1>11, <1>12
=============================================================================
