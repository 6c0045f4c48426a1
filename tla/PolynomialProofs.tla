-------------------------- MODULE PolynomialProofs --------------------------
(***************************************************************************)
(* What Polynomials computes, for every prime, every root of unity and     *)
(* every degree: the lists of its folds, roots and remainders, the         *)
(* transform of a column and its inverse, Lagrange's interpolation, and    *)
(* the product in the ring modulo x^N + 1, lane by lane. A polynomial is   *)
(* known by its values (ValueOf).                                          *)
(***************************************************************************)
EXTENDS Polynomials, SumsAndRemainders, SequenceTheorems

-----------------------------------------------------------------------------
(* The field of a prime's remainders.                                      *)

(* A remainder is its own remainder.                                       *)
LEMMA RemainderOf ==
    ASSUME NEW m \in Nat \ {0}, NEW a \in Int
    PROVE  a % m \in 0 .. m - 1 /\ a % m \in Int /\ (a % m) % m = a % m
<1>1. a % m \in 0 .. m - 1
  BY DivMod
<1>2. QED
  BY <1>1, ModOfSmall

(* Equal modulo m.                                                         *)
Congruent(m, a, b) == a % m = b % m

(* Sums, differences and products modulo m.                                *)
LEMMA SameSums ==
    ASSUME NEW m \in Nat \ {0}, NEW a \in Int, NEW b \in Int, NEW c \in Int, NEW d \in Int,
           Congruent(m, a, b), Congruent(m, c, d)
    PROVE  /\ Congruent(m, a + c, b + d)
           /\ Congruent(m, a - c, b - d)
           /\ Congruent(m, a * c, b * d)
<1> USE DEF Congruent
<1>1. PICK q \in Int : a = b + m * q
  BY SameRemainder
<1>2. PICK r \in Int : c = d + m * r
  BY SameRemainder
<1>3. m * q \in Int /\ m * r \in Int
  BY <1>1
<1>4. m * (q + r) = m * q + m * r /\ m * (q - r) = m * q - m * r
  BY <1>1
<1>5. (a + c) % m = (b + d) % m
  <2> DEFINE u == a + c
             v == b + d
             t == q + r
             w == m * t
  <2>1. u = v + w
    BY <1>1, <1>2, <1>3, <1>4
  <2>2. u \in Int /\ v \in Int /\ t \in Int
    BY <1>1
  <2>0. w = m * t
    OBVIOUS
  <2> HIDE DEF u, v, t, w
  <2>3. u % m = v % m
    BY <2>0, <2>1, <2>2, SameRemainder
  <2>4. QED
    BY <2>3 DEF u, v
<1>6. (a - c) % m = (b - d) % m
  <2> DEFINE u == a - c
             v == b - d
             t == q - r
             w == m * t
  <2>1. u = v + w
    BY <1>1, <1>2, <1>3, <1>4
  <2>2. u \in Int /\ v \in Int /\ t \in Int
    BY <1>1
  <2>0. w = m * t
    OBVIOUS
  <2> HIDE DEF u, v, t, w
  <2>3. u % m = v % m
    BY <2>0, <2>1, <2>2, SameRemainder
  <2>4. QED
    BY <2>3 DEF u, v
<1>7. (a * c) % m = (b * d) % m
  <2>1. a * c = b * d + b * (m * r) + (m * q) * d + (m * q) * (m * r)
    <3>1. a * c = (b + m * q) * (d + m * r)
      BY <1>1, <1>2
    <3>2. ASSUME NEW x \in Int, NEW y \in Int
          PROVE  (b + x) * (d + y) = b * d + b * y + x * d + x * y
      OBVIOUS
    <3>3. QED
      BY <3>1, <3>2, <1>3
  <2>2. b * (m * r) = m * (b * r) /\ (m * q) * d = m * (q * d)
            /\ (m * q) * (m * r) = m * (q * (m * r))
    BY <1>1, <1>3
  <2>3. b * r \in Int /\ q * d \in Int /\ q * (m * r) \in Int /\ b * d \in Int
    BY <1>1, <1>3
  <2>4. ASSUME NEW x \in Int, NEW y \in Int, NEW z \in Int
        PROVE  m * x + m * y + m * z = m * (x + y + z)
    OBVIOUS
  <2>5. m * (b * r) + m * (q * d) + m * (q * (m * r)) = m * (b * r + q * d + q * (m * r))
    BY <2>3, <2>4
  <2>6. m * (b * r) \in Int /\ m * (q * d) \in Int /\ m * (q * (m * r)) \in Int
    BY <2>3
  <2> DEFINE u == a * c
             v == b * d
             t == b * r + q * d + q * (m * r)
             w == m * t
  <2>7. u = v + w
    BY <2>1, <2>2, <2>3, <2>5, <2>6
  <2>8. u \in Int /\ v \in Int /\ t \in Int
    BY <2>3
  <2>0. w = m * t
    OBVIOUS
  <2> HIDE DEF u, v, t, w
  <2>9. u % m = v % m
    BY <2>0, <2>7, <2>8, SameRemainder
  <2>10. QED
    BY <2>9 DEF u, v
<1>8. QED
  BY <1>5, <1>6, <1>7

(* Remainders may be taken inside sums, differences and products.          *)
LEMMA InnerRemainder ==
    ASSUME NEW m \in Nat \ {0}, NEW a \in Int, NEW b \in Int
    PROVE  /\ ((a % m) + b) % m = (a + b) % m /\ (a + (b % m)) % m = (a + b) % m
           /\ ((a % m) - b) % m = (a - b) % m /\ (a - (b % m)) % m = (a - b) % m
           /\ ((a % m) * b) % m = (a * b) % m /\ (a * (b % m)) % m = (a * b) % m
<1> DEFINE u == a % m
           v == b % m
<1>1. u \in Int /\ v \in Int /\ Congruent(m, u, a) /\ Congruent(m, v, b)
      /\ Congruent(m, a, a) /\ Congruent(m, b, b)
  BY RemainderOf DEF Congruent
<1> HIDE DEF u, v
<1>2. /\ Congruent(m, u + b, a + b) /\ Congruent(m, u - b, a - b)
      /\ Congruent(m, u * b, a * b)
  BY <1>1, SameSums
<1>3. /\ Congruent(m, a + v, a + b) /\ Congruent(m, a - v, a - b)
      /\ Congruent(m, a * v, a * b)
  BY <1>1, SameSums
<1>4. QED
  BY <1>2, <1>3 DEF u, v, Congruent

-----------------------------------------------------------------------------

(* The field has more elements than there are points.                      *)
LEMMA FieldSize == Prime \in Nat \ {0} /\ 1 < Prime /\ Points \in Nat \ {0} /\ Points < Prime
<1>1. Prime \in Nat /\ Points \in 1 .. Prime - 1
  BY PolynomialAssumption
<1>2. QED
  BY <1>1

(* Two numbers are equal in the field.                                     *)
Same(a, b) == Congruent(Prime, a, b)

(* A number and its element of the field.                                  *)
LEMMA SameIs ==
    ASSUME NEW a \in Int
    PROVE  /\ Same(a % Prime, a)
           /\ a % Prime \in Fp /\ a % Prime \in Int
           /\ a \in Fp => a % Prime = a
<1>1. QED
  BY FieldSize, RemainderOf, ModOfSmall DEF Same, Congruent, Fp, Below

(* Sums, differences and products in the field.                            *)
LEMMA SameArithmetic ==
    ASSUME NEW a \in Int, NEW b \in Int, NEW c \in Int, NEW d \in Int,
           Same(a, b), Same(c, d)
    PROVE  Same(a + c, b + d) /\ Same(a - c, b - d) /\ Same(a * c, b * d)
<1>1. Prime \in Nat \ {0}
  BY FieldSize
<1>2. QED
  BY <1>1, SameSums DEF Same

(* The elements of the field are integers.                                 *)
LEMMA FpInt == Fp \subseteq Int /\ 0 \in Fp /\ 1 \in Fp
BY FieldSize DEF Fp, Below

(* Every number that is not 0 in the field has an inverse.                 *)
LEMMA InverseIs ==
    ASSUME NEW x \in Int, ~ Same(x, 0)
    PROVE  Inv(x) \in Fp /\ Inv(x) \in Int /\ Same(x * Inv(x), 1)
<1>1. x % Prime \in 1 .. Prime - 1
  <2>1. x % Prime \in 0 .. Prime - 1
    BY FieldSize, RemainderOf
  <2>2. 0 % Prime = 0
    BY FieldSize, ModOfSmall
  <2>3. QED
    BY <2>1, <2>2, FieldSize DEF Same, Congruent
<1>2. PICK y \in Fp : ((x % Prime) * y) % Prime = 1
  BY <1>1, PolynomialAssumption
<1>3. y \in Int
  BY FpInt
<1>4. (x * y) % Prime = 1
  BY <1>2, <1>3, FieldSize, InnerRemainder
<1>5. Inv(x) \in Fp /\ (x * Inv(x)) % Prime = 1
  BY <1>4 DEF Inv
<1>6. 1 % Prime = 1
  BY FieldSize, ModOfSmall
<1>7. QED
  BY <1>5, <1>6, FpInt DEF Same, Congruent

(* A factor that is not zero can be left out.                              *)
LEMMA NoZeroDivisors ==
    ASSUME NEW x \in Int, NEW y \in Int, Same(x * y, 0), ~ Same(x, 0)
    PROVE  Same(y, 0)
<1> DEFINE z == Inv(x)
<1>1. z \in Int /\ Same(x * z, 1)
  BY InverseIs
<1> HIDE DEF z
<1>2. Same((x * y) * z, 0 * z)
  <2> DEFINE w == x * y
  <2>1. w \in Int /\ Same(w, 0) /\ Same(z, z) /\ 0 \in Int
    BY DEF Same, Congruent
  <2> HIDE DEF w
  <2>2. Same(w * z, 0 * z)
    BY <1>1, <2>1, SameArithmetic
  <2>3. QED
    BY <2>2 DEF w
<1>3. Same((x * z) * y, 1 * y)
  <2>1. x * z \in Int /\ Same(y, y)
    BY <1>1 DEF Same, Congruent
  <2>2. QED
    BY <1>1, <2>1, SameArithmetic
<1>4. (x * y) * z = (x * z) * y
  BY <1>1
<1>5. 0 * z = 0 /\ 1 * y = y
  BY <1>1
<1>6. QED
  BY <1>2, <1>3, <1>4, <1>5 DEF Same, Congruent

-----------------------------------------------------------------------------
(* The folds of Polynomials: products, BuildFromRoots, Rem.                *)

(* The same as LastOfPrefix for any set with k + 1 in it.                  *)
LEMMA LastOfAny ==
    ASSUME NEW k \in Nat, NEW x \in SUBSET (1 .. k + 1), k + 1 \in x
    PROVE  Max(x) = k + 1 /\ x \ {k + 1} \in SUBSET (1 .. k)
<1>1. Max(x) = k + 1
  <2>1. (\A y \in x : k + 1 >= y) /\ \A z \in x : (\A y \in x : z >= y) => z = k + 1
    OBVIOUS
  <2>2. QED
    BY <2>1 DEF Max
<1>2. \A y \in x : y # k + 1 => y \in 1 .. k
  OBVIOUS
<1>3. QED
  BY <1>1, <1>2

(* A product, factor by factor.                                            *)
LEMMA ProductIs ==
    ASSUME NEW n \in Nat, NEW s, DOMAIN s = 1 .. n
    PROVE  \E P : /\ P[0] = 1
                  /\ \A k \in 0 .. n - 1 : P[k + 1] = (P[k] * s[k + 1]) % Prime
                  /\ ProductOf(s) = P[n]
<1> DEFINE Folds(D, iter) == iter = [x \in SUBSET D |->
                          IF x = {} THEN 1
                          ELSE (iter[x \ {Max(x)}] * s[Max(x)]) % Prime]
           S == {k \in 0 .. n : \E iter : Folds(1 .. k, iter)}
<1>1. ProductOf(s) = (CHOOSE iter : Folds(1 .. n, iter))[1 .. n]
  BY DEF ProductOf, FoldLeft, MapThenFoldSet
<1>2. 0 \in S
  <2> DEFINE none == [x \in SUBSET (1 .. 0) |-> 1]
  <2>1. \A x \in SUBSET (1 .. 0) : x = {}
    OBVIOUS
  <2>2. Folds(1 .. 0, none)
    BY <2>1
  <2>3. QED
    BY <2>2
<1>3. ASSUME NEW k \in 0 .. n - 1, k \in S
      PROVE  k + 1 \in S
  <2>1. PICK iter : Folds(1 .. k, iter)
    BY <1>3
  <2> DEFINE more == [x \in SUBSET (1 .. k + 1) |->
                        IF k + 1 \in x THEN (iter[x \ {k + 1}] * s[k + 1]) % Prime ELSE iter[x]]
  <2>2. ASSUME NEW x \in SUBSET (1 .. k + 1)
        PROVE  more[x] = IF x = {} THEN 1 ELSE (more[x \ {Max(x)}] * s[Max(x)]) % Prime
    <3>1. CASE k + 1 \in x
      <4>1. Max(x) = k + 1 /\ x \ {k + 1} \in SUBSET (1 .. k)
        <5>1. k \in Nat
          OBVIOUS
        <5>2. QED
          BY <3>1, <5>1, LastOfAny
      <4>2. more[x \ {k + 1}] = iter[x \ {k + 1}]
        OBVIOUS
      <4>3. QED
        BY <3>1, <4>1, <4>2
    <3>2. CASE k + 1 \notin x
      <4>1. x \in SUBSET (1 .. k)
        BY <3>2
      <4>2. more[x] = iter[x]
        BY <3>2
      <4>3. x \ {Max(x)} \in SUBSET (1 .. k) /\ more[x \ {Max(x)}] = iter[x \ {Max(x)}]
        BY <3>2, <4>1
      <4>4. iter[x] = IF x = {} THEN 1 ELSE (iter[x \ {Max(x)}] * s[Max(x)]) % Prime
        BY <2>1, <4>1
      <4>5. QED
        BY <4>2, <4>3, <4>4
    <3>3. QED
      BY <3>1, <3>2
  <2>3. Folds(1 .. k + 1, more)
    BY <2>2
  <2>4. k + 1 \in 0 .. n
    OBVIOUS
  <2>5. QED
    BY <2>3, <2>4
<1>4. n \in S
  <2> HIDE DEF S
  <2>1. \A k \in 0 .. n - 1 : k \in S => k + 1 \in S
    BY <1>3
  <2>2. \A k \in 0 .. n : k \in S
    BY <1>2, <2>1, InductionUpTo
  <2>3. QED
    BY <2>2
<1>5. PICK iter : Folds(1 .. n, iter) /\ ProductOf(s) = iter[1 .. n]
  BY <1>1, <1>4
<1> DEFINE P == [k \in 0 .. n |-> iter[1 .. k]]
<1>6. P[0] = 1
  <2>1. iter[{}] = 1
    BY <1>5
  <2>2. 0 \in 0 .. n /\ 1 .. 0 = {}
    OBVIOUS
  <2> HIDE DEF Folds
  <2>3. QED
    BY <2>1, <2>2
<1>7. ASSUME NEW k \in 0 .. n - 1
      PROVE  P[k + 1] = (P[k] * s[k + 1]) % Prime
  <2>1. k \in Nat /\ k + 1 \in 1 .. k + 1 /\ \A x \in 1 .. k + 1 : x \in 1 .. n
    OBVIOUS
  <2>2. Max(1 .. k + 1) = k + 1 /\ (1 .. k + 1) \ {k + 1} = 1 .. k
    BY <2>1, LastOfPrefix
  <2>3. iter[1 .. k + 1] = (iter[1 .. k] * s[k + 1]) % Prime
    BY <1>5, <2>1, <2>2
  <2>4. QED
    BY <2>3
<1> HIDE DEF Folds
<1>8. ProductOf(s) = P[n]
  BY <1>5
<1> HIDE DEF P
<1>9. QED
  BY <1>6, <1>7, <1>8

(* The polynomial with given roots, root by root.                          *)
LEMMA BuildIs ==
    ASSUME NEW n \in Nat, NEW s, DOMAIN s = 1 .. n
    PROVE  \E P : /\ P[0] = [k \in {0} |-> 1]
                  /\ \A k \in 0 .. n - 1 : P[k + 1] = TimesRoot(P[k], s[k + 1])
                  /\ BuildFromRoots(s) = P[n]
<1> DEFINE Folds(D, iter) == iter = [x \in SUBSET D |->
                          IF x = {} THEN [k \in {0} |-> 1]
                          ELSE TimesRoot(iter[x \ {Max(x)}], s[Max(x)])]
           S == {k \in 0 .. n : \E iter : Folds(1 .. k, iter)}
<1>1. BuildFromRoots(s) = (CHOOSE iter : Folds(1 .. n, iter))[1 .. n]
  BY DEF BuildFromRoots, FoldLeft, MapThenFoldSet
<1>2. 0 \in S
  <2> DEFINE none == [x \in SUBSET (1 .. 0) |-> [k \in {0} |-> 1]]
  <2>1. \A x \in SUBSET (1 .. 0) : x = {}
    OBVIOUS
  <2>2. Folds(1 .. 0, none)
    BY <2>1
  <2>3. QED
    BY <2>2
<1>3. ASSUME NEW k \in 0 .. n - 1, k \in S
      PROVE  k + 1 \in S
  <2>1. PICK iter : Folds(1 .. k, iter)
    BY <1>3
  <2> DEFINE more == [x \in SUBSET (1 .. k + 1) |->
                        IF k + 1 \in x THEN TimesRoot(iter[x \ {k + 1}], s[k + 1]) ELSE iter[x]]
  <2>2. ASSUME NEW x \in SUBSET (1 .. k + 1)
        PROVE  more[x] = IF x = {} THEN [i \in {0} |-> 1] ELSE TimesRoot(more[x \ {Max(x)}], s[Max(x)])
    <3>1. CASE k + 1 \in x
      <4>1. Max(x) = k + 1 /\ x \ {k + 1} \in SUBSET (1 .. k)
        <5>1. k \in Nat
          OBVIOUS
        <5>2. QED
          BY <3>1, <5>1, LastOfAny
      <4>2. more[x \ {k + 1}] = iter[x \ {k + 1}]
        OBVIOUS
      <4>3. QED
        BY <3>1, <4>1, <4>2
    <3>2. CASE k + 1 \notin x
      <4>1. x \in SUBSET (1 .. k)
        BY <3>2
      <4>2. more[x] = iter[x]
        BY <3>2
      <4>3. x \ {Max(x)} \in SUBSET (1 .. k) /\ more[x \ {Max(x)}] = iter[x \ {Max(x)}]
        BY <3>2, <4>1
      <4>4. iter[x] = IF x = {} THEN [i \in {0} |-> 1] ELSE TimesRoot(iter[x \ {Max(x)}], s[Max(x)])
        BY <2>1, <4>1
      <4>5. QED
        BY <4>2, <4>3, <4>4
    <3>3. QED
      BY <3>1, <3>2
  <2>3. Folds(1 .. k + 1, more)
    BY <2>2
  <2>4. k + 1 \in 0 .. n
    OBVIOUS
  <2>5. QED
    BY <2>3, <2>4
<1>4. n \in S
  <2> HIDE DEF S
  <2>1. \A k \in 0 .. n - 1 : k \in S => k + 1 \in S
    BY <1>3
  <2>2. \A k \in 0 .. n : k \in S
    BY <1>2, <2>1, InductionUpTo
  <2>3. QED
    BY <2>2
<1>5. PICK iter : Folds(1 .. n, iter) /\ BuildFromRoots(s) = iter[1 .. n]
  BY <1>1, <1>4
<1> DEFINE P == [k \in 0 .. n |-> iter[1 .. k]]
<1>6. P[0] = [k \in {0} |-> 1]
  <2>1. iter[{}] = [k \in {0} |-> 1]
    BY <1>5
  <2>2. 0 \in 0 .. n /\ 1 .. 0 = {}
    OBVIOUS
  <2> HIDE DEF Folds
  <2>3. QED
    BY <2>1, <2>2
<1>7. ASSUME NEW k \in 0 .. n - 1
      PROVE  P[k + 1] = TimesRoot(P[k], s[k + 1])
  <2>1. k \in Nat /\ k + 1 \in 1 .. k + 1 /\ \A x \in 1 .. k + 1 : x \in 1 .. n
    OBVIOUS
  <2>2. Max(1 .. k + 1) = k + 1 /\ (1 .. k + 1) \ {k + 1} = 1 .. k
    BY <2>1, LastOfPrefix
  <2>3. iter[1 .. k + 1] = TimesRoot(iter[1 .. k], s[k + 1])
    BY <1>5, <2>1, <2>2
  <2>4. QED
    BY <2>3
<1> HIDE DEF Folds
<1>8. BuildFromRoots(s) = P[n]
  BY <1>5
<1> HIDE DEF P
<1>9. QED
  BY <1>6, <1>7, <1>8

(* One step of Rem, and Rem's fold over any list of exponents.             *)
RemStep(g, d, r, k) == [j \in DOMAIN r |-> (r[j] - r[k] * At(g, j - (k - d))) % Prime]
RemFold(f, g, d, s) ==
    FoldLeft(LAMBDA r, k : [j \in DOMAIN r |-> (r[j] - r[k] * At(g, j - (k - d))) % Prime], f, s)

(* A remainder, one leading coefficient at a time.                         *)
LEMMA RemIs ==
    ASSUME NEW n \in Nat, NEW s, DOMAIN s = 1 .. n, NEW f, NEW g, NEW d
    PROVE  \E P : /\ P[0] = f
                  /\ \A k \in 0 .. n - 1 : P[k + 1] = RemStep(g, d, P[k], s[k + 1])
                  /\ RemFold(f, g, d, s) = P[n]
<1> DEFINE Folds(D, iter) == iter = [x \in SUBSET D |->
                          IF x = {} THEN f
                          ELSE RemStep(g, d, iter[x \ {Max(x)}], s[Max(x)])]
           S == {k \in 0 .. n : \E iter : Folds(1 .. k, iter)}
<1>1. RemFold(f, g, d, s) = (CHOOSE iter : Folds(1 .. n, iter))[1 .. n]
  BY DEF RemFold, RemStep, FoldLeft, MapThenFoldSet
<1>2. 0 \in S
  <2> DEFINE none == [x \in SUBSET (1 .. 0) |-> f]
  <2>1. \A x \in SUBSET (1 .. 0) : x = {}
    OBVIOUS
  <2>2. Folds(1 .. 0, none)
    BY <2>1
  <2>3. QED
    BY <2>2
<1>3. ASSUME NEW k \in 0 .. n - 1, k \in S
      PROVE  k + 1 \in S
  <2>1. PICK iter : Folds(1 .. k, iter)
    BY <1>3
  <2> DEFINE more == [x \in SUBSET (1 .. k + 1) |->
                        IF k + 1 \in x THEN RemStep(g, d, iter[x \ {k + 1}], s[k + 1]) ELSE iter[x]]
  <2>2. ASSUME NEW x \in SUBSET (1 .. k + 1)
        PROVE  more[x] = IF x = {} THEN f ELSE RemStep(g, d, more[x \ {Max(x)}], s[Max(x)])
    <3>1. CASE k + 1 \in x
      <4>1. Max(x) = k + 1 /\ x \ {k + 1} \in SUBSET (1 .. k)
        <5>1. k \in Nat
          OBVIOUS
        <5>2. QED
          BY <3>1, <5>1, LastOfAny
      <4>2. more[x \ {k + 1}] = iter[x \ {k + 1}]
        OBVIOUS
      <4>3. QED
        BY <3>1, <4>1, <4>2
    <3>2. CASE k + 1 \notin x
      <4>1. x \in SUBSET (1 .. k)
        BY <3>2
      <4>2. more[x] = iter[x]
        BY <3>2
      <4>3. x \ {Max(x)} \in SUBSET (1 .. k) /\ more[x \ {Max(x)}] = iter[x \ {Max(x)}]
        BY <3>2, <4>1
      <4>4. iter[x] = IF x = {} THEN f ELSE RemStep(g, d, iter[x \ {Max(x)}], s[Max(x)])
        BY <2>1, <4>1
      <4>5. QED
        BY <4>2, <4>3, <4>4
    <3>3. QED
      BY <3>1, <3>2
  <2>3. Folds(1 .. k + 1, more)
    BY <2>2
  <2>4. k + 1 \in 0 .. n
    OBVIOUS
  <2>5. QED
    BY <2>3, <2>4
<1>4. n \in S
  <2> HIDE DEF S
  <2>1. \A k \in 0 .. n - 1 : k \in S => k + 1 \in S
    BY <1>3
  <2>2. \A k \in 0 .. n : k \in S
    BY <1>2, <2>1, InductionUpTo
  <2>3. QED
    BY <2>2
<1>5. PICK iter : Folds(1 .. n, iter) /\ RemFold(f, g, d, s) = iter[1 .. n]
  BY <1>1, <1>4
<1> DEFINE P == [k \in 0 .. n |-> iter[1 .. k]]
<1>6. P[0] = f
  <2>1. iter[{}] = f
    BY <1>5
  <2>2. 0 \in 0 .. n /\ 1 .. 0 = {}
    OBVIOUS
  <2> HIDE DEF Folds
  <2>3. QED
    BY <2>1, <2>2
<1>7. ASSUME NEW k \in 0 .. n - 1
      PROVE  P[k + 1] = RemStep(g, d, P[k], s[k + 1])
  <2>1. k \in Nat /\ k + 1 \in 1 .. k + 1 /\ \A x \in 1 .. k + 1 : x \in 1 .. n
    OBVIOUS
  <2>2. Max(1 .. k + 1) = k + 1 /\ (1 .. k + 1) \ {k + 1} = 1 .. k
    BY <2>1, LastOfPrefix
  <2>3. iter[1 .. k + 1] = RemStep(g, d, iter[1 .. k], s[k + 1])
    BY <1>5, <2>1, <2>2
  <2>4. QED
    BY <2>3
<1> HIDE DEF Folds
<1>8. RemFold(f, g, d, s) = P[n]
  BY <1>5
<1> HIDE DEF P
<1>9. QED
  BY <1>6, <1>7, <1>8

-----------------------------------------------------------------------------
(* Powers, and those of Xi.                                                *)

(* Power is what its recursion says.                                       *)
LEMMA PowerIs ==
    ASSUME NEW x \in Int
    PROVE  /\ Power(x, 0) = 1
           /\ \A k \in Nat : Power(x, k + 1) = (Power(x, k) * x) % Prime
           /\ \A k \in Nat : Power(x, k) \in Fp /\ Power(x, k) \in Int
<1>1. Power(x, 0) = 1
  <2> DEFINE s == [j \in 1 .. 0 |-> x]
  <2>1. DOMAIN s = 1 .. 0 /\ 0 \in Nat
    OBVIOUS
  <2>2. Power(x, 0) = ProductOf(s)
    BY DEF Power
  <2> HIDE DEF s
  <2>3. PICK P : P[0] = 1 /\ ProductOf(s) = P[0]
    BY <2>1, ProductIs
  <2>4. QED
    BY <2>2, <2>3
<1>2. ASSUME NEW k \in Nat
      PROVE  Power(x, k + 1) = (Power(x, k) * x) % Prime
  <2> DEFINE s == [j \in 1 .. k |-> x]
             t == [j \in 1 .. k + 1 |-> x]
             n == k + 1
  <2>1. DOMAIN s = 1 .. k /\ DOMAIN t = 1 .. n /\ n \in Nat
    OBVIOUS
  <2>2. /\ \A i \in 0 .. k - 1 : s[i + 1] = x
        /\ \A i \in 0 .. n - 1 : t[i + 1] = x
    OBVIOUS
  <2>3. Power(x, k) = ProductOf(s) /\ Power(x, n) = ProductOf(t)
    BY DEF Power
  <2> HIDE DEF s, t, n
  <2>4. PICK P : /\ P[0] = 1 /\ ProductOf(s) = P[k]
                 /\ \A i \in 0 .. k - 1 : P[i + 1] = (P[i] * s[i + 1]) % Prime
    BY <2>1, ProductIs
  <2>5. PICK Q : /\ Q[0] = 1 /\ ProductOf(t) = Q[n]
                 /\ \A i \in 0 .. n - 1 : Q[i + 1] = (Q[i] * t[i + 1]) % Prime
    BY <2>1, ProductIs
  <2> DEFINE A == {i \in 0 .. k : P[i] = Q[i]}
  <2>6. 0 \in A
    BY <2>4, <2>5
  <2>7. \A i \in 0 .. k - 1 : i \in A => i + 1 \in A
    <3> TAKE i \in 0 .. k - 1
    <3>1. i \in 0 .. n - 1 /\ i + 1 \in 0 .. k
      BY DEF n
    <3>2. P[i + 1] = (P[i] * x) % Prime /\ Q[i + 1] = (Q[i] * x) % Prime
      BY <2>2, <2>4, <2>5, <3>1
    <3>3. QED
      BY <3>1, <3>2
  <2>8. k \in A
    <3> HIDE DEF A
    <3>1. \A i \in 0 .. k : i \in A
      BY <2>6, <2>7, InductionUpTo
    <3>2. QED
      BY <3>1
  <2>9. k \in 0 .. n - 1 /\ n = k + 1
    BY DEF n
  <2>10. Q[n] = (Q[k] * x) % Prime
    BY <2>2, <2>5, <2>9
  <2>11. QED
    BY <2>3, <2>4, <2>5, <2>8, <2>10 DEF n
<1>3. ASSUME NEW m \in Nat
      PROVE  Power(x, m) \in Fp /\ Power(x, m) \in Int
  <2> DEFINE A == {k \in 0 .. m : Power(x, k) \in Fp}
  <2>1. 0 \in A
    BY <1>1, FpInt
  <2>2. \A k \in 0 .. m - 1 : k \in A => k + 1 \in A
    <3> SUFFICES ASSUME NEW k \in 0 .. m - 1, k \in A PROVE k + 1 \in A
      OBVIOUS
    <3>0. Power(x, k) \in Fp
      OBVIOUS
    <3>5. Power(x, k) \in Int
      <4> HIDE DEF A
      <4>1. QED
        BY <3>0, FpInt
    <3>1. k \in Nat /\ Power(x, k) \in Int /\ k + 1 \in 0 .. m
      BY <3>5
    <3> DEFINE v == Power(x, k) * x
    <3>2. v \in Int
      BY <3>1
    <3> HIDE DEF v
    <3>3. v % Prime \in Fp
      BY <3>2, SameIs
    <3>4. QED
      BY <1>2, <3>1, <3>3 DEF v
  <2> HIDE DEF A
  <2>3. \A k \in 0 .. m : k \in A
    BY <2>1, <2>2, InductionUpTo
  <2>4. m \in A
    BY <2>3
  <2>5. Power(x, m) \in Fp
    BY <2>4 DEF A
  <2>6. QED
    BY <2>5, FpInt
<1>4. QED
  BY <1>1, <1>2, <1>3

(* The power of a sum.                                                     *)
LEMMA PowerSum ==
    ASSUME NEW x \in Int, NEW i \in Nat, NEW m \in Nat
    PROVE  Power(x, i + m) = (Power(x, i) * Power(x, m)) % Prime
<1> DEFINE u == Power(x, i)
           A == {k \in 0 .. m : Power(x, i + k) = (u * Power(x, k)) % Prime}
<1>1. u \in Fp /\ u \in Int
  BY PowerIs
<1>2. 0 \in A
  <2>1. Power(x, 0) = 1 /\ u * 1 = u /\ u % Prime = u /\ i + 0 = i
    BY <1>1, PowerIs, SameIs
  <2>2. QED
    BY <2>1
<1>3. \A k \in 0 .. m - 1 : k \in A => k + 1 \in A
  <2> SUFFICES ASSUME NEW k \in 0 .. m - 1, k \in A PROVE k + 1 \in A
    OBVIOUS
  <2> DEFINE v == Power(x, k)
             w == u * v
             j == i + k
  <2>1. k \in Nat /\ j \in Nat /\ i + (k + 1) = j + 1 /\ k + 1 \in 0 .. m
    OBVIOUS
  <2>2. v \in Int /\ w \in Int
    BY <1>1, <2>1, PowerIs
  <2>3. Power(x, j) = w % Prime
    OBVIOUS
  <2>4. Power(x, k + 1) = (v * x) % Prime
    BY <2>1, PowerIs
  <2> HIDE DEF u, v, w, j
  <2>5. Power(x, j + 1) = ((w % Prime) * x) % Prime
    BY <2>1, <2>3, PowerIs
  <2>6. ((w % Prime) * x) % Prime = (w * x) % Prime
    BY <2>2, FieldSize, InnerRemainder
  <2>7. w * x = u * (v * x)
    BY <1>1, <2>2 DEF w
  <2> DEFINE y == v * x
  <2>8. y \in Int /\ (u * (y % Prime)) % Prime = (u * y) % Prime
    <3>1. y \in Int
      BY <2>2
    <3> HIDE DEF y
    <3>2. QED
      BY <1>1, <3>1, FieldSize, InnerRemainder
  <2>9. Power(x, i + (k + 1)) = (u * Power(x, k + 1)) % Prime
    BY <2>1, <2>4, <2>5, <2>6, <2>7, <2>8
  <2>10. QED
    BY <2>1, <2>9
<1>4. m \in A
  <2> HIDE DEF A
  <2>1. \A k \in 0 .. m : k \in A
    BY <1>2, <1>3, InductionUpTo
  <2>2. QED
    BY <2>1
<1>5. QED
  BY <1>4

(* The power of a product.                                                 *)
LEMMA PowerProduct ==
    ASSUME NEW x \in Int, NEW i \in Nat, NEW m \in Nat
    PROVE  Power(x, i * m) = Power(Power(x, i), m)
<1> DEFINE u == Power(x, i)
           A == {k \in 0 .. m : Power(x, i * k) = Power(u, k)}
<1>1. u \in Int
  BY PowerIs
<1>2. 0 \in A
  <2>1. i * 0 = 0 /\ Power(x, 0) = 1
    BY PowerIs
  <2> HIDE DEF u
  <2>2. Power(u, 0) = 1
    BY <1>1, PowerIs
  <2>3. QED
    BY <2>1, <2>2
<1>3. \A k \in 0 .. m - 1 : k \in A => k + 1 \in A
  <2> SUFFICES ASSUME NEW k \in 0 .. m - 1, k \in A PROVE k + 1 \in A
    OBVIOUS
  <2> DEFINE j == i * k
  <2>1. k \in Nat /\ j \in Nat /\ i * (k + 1) = j + i /\ k + 1 \in 0 .. m
    OBVIOUS
  <2>2. Power(x, j) = Power(u, k)
    OBVIOUS
  <2> HIDE DEF j
  <2>3. Power(x, j + i) = (Power(x, j) * u) % Prime
    BY <2>1, PowerSum
  <2> HIDE DEF u
  <2>4. Power(u, k + 1) = (Power(u, k) * u) % Prime
    BY <1>1, <2>1, PowerIs
  <2>5. Power(x, i * (k + 1)) = Power(u, k + 1)
    BY <2>1, <2>2, <2>3, <2>4
  <2>6. QED
    BY <2>1, <2>5
<1>4. m \in A
  <2> HIDE DEF A
  <2>1. \A k \in 0 .. m : k \in A
    BY <1>2, <1>3, InductionUpTo
  <2>2. QED
    BY <2>1
<1>5. QED
  BY <1>4

(* One to any power.                                                       *)
LEMMA PowerOfOne ==
    ASSUME NEW m \in Nat
    PROVE  Power(1, m) = 1
<1> DEFINE one == 1
           A == {k \in 0 .. m : Power(one, k) = 1}
<1>1. 0 \in A
  BY PowerIs
<1>2. \A k \in 0 .. m - 1 : k \in A => k + 1 \in A
  <2> SUFFICES ASSUME NEW k \in 0 .. m - 1, k \in A PROVE k + 1 \in A
    OBVIOUS
  <2>1. k \in Nat /\ k + 1 \in 0 .. m /\ Power(one, k) = 1 /\ one \in Int /\ one = 1
    OBVIOUS
  <2>2. 1 % Prime = 1 /\ 1 * 1 = 1
    BY FpInt, SameIs
  <2> HIDE DEF one
  <2>3. Power(one, k + 1) = (Power(one, k) * one) % Prime
    BY <2>1, PowerIs
  <2>4. QED
    BY <2>1, <2>2, <2>3
<1>3. m \in A
  <2> HIDE DEF A
  <2>1. \A k \in 0 .. m : k \in A
    BY <1>1, <1>2, InductionUpTo
  <2>2. QED
    BY <2>1
<1>4. QED
  BY <1>3

-----------------------------------------------------------------------------

(* Xi has order Points.                                                    *)
LEMMA XiInt == Xi \in Int /\ Power(Xi, Points) = 1 /\ \A i \in 1 .. Points - 1 : Power(Xi, i) # 1
<1>1. Points \in 1 .. Points
  BY FieldSize
<1>2. QED
  BY <1>1, PolynomialAssumption, FpInt, FieldSize

(* The powers of xi repeat after Points of them, and are no divisors of 0. *)
LEMMA XiCycle ==
    ASSUME NEW i \in Nat
    PROVE  /\ Power(Xi, i) = Power(Xi, i % Points)
           /\ i % Points \in Below(Points)
<1> DEFINE q == i \div Points
           r == i % Points
<1>1. i = Points * q + r /\ q \in Nat /\ r \in Nat /\ r \in Below(Points)
  <2>1. i = Points * q + r /\ r \in 0 .. Points - 1
    BY FieldSize, DivMod
  <2>2. q \in 0 .. i
    BY FieldSize, QuotientBound
  <2>3. QED
    BY <2>1, <2>2 DEF Below
<1> HIDE DEF q, r
<1>2. Power(Xi, Points * q) = 1
  <2>1. Power(Xi, Points * q) = Power(Power(Xi, Points), q)
    BY <1>1, XiInt, FieldSize, PowerProduct
  <2>2. QED
    BY <1>1, <2>1, XiInt, PowerOfOne
<1> DEFINE e == Points * q
<1>3. e \in Nat
  BY <1>1, FieldSize
<1>4. Power(Xi, r) \in Fp /\ Power(Xi, r) \in Int
  BY <1>1, XiInt, PowerIs
<1>5. Power(Xi, e + r) = (Power(Xi, e) * Power(Xi, r)) % Prime
  <2> HIDE DEF e
  <2>1. QED
    BY <1>1, <1>3, XiInt, PowerSum
<1>6. 1 * Power(Xi, r) = Power(Xi, r) /\ Power(Xi, r) % Prime = Power(Xi, r)
  BY <1>4, SameIs
<1>7. Power(Xi, i) = Power(Xi, r)
  BY <1>1, <1>2, <1>5, <1>6
<1>8. QED
  BY <1>1, <1>7 DEF r

(* Different powers of Xi are different elements of the field: the         *)
(* evaluation points of the rows are apart.                                *)
LEMMA XiDistinct ==
    ASSUME NEW i \in Below(Points), NEW j \in Below(Points), i < j
    PROVE  Power(Xi, i) # Power(Xi, j) /\ ~ Same(Power(Xi, j) - Power(Xi, i), 0)
<1> DEFINE u == Power(Xi, i)
           d == j - i
           w == Power(Xi, d)
           c == Points - i
           z == Power(Xi, c)
<1>1. i \in Nat /\ d \in 1 .. Points - 1 /\ d \in Nat /\ c \in Nat /\ i + d = j /\ i + c = Points
  BY FieldSize DEF Below
<1>2. u \in Fp /\ w \in Fp /\ z \in Fp /\ w # 1 /\ Power(Xi, j) \in Fp
  <2>1. j \in Nat
    BY <1>1
  <2>2. QED
    BY <1>1, <2>1, XiInt, PowerIs
<1>3. Power(Xi, j) = (u * w) % Prime
  <2> HIDE DEF d, c
  <2>1. QED
    BY <1>1, XiInt, PowerSum
<1>4. (u * z) % Prime = 1
  <2> HIDE DEF d, c
  <2>1. QED
    BY <1>1, XiInt, PowerSum
<1> HIDE DEF u, d, w, c, z
<1>5. u \in Int /\ w \in Int /\ z \in Int
  BY <1>2, FpInt
<1>6. ~ Same(u, 0)
  <2> SUFFICES ASSUME Same(u, 0) PROVE FALSE
    OBVIOUS
  <2>1. Same(z, z)
    BY DEF Same, Congruent
  <2>2. Same(u * z, 0 * z)
    BY <1>5, <2>1, SameArithmetic
  <2>3. 0 * z = 0 /\ 0 % Prime = 0
    BY <1>5, FpInt, SameIs
  <2>4. QED
    BY <1>4, <2>2, <2>3 DEF Same, Congruent
<1>7. ~ Same(w - 1, 0)
  <2> SUFFICES ASSUME Same(w - 1, 0) PROVE FALSE
    OBVIOUS
  <2> DEFINE y == w - 1
             one == 1
  <2>1. y \in Int /\ Same(y, 0) /\ Same(one, one) /\ y + one = w /\ one \in Int /\ 0 + one = 1
    BY <1>5 DEF Same, Congruent
  <2> HIDE DEF y, one
  <2>2. Same(y + one, 0 + one)
    BY <2>1, SameArithmetic
  <2>3. w % Prime = 1 % Prime
    BY <2>1, <2>2 DEF Same, Congruent
  <2>4. QED
    BY <1>2, <2>3, FpInt, SameIs
<1>8. ASSUME Same(Power(Xi, j) - u, 0)
      PROVE  FALSE
  <2> DEFINE v == u * w
             y == w - 1
  <2>1. v \in Int /\ y \in Int /\ v - u = u * y
    BY <1>5
  <2>2. ~ Same(y, 0)
    BY <1>7
  <2>3. ((v % Prime) - u) % Prime = (v - u) % Prime
    <3> HIDE DEF v
    <3>1. QED
      BY <1>5, <2>1, FieldSize, InnerRemainder
  <2> HIDE DEF y
  <2>4. Same(u * y, 0)
    BY <1>3, <1>8, <2>1, <2>3 DEF Same, Congruent
  <2>5. Same(y, 0)
    BY <1>5, <1>6, <2>1, <2>4, NoZeroDivisors
  <2>6. QED
    BY <2>2, <2>5
<1>9. Power(Xi, i) # Power(Xi, j)
  <2>1. u - u = 0
    BY <1>5
  <2>2. QED
    BY <1>8, <2>1 DEF u, Same, Congruent
<1>10. QED
  BY <1>8, <1>9 DEF u

(* Polynomials of n coefficients, and their value at x.                    *)
Polys(n) == [Below(n) -> Int]
ValueOf(f, x) == SumOn(DOMAIN f, [k \in DOMAIN f |-> f[k] * Power(x, k)])

(* A polynomial over the field is one over the integers.                   *)
LEMMA FpPoly ==
    ASSUME NEW n, NEW f \in [Below(n) -> Fp]
    PROVE  f \in Polys(n) /\ DOMAIN f = Below(n) /\ \A k \in Below(n) : f[k] \in Fp /\ f[k] \in Int
BY FpInt DEF Polys

(* The numbers below n.                                                    *)
LEMMA BelowIs ==
    ASSUME NEW n \in Nat
    PROVE  IsFiniteSet(Below(n)) /\ Cardinality(Below(n)) = n /\ Below(n) \subseteq Nat
           /\ \A k : k \in Below(n) <=> k \in Nat /\ k < n
<1> DEFINE m == n - 1
<1>1. m \in Int /\ 0 \in Int /\ m - 0 + 1 = n /\ (0 > m => n = 0)
  OBVIOUS
<1>2. IsFiniteSet(0 .. m) /\ Cardinality(0 .. m) = IF 0 > m THEN 0 ELSE m - 0 + 1
  <2> HIDE DEF m
  <2>1. QED
    BY <1>1, FS_Interval
<1>3. QED
  BY <1>1, <1>2 DEF Below

(* The number of coefficients.                                             *)
LEMMA PolyLength ==
    ASSUME NEW n \in Nat, NEW f, DOMAIN f = Below(n)
    PROVE  Length(f) = n
BY BelowIs DEF Length

(* A value is an integer.                                                  *)
LEMMA ValueInt ==
    ASSUME NEW n \in Nat, NEW f \in Polys(n), NEW x \in Int
    PROVE  ValueOf(f, x) \in Int
<1> DEFINE F == [k \in Below(n) |-> f[k] * Power(x, k)]
<1>1. \A k \in Below(n) : F[k] \in Int
  <2> TAKE k \in Below(n)
  <2>1. k \in Nat /\ f[k] \in Int
    BY BelowIs DEF Polys
  <2>2. Power(x, k) \in Int
    BY <2>1, PowerIs
  <2>3. QED
    BY <2>1, <2>2
<1>2. ValueOf(f, x) = SumOn(Below(n), F)
  BY DEF ValueOf, Polys
<1> HIDE DEF F
<1>3. QED
  BY <1>1, <1>2, BelowIs, SumStep

(* Coefficients moved up by s places multiply the value by x^s.            *)
LEMMA ShiftValue ==
    ASSUME NEW n \in Nat, NEW f \in Polys(n), NEW x \in Int, NEW s \in Nat,
           NEW m \in Nat, n + s <= m, NEW g \in Polys(m),
           \A k \in Below(m) : g[k] = At(f, k - s)
    PROVE  Same(ValueOf(g, x), Power(x, s) * ValueOf(f, x))
<1> DEFINE S == Below(m)
           T == Below(n)
           F == [k \in S |-> g[k] * Power(x, k)]
           h == [k \in T |-> k + s]
           G == [k \in T |-> F[k + s]]
           V == [k \in T |-> f[k] * Power(x, k)]
           u == Power(x, s)
           W == [k \in T |-> u * V[k]]
<1>1. IsFiniteSet(S) /\ IsFiniteSet(T)
  BY BelowIs
<1>2. DOMAIN f = T /\ DOMAIN g = S /\ \A k \in T : f[k] \in Int
  BY DEF Polys
<1>3. \A k \in S : k \in Nat /\ F[k] \in Int /\ F[k] = g[k] * Power(x, k)
  <2> TAKE k \in S
  <2>1. k \in Nat /\ g[k] \in Int
    BY BelowIs DEF Polys
  <2>2. Power(x, k) \in Int
    BY <2>1, PowerIs
  <2>3. QED
    BY <2>1, <2>2
<1>4. \A k \in T : k \in Nat /\ h[k] \in S /\ G[k] = F[h[k]] /\ h[k] = k + s
  BY BelowIs
<1>5. \A k \in T : V[k] \in Int /\ u \in Int /\ W[k] = u * V[k] /\ V[k] = f[k] * Power(x, k)
  <2> TAKE k \in T
  <2>1. k \in Nat /\ f[k] \in Int /\ u \in Int
    BY <1>2, <1>4, PowerIs
  <2>2. Power(x, k) \in Int
    BY <2>1, PowerIs
  <2>3. QED
    BY <2>1, <2>2
<1>6. \A j, k \in T : h[j] = h[k] => j = k
  BY <1>4
<1>7. ASSUME NEW k \in S, F[k] # 0
      PROVE  \E j \in T : h[j] = k
  <2>1. k - s \in T
    <3> SUFFICES ASSUME k - s \notin T PROVE FALSE
      OBVIOUS
    <3>1. g[k] = 0
      BY <1>2 DEF At
    <3>2. Power(x, k) \in Int
      BY <1>3, PowerIs
    <3>3. QED
      BY <1>3, <1>7, <3>1, <3>2
  <2>2. h[k - s] = k
    BY <1>3, <2>1
  <2>3. QED
    BY <2>1, <2>2
<1>8. SumOn(T, G) = SumOn(S, F)
  <2> HIDE DEF S, T, F, G, h
  <2>1. \A k \in S : F[k] \in Int
    BY <1>3
  <2>2. \A k \in T : h[k] \in S /\ G[k] = F[h[k]]
    BY <1>4
  <2>3. \A k \in S : F[k] # 0 => \E j \in T : h[j] = k
    BY <1>7
  <2>4. QED
    BY <1>1, <1>6, <2>1, <2>2, <2>3, SumReindex
<1>9. \A k \in T : G[k] \in Int /\ W[k] \in Int /\ G[k] % Prime = W[k] % Prime
  <2> TAKE k \in T
  <2>1. k \in Nat /\ k + s \in S /\ k + s - s = k
    BY <1>4
  <2>2. g[k + s] = f[k]
    BY <1>2, <2>1 DEF At
  <2> DEFINE v == Power(x, k)
             c == f[k]
             y == v * u
  <2>3. Power(x, k + s) = (v * u) % Prime
    BY <2>1, PowerSum
  <2>4. v \in Int /\ u \in Int /\ c \in Int
    BY <1>2, <2>1, PowerIs
  <2>5. G[k] = c * (y % Prime) /\ W[k] = u * (c * v)
    BY <1>3, <1>4, <1>5, <2>1, <2>2, <2>3
  <2>6. c * y = u * (c * v) /\ y \in Int
    BY <2>4
  <2>7. G[k] \in Int /\ W[k] \in Int
    BY <1>3, <1>4, <1>5, <2>1
  <2> HIDE DEF v, c, y, u, G, W
  <2>8. (c * (y % Prime)) % Prime = (c * y) % Prime
    BY <2>4, <2>6, FieldSize, InnerRemainder
  <2>9. QED
    BY <2>5, <2>6, <2>7, <2>8
<1>10. SumOn(T, G) % Prime = SumOn(T, W) % Prime
  <2> HIDE DEF T, G, W
  <2>1. QED
    BY <1>1, <1>9, FieldSize, SumMod
<1>11. SumOn(T, W) = u * SumOn(T, V)
  <2>1. u \in Int
    BY PowerIs
  <2>2. \A k \in T : V[k] \in Int /\ W[k] = u * V[k]
    BY <1>5
  <2> HIDE DEF T, V, W, u
  <2>3. QED
    BY <1>1, <2>1, <2>2, SumScale
<1>12. ValueOf(f, x) = SumOn(T, V) /\ ValueOf(g, x) = SumOn(S, F)
  BY <1>2 DEF ValueOf
<1>13. QED
  BY <1>8, <1>10, <1>11, <1>12 DEF Same, Congruent

(* Equal coefficients in the field give equal values, more zeros too.      *)
LEMMA ValueSame ==
    ASSUME NEW n \in Nat, NEW f \in Polys(n), NEW g \in Polys(n), NEW x \in Int,
           \A k \in Below(n) : Same(f[k], g[k])
    PROVE  Same(ValueOf(f, x), ValueOf(g, x))
<1> DEFINE T == Below(n)
           F == [k \in T |-> f[k] * Power(x, k)]
           G == [k \in T |-> g[k] * Power(x, k)]
<1>1. IsFiniteSet(T)
  BY BelowIs
<1>2. \A k \in T : F[k] \in Int /\ G[k] \in Int /\ F[k] % Prime = G[k] % Prime
  <2> TAKE k \in T
  <2> DEFINE v == Power(x, k)
             a == f[k]
             b == g[k]
  <2>1. v \in Int /\ a \in Int /\ b \in Int /\ Same(a, b) /\ Same(v, v)
    BY BelowIs, PowerIs DEF Polys, Same, Congruent
  <2>2. F[k] = a * v /\ G[k] = b * v
    OBVIOUS
  <2> HIDE DEF v, a, b, F, G
  <2>3. Same(a * v, b * v)
    BY <2>1, SameArithmetic
  <2>4. QED
    BY <2>1, <2>2, <2>3 DEF Same, Congruent
<1>3. ValueOf(f, x) = SumOn(T, F) /\ ValueOf(g, x) = SumOn(T, G)
  BY DEF ValueOf, Polys
<1> HIDE DEF T, F, G
<1>4. SumOn(T, F) % Prime = SumOn(T, G) % Prime
  BY <1>1, <1>2, FieldSize, SumMod
<1>5. QED
  BY <1>3, <1>4 DEF Same, Congruent

(* e is a * f + b * g, coefficient by coefficient.                         *)
Combines(n, e, a, f, b, g) == \A k \in Below(n) : e[k] = a * f[k] + b * g[k]

(* The value of a linear combination.                                      *)
LEMMA ValueAdds ==
    ASSUME NEW n \in Nat, NEW f \in Polys(n), NEW g \in Polys(n), NEW e \in Polys(n),
           NEW a \in Int, NEW b \in Int, NEW x \in Int, Combines(n, e, a, f, b, g)
    PROVE  ValueOf(e, x) = a * ValueOf(f, x) + b * ValueOf(g, x)
<1> DEFINE T == Below(n)
           F == [k \in T |-> f[k] * Power(x, k)]
           G == [k \in T |-> g[k] * Power(x, k)]
           H == [k \in T |-> e[k] * Power(x, k)]
<1>1. IsFiniteSet(T)
  BY BelowIs
<1>2. \A k \in T : F[k] \in Int /\ G[k] \in Int /\ H[k] = (a * F[k]) + (b * G[k])
  <2> TAKE k \in T
  <2> DEFINE v == Power(x, k)
             c == f[k]
             d == g[k]
  <2>1. v \in Int /\ c \in Int /\ d \in Int
    BY BelowIs, PowerIs DEF Polys
  <2>2. F[k] = c * v /\ G[k] = d * v /\ H[k] = (a * c + b * d) * v
    BY DEF Combines
  <2>3. (a * c + b * d) * v = a * (c * v) + b * (d * v)
    <3> HIDE DEF c, d, v
    <3>1. (a * c + b * d) * v = (a * c) * v + (b * d) * v
      BY <2>1
    <3>2. (a * c) * v = a * (c * v) /\ (b * d) * v = b * (d * v)
      BY <2>1
    <3>3. QED
      BY <3>1, <3>2
  <2> HIDE DEF c, d, v, F, G, H
  <2>4. QED
    BY <2>1, <2>2, <2>3
<1>3. ValueOf(f, x) = SumOn(T, F) /\ ValueOf(g, x) = SumOn(T, G) /\ ValueOf(e, x) = SumOn(T, H)
  BY DEF ValueOf, Polys
<1> HIDE DEF T, F, G, H
<1>4. SumOn(T, H) = (a * SumOn(T, F)) + (b * SumOn(T, G))
  BY <1>1, <1>2, SumLinear
<1>5. QED
  BY <1>3, <1>4

(* The first two powers.                                                   *)
LEMMA PowerZeroOne ==
    ASSUME NEW x \in Int
    PROVE  Power(x, 0) = 1 /\ Power(x, 1) = x % Prime
<1>1. 0 \in Nat /\ 0 + 1 = 1 /\ 1 * x = x
  OBVIOUS
<1>2. Power(x, 0 + 1) = (Power(x, 0) * x) % Prime /\ Power(x, 0) = 1
  BY PowerIs
<1>3. QED
  BY <1>1, <1>2

(* One factor of BuildFromRoots: a degree more, the same leading           *)
(* coefficient, and the value multiplied by x - a.                         *)
LEMMA TimesRootIs ==
    ASSUME NEW n \in Nat \ {0}, NEW f \in Polys(n), NEW a \in Int
    PROVE  /\ TimesRoot(f, a) \in [Below(n + 1) -> Fp]
           /\ TimesRoot(f, a)[n] = f[n - 1] % Prime
           /\ \A x \in Int : Same(ValueOf(TimesRoot(f, a), x), (x - a) * ValueOf(f, x))
<1> DEFINE m == n + 1
           up == [k \in Below(m) |-> At(f, k - 1)]
           here == [k \in Below(m) |-> At(f, k - 0)]
           e == [k \in Below(m) |-> 1 * up[k] + (-a) * here[k]]
           g == TimesRoot(f, a)
<1>1. DOMAIN f = Below(n) /\ \A k \in Below(n) : f[k] \in Int
  BY DEF Polys
<1>2. n \in Nat /\ m \in Nat /\ Below(m) = 0 .. n /\ Length(f) = n
  <2>1. Length(f) = n
    BY <1>1, PolyLength
  <2>2. QED
    BY <2>1 DEF Below
<1>3. \A k \in Int : At(f, k) \in Int
  BY <1>1 DEF At
<1>4. \A k \in Below(m) : k \in Int /\ up[k] \in Int /\ here[k] \in Int /\ e[k] = At(f, k - 1) - a * At(f, k)
  <2> TAKE k \in Below(m)
  <2>1. k \in Int /\ k - 1 \in Int /\ k - 0 = k
    BY <1>2, BelowIs
  <2>2. At(f, k) \in Int /\ At(f, k - 1) \in Int
    BY <1>3, <2>1
  <2>3. e[k] = 1 * At(f, k - 1) + (-a) * At(f, k)
    BY <2>1
  <2> DEFINE y == At(f, k)
             z == At(f, k - 1)
  <2>4. 1 * z + (-a) * y = z - a * y
    <3> HIDE DEF y, z
    <3>1. y \in Int /\ z \in Int
      BY <2>2 DEF y, z
    <3>2. (-a) * y = -(a * y) /\ a * y \in Int
      BY <3>1
    <3>3. QED
      BY <3>1, <3>2
  <2>5. QED
    BY <2>1, <2>2, <2>3, <2>4
<1>5. up \in Polys(m) /\ here \in Polys(m) /\ e \in Polys(m)
  <2>1. \A k \in Below(m) : e[k] \in Int
    <3> TAKE k \in Below(m)
    <3> DEFINE y == At(f, k)
               z == At(f, k - 1)
    <3>1. y \in Int /\ z \in Int
      BY <1>2, <1>3, BelowIs
    <3>2. e[k] = z - a * y
      BY <1>4
    <3> HIDE DEF y, z, e
    <3>3. QED
      BY <3>1, <3>2
  <2>2. QED
    BY <1>4, <2>1 DEF Polys
<1>6. g = [k \in Below(m) |-> e[k] % Prime]
  <2>1. g = [k \in Below(m) |-> (At(f, k - 1) - a * At(f, k)) % Prime]
    BY <1>2 DEF TimesRoot
  <2>2. \A k \in Below(m) : e[k] = At(f, k - 1) - a * At(f, k)
    BY <1>4
  <2> HIDE DEF e, g
  <2>3. QED
    BY <2>1, <2>2
<1>7. g \in [Below(m) -> Fp] /\ g \in Polys(m) /\ \A k \in Below(m) : Same(g[k], e[k])
  <2>1. \A k \in Below(m) : e[k] \in Int
    BY <1>5 DEF Polys
  <2> HIDE DEF e, g
  <2>2. \A k \in Below(m) : e[k] % Prime \in Fp /\ e[k] % Prime \in Int /\ Same(e[k] % Prime, e[k])
    BY <2>1, SameIs
  <2>3. QED
    BY <1>6, <2>2 DEF Polys
<1>8. g[n] = f[n - 1] % Prime
  <2>1. n \in Below(m) /\ n - 1 \in Below(n) /\ n \notin Below(n)
    BY DEF Below
  <2>2. At(f, n) = 0 /\ At(f, n - 1) = f[n - 1] /\ f[n - 1] \in Int
    BY <1>1, <2>1 DEF At
  <2>3. e[n] = f[n - 1]
    BY <1>4, <2>1, <2>2
  <2> HIDE DEF e, g
  <2>4. QED
    BY <1>6, <2>1, <2>3
<1>9. ASSUME NEW x \in Int
      PROVE  Same(ValueOf(g, x), (x - a) * ValueOf(f, x))
  <2> DEFINE v == ValueOf(f, x)
             u == ValueOf(up, x)
             w == ValueOf(here, x)
             p1 == Power(x, 1)
             p0 == Power(x, 0)
             one == 1
             zero == 0
             b == -a
  <2>0. one \in Nat /\ zero \in Nat /\ n + one <= m /\ n + zero <= m /\ b \in Int
    OBVIOUS
  <2>1. Same(ValueOf(g, x), ValueOf(e, x))
    <3> HIDE DEF g, e, m
    <3>1. QED
      BY <1>2, <1>5, <1>7, ValueSame
  <2>2. Same(u, Power(x, one) * v)
    <3>1. \A k \in Below(m) : up[k] = At(f, k - one)
      OBVIOUS
    <3> HIDE DEF one, up, m, u, v
    <3>2. QED
      BY <1>2, <1>5, <2>0, <3>1, ShiftValue DEF u, v
  <2>3. Same(w, Power(x, zero) * v)
    <3>1. \A k \in Below(m) : here[k] = At(f, k - zero)
      OBVIOUS
    <3> HIDE DEF zero, here, m, w, v
    <3>2. QED
      BY <1>2, <1>5, <2>0, <3>1, ShiftValue DEF w, v
  <2>4. ValueOf(e, x) = one * u + b * w
    <3>1. Combines(m, e, one, up, b, here)
      BY DEF Combines
    <3> HIDE DEF one, b, e, up, here, m
    <3>2. QED
      BY <1>2, <1>5, <2>0, <3>1, ValueAdds
  <2>5. v \in Int /\ u \in Int /\ w \in Int
    <3> HIDE DEF up, here, m
    <3>1. QED
      BY <1>2, <1>5, ValueInt
  <2>6. Same(u, x * v)
    <3>1. Power(x, one) = x % Prime
      BY PowerZeroOne
    <3> HIDE DEF u, v, one
    <3>2. Same((x % Prime) * v, x * v)
      BY <2>5, FieldSize, InnerRemainder DEF Same, Congruent
    <3>3. QED
      BY <2>2, <3>1, <3>2 DEF Same, Congruent
  <2>7. Same(w, v)
    <3>1. Power(x, zero) = 1
      BY PowerZeroOne
    <3> HIDE DEF w, v, zero
    <3>2. 1 * v = v
      BY <2>5
    <3>3. QED
      BY <2>3, <3>1, <3>2
  <2>8. ValueOf(e, x) = u - a * w /\ (x - a) * v = x * v - a * v
    <3> HIDE DEF u, w, v
    <3>1. one * u = u /\ b * w = -(a * w) /\ a * w \in Int
      BY <2>5
    <3> HIDE DEF one, b
    <3>2. u + (-(a * w)) = u - a * w
      BY <2>5, <3>1
    <3>3. (x - a) * v = x * v - a * v
      BY <2>5
    <3>4. QED
      BY <2>4, <3>1, <3>2, <3>3
  <2> HIDE DEF u, w, v, g, e
  <2>9. Same(a * w, a * v) /\ a * w \in Int /\ a * v \in Int /\ x * v \in Int
    <3>1. Same(a, a)
      BY DEF Same, Congruent
    <3>2. Same(a * w, a * v)
      BY <2>5, <2>7, <3>1, SameArithmetic
    <3>3. QED
      BY <2>5, <3>2
  <2>10. Same(u - a * w, x * v - a * v)
    <3> DEFINE y == a * w
               z == a * v
               t == x * v
    <3>1. y \in Int /\ z \in Int /\ t \in Int /\ Same(y, z) /\ Same(u, t)
      BY <2>6, <2>9
    <3> HIDE DEF y, z, t
    <3>2. Same(u - y, t - z)
      BY <2>5, <3>1, SameArithmetic
    <3>3. QED
      BY <3>2 DEF y, z, t
  <2>11. QED
    BY <2>1, <2>8, <2>10 DEF Same, Congruent, v
<1>10. QED
  BY <1>2, <1>7, <1>8, <1>9

(* The polynomial with given roots is monic and 0 at them, and nowhere     *)
(* else.                                                                   *)
LEMMA RootsIs ==
    ASSUME NEW n \in Nat, NEW s, DOMAIN s = 1 .. n, \A i \in 1 .. n : s[i] \in Int
    PROVE  /\ BuildFromRoots(s) \in [Below(n + 1) -> Fp]
           /\ BuildFromRoots(s)[n] = 1
           /\ \A x \in Int : Same(ValueOf(BuildFromRoots(s), x), 0)
                                <=> \E i \in 1 .. n : Same(x - s[i], 0)
<1>1. PICK P : /\ P[0] = [k \in {0} |-> 1] /\ BuildFromRoots(s) = P[n]
               /\ \A k \in 0 .. n - 1 : P[k + 1] = TimesRoot(P[k], s[k + 1])
  BY BuildIs
<1> DEFINE Good(k, x) == Same(ValueOf(P[k], x), 0) <=> \E i \in 1 .. k : Same(x - s[i], 0)
           A == {k \in 0 .. n : P[k] \in [Below(k + 1) -> Fp] /\ P[k][k] = 1
                                   /\ \A x \in Int : Good(k, x)}
<1>2. 0 \in A
  <2>1. P[0] \in [Below(0 + 1) -> Fp] /\ P[0][0] = 1 /\ P[0] \in Polys(1) /\ Below(1) = {0}
    <3>1. Below(0 + 1) = {0} /\ Below(1) = {0}
      BY DEF Below
    <3>2. QED
      BY <1>1, <3>1, FpInt DEF Polys
  <2>2. ASSUME NEW x \in Int PROVE Good(0, x)
    <3> DEFINE F == [k \in Below(1) |-> P[0][k] * Power(x, k)]
    <3>1. F[0] = 1 * 1 /\ \A k \in Below(1) : F[k] \in Int /\ k = 0
      BY <2>1, PowerZeroOne
    <3>2. ValueOf(P[0], x) = SumOn(Below(1), F)
      BY <2>1 DEF ValueOf, Polys
    <3>3. IsFiniteSet(Below(1)) /\ 0 \in Below(1)
      BY <2>1, BelowIs
    <3> HIDE DEF F
    <3>4. SumOn(Below(1), F) = F[0]
      <4> DEFINE zero == 0
      <4>1. zero \in Below(1) /\ \A k \in Below(1) : k # zero => F[k] = 0
        BY <3>1, <3>3
      <4> HIDE DEF zero
      <4>2. SumOn(Below(1), F) = F[zero]
        BY <3>1, <3>3, <4>1, SumOne
      <4>3. QED
        BY <4>2 DEF zero
    <3>5. ~ Same(1, 0)
      BY FpInt, SameIs DEF Same, Congruent
    <3>6. QED
      BY <3>1, <3>2, <3>4, <3>5
  <2>3. 0 \in 0 .. n
    OBVIOUS
  <2> HIDE DEF Good
  <2>4. QED
    BY <2>1, <2>2, <2>3
<1>3. \A k \in 0 .. n - 1 : k \in A => k + 1 \in A
  <2> SUFFICES ASSUME NEW k \in 0 .. n - 1, k \in A PROVE k + 1 \in A
    OBVIOUS
  <2> DEFINE m == k + 1
             f == P[k]
             a == s[k + 1]
  <2>1. m \in Nat \ {0} /\ m \in 0 .. n /\ k \in Nat /\ m - 1 = k /\ a \in Int /\ m \in 1 .. n
    OBVIOUS
  <2>2. f \in [Below(m) -> Fp] /\ f[k] = 1 /\ \A x \in Int : Good(k, x)
    OBVIOUS
  <2>3. f \in Polys(m)
    <3> HIDE DEF m, f
    <3>1. QED
      BY <2>2, FpInt DEF Polys
  <2>4. P[m] = TimesRoot(f, a)
    BY <1>1
  <2> HIDE DEF f, a, m
  <2>5. /\ P[m] \in [Below(m + 1) -> Fp] /\ P[m][m] = f[m - 1] % Prime
        /\ \A x \in Int : Same(ValueOf(P[m], x), (x - a) * ValueOf(f, x))
    <3>1. /\ TimesRoot(f, a) \in [Below(m + 1) -> Fp] /\ TimesRoot(f, a)[m] = f[m - 1] % Prime
          /\ \A x \in Int : Same(ValueOf(TimesRoot(f, a), x), (x - a) * ValueOf(f, x))
      <4>1. m \in Nat \ {0} /\ a \in Int
        BY <2>1
      <4>2. QED
        BY <2>3, <4>1, TimesRootIs
    <3>2. QED
      BY <2>4, <3>1
  <2>6. P[m][m] = 1
    BY <2>1, <2>2, <2>5, FpInt, SameIs
  <2>7. ASSUME NEW x \in Int PROVE Good(m, x)
    <3> DEFINE v == ValueOf(f, x)
               y == x - a
    <3>1. v \in Int /\ y \in Int
      BY <2>1, <2>3, ValueInt
    <3>2. Same(v, 0) <=> \E i \in 1 .. k : Same(x - s[i], 0)
      BY <2>2 DEF f
    <3>3. Same(ValueOf(P[m], x), y * v)
      BY <2>5
    <3>4. \A i : i \in 1 .. m <=> i \in 1 .. k \/ i = m
      BY <2>1
    <3>5. (\E i \in 1 .. m : Same(x - s[i], 0)) <=> Same(v, 0) \/ Same(y, 0)
      <4>1. x - s[m] = y
        BY DEF a, m
      <4> HIDE DEF v, y
      <4>2. QED
        BY <3>2, <3>4, <4>1
    <3> HIDE DEF v, y
    <3>6. Same(y * v, 0) <=> Same(v, 0) \/ Same(y, 0)
      <4>1. ASSUME Same(v, 0) PROVE Same(y * v, 0)
        <5>1. Same(y, y) /\ y * 0 = 0
          BY <3>1 DEF Same, Congruent
        <5> DEFINE zero == 0
        <5>2. Same(v, zero) /\ zero \in Int
          BY <4>1
        <5> HIDE DEF zero
        <5>3. Same(y * v, y * zero)
          BY <3>1, <5>1, <5>2, SameArithmetic
        <5>4. QED
          BY <5>1, <5>3 DEF zero
      <4>2. ASSUME Same(y, 0) PROVE Same(y * v, 0)
        <5>1. Same(v, v) /\ 0 * v = 0
          BY <3>1 DEF Same, Congruent
        <5> DEFINE zero == 0
        <5>2. Same(y, zero) /\ zero \in Int
          BY <4>2
        <5> HIDE DEF zero
        <5>3. Same(y * v, zero * v)
          BY <3>1, <5>1, <5>2, SameArithmetic
        <5>4. QED
          BY <5>1, <5>3 DEF zero
      <4>3. QED
        BY <3>1, <4>1, <4>2, NoZeroDivisors
    <3>7. QED
      BY <3>3, <3>5, <3>6 DEF Same, Congruent
  <2> HIDE DEF Good
  <2>8. m \in A
    BY <2>1, <2>5, <2>6, <2>7
  <2>9. QED
    BY <2>8 DEF m
<1>4. n \in A
  <2> HIDE DEF A
  <2>1. \A k \in 0 .. n : k \in A
    BY <1>2, <1>3, InductionUpTo
  <2>2. QED
    BY <2>1
<1>5. QED
  BY <1>1, <1>4

(* Zeros above the last coefficient do not change a value.                 *)
LEMMA ValuePadded ==
    ASSUME NEW n \in Nat, NEW m \in Nat, n <= m, NEW f \in Polys(n), NEW g \in Polys(m), NEW x \in Int,
           \A k \in Below(m) : g[k] = At(f, k)
    PROVE  Same(ValueOf(g, x), ValueOf(f, x))
<1> DEFINE zero == 0
           v == ValueOf(f, x)
<1>1. zero \in Nat /\ n + zero <= m /\ v \in Int
  BY ValueInt
<1>2. \A k \in Below(m) : g[k] = At(f, k - zero)
  <2> TAKE k \in Below(m)
  <2>1. k - zero = k
    BY BelowIs
  <2>2. QED
    BY <2>1
<1>3. Power(x, zero) = 1
  BY PowerZeroOne
<1> HIDE DEF zero
<1>4. Same(ValueOf(g, x), Power(x, zero) * ValueOf(f, x))
  BY <1>1, <1>2, ShiftValue
<1>5. 1 * v = v
  BY <1>1
<1>6. QED
  BY <1>3, <1>4, <1>5

(* A step of the remainder clears one coefficient and keeps the values at  *)
(* the roots of the divisor.                                               *)
LEMMA RemStepIs ==
    ASSUME NEW d \in Nat, NEW L \in Nat, NEW c \in Nat, d <= c, c < L,
           NEW g \in [Below(d + 1) -> Fp], g[d] = 1, NEW r \in Polys(L),
           \A j \in Below(L) : j > c => r[j] = 0
    PROVE  /\ RemStep(g, d, r, c) \in [Below(L) -> Fp]
           /\ \A j \in Below(L) : j >= c => RemStep(g, d, r, c)[j] = 0
           /\ \A x \in Int : Same(ValueOf(g, x), 0)
                  => Same(ValueOf(RemStep(g, d, r, c), x), ValueOf(r, x))
<1> DEFINE n == d + 1
           s == c - d
           a == r[c]
           sh == [j \in Below(L) |-> At(g, j - s)]
           e == [j \in Below(L) |-> r[j] - a * sh[j]]
           q == RemStep(g, d, r, c)
<1>1. n \in Nat /\ s \in Nat /\ n + s <= L /\ c \in Below(L) /\ DOMAIN r = Below(L)
  BY DEF Below, Polys
<1>2. \A j \in Below(L) : j \in Int /\ r[j] \in Int
  BY BelowIs DEF Polys
<1>3. a \in Int
  BY <1>1, <1>2
<1>4. g \in Polys(n) /\ DOMAIN g = Below(n) /\ d \in Below(n)
  <2>1. d \in Below(n)
    BY DEF Below
  <2>2. g \in [Below(n) -> Fp]
    OBVIOUS
  <2> HIDE DEF n
  <2>3. QED
    BY <2>1, <2>2, FpInt DEF Polys
<1>5. sh \in Polys(L)
  <2>1. \A j : At(g, j) \in Int
    BY <1>4 DEF At, Polys
  <2>2. QED
    BY <2>1 DEF Polys
<1>6. e \in Polys(L)
  <2>1. ASSUME NEW j \in Below(L) PROVE e[j] \in Int
    <3> DEFINE y == r[j]
               z == sh[j]
    <3>1. y \in Int /\ z \in Int /\ e[j] = y - a * z
      BY <1>2, <1>5 DEF Polys
    <3> HIDE DEF y, z, a, e
    <3>2. QED
      BY <1>3, <3>1
  <2> HIDE DEF e
  <2>2. DOMAIN e = Below(L) /\ e = [j \in Below(L) |-> e[j]]
    BY DEF e
  <2>3. QED
    BY <2>1, <2>2 DEF Polys
<1>7. q = [j \in Below(L) |-> e[j] % Prime]
  BY <1>1 DEF RemStep
<1>8. /\ q \in [Below(L) -> Fp] /\ q \in Polys(L)
      /\ \A j \in Below(L) : Same(q[j], e[j]) /\ (e[j] = 0 => q[j] = 0)
  <2>1. \A j \in Below(L) : e[j] \in Int
    BY <1>6 DEF Polys
  <2> HIDE DEF e, q
  <2>2. \A j \in Below(L) : e[j] % Prime \in Fp /\ e[j] % Prime \in Int /\ Same(e[j] % Prime, e[j])
    BY <2>1, SameIs
  <2>3. 0 % Prime = 0
    BY FpInt, SameIs
  <2>4. QED
    BY <1>7, <2>2, <2>3 DEF Polys
<1>9. ASSUME NEW j \in Below(L), j >= c PROVE q[j] = 0
  <2>1. CASE j = c
    <3>1. sh[c] = 1
      <4>1. c - s = d
        BY <1>2
      <4>2. QED
        BY <1>1, <1>4, <4>1 DEF At
    <3>2. e[c] = a - a * 1
      BY <1>1, <3>1
    <3> HIDE DEF e, a, q
    <3>3. e[c] = 0
      BY <1>3, <3>2
    <3>4. QED
      BY <1>8, <2>1, <3>3
  <2>2. CASE j > c
    <3>1. j - s \notin Below(n) /\ r[j] = 0
      BY <1>2, <2>2, BelowIs DEF Below
    <3>2. sh[j] = 0
      BY <1>4, <3>1 DEF At
    <3>3. e[j] = 0 - a * 0
      BY <3>1, <3>2
    <3> HIDE DEF e, a, q
    <3>4. e[j] = 0
      BY <1>3, <3>3
    <3>5. QED
      BY <1>8, <3>4
  <2>3. QED
    BY <1>2, <1>9, <2>1, <2>2
<1>10. ASSUME NEW x \in Int, Same(ValueOf(g, x), 0)
       PROVE  Same(ValueOf(q, x), ValueOf(r, x))
  <2> DEFINE u == ValueOf(r, x)
             w == ValueOf(sh, x)
             v == ValueOf(g, x)
             b == -a
             one == 1
             z == Power(x, s)
  <2>1. u \in Int /\ w \in Int /\ v \in Int /\ z \in Int
    <3>1. sh \in Polys(L) /\ g \in Polys(n)
      BY <1>4, <1>5
    <3> HIDE DEF sh, s, n
    <3>2. QED
      BY <1>1, <3>1, ValueInt, PowerIs
  <2>2. Same(w, z * v)
    <3>1. \A k \in Below(L) : sh[k] = At(g, k - s)
      OBVIOUS
    <3> HIDE DEF sh, s, n
    <3>2. QED
      BY <1>1, <1>4, <1>5, <3>1, ShiftValue
  <2>3. ValueOf(e, x) = one * u + b * w
    <3>1. Combines(L, e, one, r, b, sh)
      <4> SUFFICES ASSUME NEW k \in Below(L) PROVE e[k] = one * r[k] + b * sh[k]
        BY DEF Combines
      <4> DEFINE y == r[k]
                 t == sh[k]
      <4>1. y \in Int /\ t \in Int /\ e[k] = y - a * t
        BY <1>2, <1>5 DEF Polys
      <4> HIDE DEF y, t, e, a
      <4>2. one * y = y /\ b * t = -(a * t) /\ a * t \in Int
        BY <1>3, <4>1
      <4>3. QED
        BY <4>1, <4>2 DEF y, t
    <3>2. one \in Int /\ b \in Int
      BY <1>3
    <3> HIDE DEF one, b, e, sh
    <3>3. QED
      BY <1>5, <1>6, <3>1, <3>2, ValueAdds
  <2>4. Same(ValueOf(q, x), ValueOf(e, x))
    <3> HIDE DEF q, e
    <3>1. QED
      BY <1>6, <1>8, ValueSame
  <2> HIDE DEF u, w, v, z, a, q, e
  <2>5. Same(w, 0)
    <3> DEFINE zero == 0
    <3>1. Same(z, z) /\ Same(v, zero) /\ zero \in Int /\ z * zero = 0
      BY <1>10, <2>1 DEF Same, Congruent, v
    <3> HIDE DEF zero
    <3>2. Same(z * v, z * zero)
      BY <2>1, <3>1, SameArithmetic
    <3>3. QED
      BY <2>2, <3>1, <3>2 DEF Same, Congruent
  <2>6. Same(u - a * w, u)
    <3> DEFINE zero == 0
               y == a * w
    <3>1. Same(a, a) /\ Same(w, zero) /\ zero \in Int /\ Same(u, u) /\ y \in Int /\ u - zero = u /\ a * zero = zero
      BY <1>3, <2>1, <2>5 DEF Same, Congruent
    <3> HIDE DEF zero
    <3>2. Same(y, a * zero)
      BY <1>3, <2>1, <3>1, SameArithmetic
    <3> HIDE DEF y
    <3>3. Same(u - y, u - zero)
      BY <2>1, <3>1, <3>2, SameArithmetic
    <3>4. QED
      BY <3>1, <3>3 DEF y
  <2>7. one * u + b * w = u - a * w
    <3>1. one * u = u /\ b * w = -(a * w) /\ a * w \in Int
      BY <1>3, <2>1
    <3> HIDE DEF one, b
    <3>2. u + (-(a * w)) = u - a * w
      BY <2>1, <3>1
    <3>3. QED
      BY <3>1, <3>2
  <2>8. QED
    BY <2>3, <2>4, <2>6, <2>7 DEF Same, Congruent, u
<1>11. QED
  BY <1>8, <1>9, <1>10

(* poly_tool.h's remainder by a monic polynomial has the value of the      *)
(* dividend wherever the divisor is zero.                                  *)
LEMMA RemainderPoly ==
    ASSUME NEW d \in Nat, NEW L \in Nat, d < L,
           NEW g \in [Below(d + 1) -> Fp], g[d] = 1, NEW f \in Polys(L)
    PROVE  /\ Rem(f, g) \in [Below(d) -> Fp]
           /\ \A x \in Int : Same(ValueOf(g, x), 0) => Same(ValueOf(Rem(f, g), x), ValueOf(f, x))
<1> DEFINE n == L - d
           ks == [i \in 1 .. n |-> L - i]
           m == d + 1
<1>1. n \in Nat /\ n >= 1 /\ DOMAIN ks = 1 .. n /\ m \in Nat
  OBVIOUS
<1>2. Length(g) - 1 = d /\ Length(f) = L
  <2>1. DOMAIN g = Below(m) /\ DOMAIN f = Below(L)
    BY DEF Polys
  <2> HIDE DEF m
  <2>2. Length(g) = m /\ Length(f) = L
    BY <1>1, <2>1, PolyLength
  <2>3. QED
    BY <2>2 DEF m
<1>3. Rem(f, g) = [k \in Below(d) |-> At(RemFold(f, g, d, ks), k)]
  <2>1. Rem(f, g) = [k \in Below(Length(g) - 1) |->
                       At(RemFold(f, g, Length(g) - 1,
                                  [i \in 1 .. Length(f) - (Length(g) - 1) |-> Length(f) - i]), k)]
    BY DEF Rem, RemFold
  <2>2. QED
    BY <1>2, <2>1
<1> HIDE DEF ks
<1>4. PICK P : /\ P[0] = f /\ RemFold(f, g, d, ks) = P[n]
               /\ \A t \in 0 .. n - 1 : P[t + 1] = RemStep(g, d, P[t], ks[t + 1])
  <2> HIDE DEF n
  <2>1. QED
    BY <1>1, RemIs
<1> DEFINE Kept(t) == \A x \in Int : Same(ValueOf(g, x), 0) => Same(ValueOf(P[t], x), ValueOf(f, x))
           A == {t \in 0 .. n : /\ P[t] \in Polys(L)
                                /\ t > 0 => P[t] \in [Below(L) -> Fp]
                                /\ \A j \in Below(L) : j >= L - t => P[t][j] = 0
                                /\ Kept(t)}
<1>5. 0 \in A
  <2>1. \A j \in Below(L) : ~ (j >= L - 0)
    BY DEF Below
  <2>2. QED
    BY <1>1, <1>4, <2>1 DEF Same, Congruent
<1>6. \A t \in 0 .. n - 1 : t \in A => t + 1 \in A
  <2> SUFFICES ASSUME NEW t \in 0 .. n - 1, t \in A PROVE t + 1 \in A
    OBVIOUS
  <2> DEFINE c == L - (t + 1)
             r == P[t]
  <2>1. c \in Nat /\ d <= c /\ c < L /\ ks[t + 1] = c /\ t + 1 \in 0 .. n
    BY DEF ks
  <2>2. P[t + 1] = RemStep(g, d, r, c)
    BY <1>4, <2>1
  <2>3. r \in Polys(L) /\ \A j \in Below(L) : j > c => r[j] = 0
    <3>1. \A j \in Below(L) : j > c => j >= L - t
      BY DEF Below
    <3>2. QED
      BY <3>1
  <2>4. Kept(t)
    OBVIOUS
  <2> HIDE DEF A, r, c, Kept
  <2>5. /\ P[t + 1] \in [Below(L) -> Fp]
        /\ \A j \in Below(L) : j >= c => P[t + 1][j] = 0
        /\ \A x \in Int : Same(ValueOf(g, x), 0) => Same(ValueOf(P[t + 1], x), ValueOf(r, x))
    BY <2>1, <2>2, <2>3, RemStepIs
  <2>6. P[t + 1] \in Polys(L)
    BY <2>5, FpInt DEF Polys
  <2>7. Kept(t + 1)
    BY <2>4, <2>5 DEF Kept, Same, Congruent, r
  <2>8. QED
    BY <2>1, <2>5, <2>6, <2>7 DEF A, c
<1>7. n \in A
  <2> HIDE DEF A
  <2>1. \A t \in 0 .. n : t \in A
    BY <1>1, <1>5, <1>6, InductionUpTo
  <2>2. QED
    BY <1>1, <2>1
<1>8. P[n] \in [Below(L) -> Fp] /\ P[n] \in Polys(L) /\ Kept(n)
      /\ \A j \in Below(L) : j >= d => P[n][j] = 0
  BY <1>1, <1>7
<1> HIDE DEF A, n
<1>9. Rem(f, g) \in [Below(d) -> Fp] /\ \A k \in Below(d) : Rem(f, g)[k] = P[n][k]
  <2>1. \A k \in Below(d) : k \in Below(L)
    BY DEF Below
  <2>2. QED
    BY <1>3, <1>4, <1>8, <2>1 DEF At
<1>10. ASSUME NEW x \in Int
       PROVE  Same(ValueOf(P[n], x), ValueOf(Rem(f, g), x))
  <2> DEFINE R == Rem(f, g)
  <2>0. R \in [Below(d) -> Fp]
    BY <1>9
  <2> HIDE DEF R
  <2>4. R \in Polys(d) /\ d <= L
    BY <2>0, FpPoly
  <2>1. Rem(f, g) \in Polys(d) /\ d <= L
    BY <2>4 DEF R
  <2>2. \A k \in Below(L) : P[n][k] = At(Rem(f, g), k)
    <3>1. DOMAIN Rem(f, g) = Below(d)
      BY <1>9
    <3>2. \A k \in Below(L) : k \notin Below(d) => k >= d
      BY DEF Below
    <3>3. QED
      BY <1>8, <1>9, <3>1, <3>2 DEF At
  <2>3. QED
    BY <1>8, <2>1, <2>2, ValuePadded
<1>11. QED
  BY <1>8, <1>9, <1>10 DEF Same, Congruent

(* Multiplying both sides.                                                 *)
LEMMA SameScaled ==
    ASSUME NEW a \in Int, NEW b \in Int, NEW c \in Int, Same(b, c)
    PROVE  Same(a * b, a * c) /\ Same(b * a, c * a)
<1>1. Same(a, a)
  BY DEF Same, Congruent
<1>2. QED
  BY <1>1, SameArithmetic

(* A product of polynomials has the product of the values.                 *)
LEMMA Convolution ==
    ASSUME NEW n \in Nat, NEW l \in Nat, NEW m \in Nat, n + l <= m + 1,
           NEW a \in Polys(n), NEW b \in Polys(l), NEW c \in Polys(m), NEW x \in Int,
           \A q \in Below(m) : Same(c[q], SumOn(Below(n), [j \in Below(n) |-> a[j] * At(b, q - j)]))
    PROVE  Same(ValueOf(c, x), ValueOf(a, x) * ValueOf(b, x))
<1> DEFINE S == Below(m)
           T == Below(n)
           E == [q \in S |-> [j \in T |-> a[j] * At(b, q - j)]]
           F == [q \in S |-> [j \in T |-> Power(x, q) * E[q][j]]]
           C == [q \in S |-> c[q] * Power(x, q)]
           R == [q \in S |-> SumOn(T, F[q])]
           col == [j \in T |-> [q \in S |-> F[q][j]]]
           Q == [j \in T |-> SumOn(S, col[j])]
           sh == [j \in T |-> [q \in S |-> At(b, q - j)]]
           v == ValueOf(b, x)
           D == [j \in T |-> v * (a[j] * Power(x, j))]
           V == [j \in T |-> a[j] * Power(x, j)]
<1>1. IsFiniteSet(S) /\ IsFiniteSet(T)
  BY BelowIs
<1>2. /\ \A q \in S : q \in Nat /\ Power(x, q) \in Int /\ c[q] \in Int
      /\ \A j \in T : j \in Nat /\ Power(x, j) \in Int /\ a[j] \in Int
  <2>1. \A q \in S : q \in Nat /\ c[q] \in Int
    BY BelowIs DEF Polys
  <2>2. \A j \in T : j \in Nat /\ a[j] \in Int
    BY BelowIs DEF Polys
  <2>3. \A q \in Nat : Power(x, q) \in Int
    BY PowerIs
  <2>4. QED
    BY <2>1, <2>2, <2>3
<1>3. \A k : At(b, k) \in Int
  BY DEF At, Polys
<1>4. v \in Int
  BY ValueInt
<1>5. \A q \in S : \A j \in T : E[q][j] \in Int /\ F[q][j] \in Int /\ F[q][j] = Power(x, q) * E[q][j]
                                /\ E[q][j] = a[j] * At(b, q - j)
  <2> TAKE q \in S
  <2> TAKE j \in T
  <2> DEFINE y == At(b, q - j)
             z == a[j]
             p == Power(x, q)
  <2>1. y \in Int /\ z \in Int /\ p \in Int /\ E[q][j] = z * y /\ F[q][j] = p * E[q][j]
    BY <1>2, <1>3
  <2> HIDE DEF y, z, p, E, F
  <2>2. E[q][j] \in Int
    BY <2>1
  <2>3. p * E[q][j] \in Int
    BY <2>1, <2>2
  <2>4. QED
    BY <2>1, <2>2, <2>3 DEF y, z, p
<1>6. SumOn(S, R) = SumOn(T, Q)
  <2>1. \A q \in S : \A j \in T : F[q][j] \in Int
    BY <1>5
  <2>2. \A j \in T : col[j] = [q \in S |-> F[q][j]]
    OBVIOUS
  <2>3. Q = [j \in T |-> SumOn(S, [q \in S |-> F[q][j]])]
    <3> HIDE DEF S, T, F, col
    <3>1. QED
      BY <2>2
  <2>4. R = [q \in S |-> SumOn(T, F[q])]
    OBVIOUS
  <2> HIDE DEF S, T, F, col, Q, R
  <2>5. SumOn(S, [q \in S |-> SumOn(T, F[q])])
          = SumOn(T, [j \in T |-> SumOn(S, [q \in S |-> F[q][j]])])
    BY <1>1, <2>1, SumSwap
  <2>6. QED
    BY <2>3, <2>4, <2>5
<1>7. SumOn(S, C) % Prime = SumOn(S, R) % Prime
  <2>1. ASSUME NEW q \in S
        PROVE  C[q] \in Int /\ R[q] \in Int /\ C[q] % Prime = R[q] % Prime
    <3> DEFINE p == Power(x, q)
               y == c[q]
               z == SumOn(T, E[q])
    <3>1. \A j \in T : E[q][j] \in Int /\ F[q][j] = p * E[q][j]
      BY <1>5
    <3>2. p \in Int /\ y \in Int /\ C[q] = y * p /\ R[q] = SumOn(T, F[q])
      BY <1>2
    <3>3. Same(y, z)
      OBVIOUS
    <3> DEFINE Eq == E[q]
               Fq == F[q]
    <3>4. SumOn(T, Fq) = p * SumOn(T, Eq) /\ SumOn(T, Eq) \in Int
      <4>1. \A j \in T : Eq[j] \in Int /\ Fq[j] = p * Eq[j]
        BY <3>1
      <4>4. p \in Int
        BY <3>2
      <4> HIDE DEF Eq, Fq, T, p
      <4>2. SumOn(T, Eq) \in Int
        BY <1>1, <4>1, SumStep
      <4>3. QED
        BY <1>1, <4>1, <4>2, <4>4, SumScale
    <3>5. R[q] = p * z /\ z \in Int
      BY <3>2, <3>4
    <3> HIDE DEF C, R, p, y, z
    <3>9. y \in Int /\ p \in Int /\ z \in Int
      BY <3>2, <3>5
    <3>11. z * p = p * z
      BY <3>9
    <3>12. Same(y * p, z * p)
      BY <3>3, <3>9, SameScaled
    <3>6. Same(y * p, z * p) /\ z * p = p * z
      BY <3>11, <3>12
    <3>7. y * p \in Int /\ p * z \in Int
      BY <3>2, <3>5
    <3>10. QED
      BY <3>2, <3>5, <3>6, <3>7 DEF Same, Congruent
  <2> HIDE DEF S, C, R
  <2>2. QED
    BY <1>1, <2>1, FieldSize, SumMod
<1>8. SumOn(T, Q) % Prime = SumOn(T, D) % Prime
  <2>1. ASSUME NEW j \in T
        PROVE  Q[j] \in Int /\ D[j] \in Int /\ Q[j] % Prime = D[j] % Prime
    <3> DEFINE g == sh[j]
               z == a[j]
               p == Power(x, j)
               w == ValueOf(g, x)
               G == [q \in S |-> g[q] * Power(x, q)]
               cj == col[j]
    <3>1. g \in Polys(m) /\ j \in Nat /\ z \in Int /\ p \in Int /\ \A q \in S : g[q] = At(b, q - j)
      BY <1>2, <1>3 DEF Polys
    <3>2. w \in Int
      <4> HIDE DEF g
      <4>1. QED
        BY <3>1, ValueInt
    <3>3. Same(w, p * v)
      <4>1. l + j <= m
        BY <3>1, BelowIs
      <4> HIDE DEF g
      <4>2. QED
        BY <3>1, <4>1, ShiftValue
    <3>4. w = SumOn(S, G)
      BY DEF ValueOf
    <3>5. SumOn(S, cj) = z * SumOn(S, G)
      <4>1. ASSUME NEW q \in S PROVE G[q] \in Int /\ cj[q] = z * G[q]
        <5> DEFINE y == Power(x, q)
                   t == g[q]
        <5>1. y \in Int /\ t \in Int /\ G[q] = t * y
          BY <1>2, <1>3
        <5>2. cj[q] = y * (z * t)
          BY <1>5
        <5> HIDE DEF y, t, G, cj, z
        <5>3. y * (z * t) = z * (t * y) /\ t * y \in Int
          BY <3>1, <5>1
        <5>4. QED
          BY <5>1, <5>2, <5>3
      <4> HIDE DEF S, G, cj, z
      <4>2. QED
        BY <1>1, <3>1, <4>1, SumScale
    <3>6. Q[j] = z * w /\ D[j] = v * (z * p)
      BY <3>4, <3>5
    <3> HIDE DEF z, w, p, v, Q, D, g
    <3>7. Same(z * w, z * (p * v))
      <4> DEFINE y == p * v
      <4>1. y \in Int
        BY <1>4, <3>1
      <4> HIDE DEF y
      <4>2. Same(z * w, z * y)
        BY <3>1, <3>2, <3>3, <4>1, SameScaled DEF y
      <4>3. QED
        BY <4>2 DEF y
    <3>8. z * (p * v) = v * (z * p) /\ v * (z * p) \in Int /\ z * w \in Int
      BY <1>4, <3>1, <3>2
    <3>9. QED
      BY <3>6, <3>7, <3>8 DEF Same, Congruent
  <2> HIDE DEF T, Q, D
  <2>2. QED
    BY <1>1, <2>1, FieldSize, SumMod
<1>9. SumOn(T, D) = v * SumOn(T, V)
  <2>1. \A j \in T : V[j] \in Int /\ D[j] = v * V[j]
    <3> TAKE j \in T
    <3> DEFINE y == a[j]
               z == Power(x, j)
    <3>1. y \in Int /\ z \in Int /\ V[j] = y * z
      BY <1>2
    <3>2. D[j] = v * V[j]
      OBVIOUS
    <3> HIDE DEF y, z, V, D
    <3>3. QED
      BY <3>1, <3>2
  <2> HIDE DEF T, V, D, v
  <2>2. QED
    BY <1>1, <1>4, <2>1, SumScale
<1>10. ValueOf(c, x) = SumOn(S, C) /\ ValueOf(a, x) = SumOn(T, V)
  BY DEF ValueOf, Polys
<1>11. ValueOf(a, x) \in Int /\ v * ValueOf(a, x) = ValueOf(a, x) * v
  <2>1. ValueOf(a, x) \in Int
    BY ValueInt
  <2> HIDE DEF v
  <2>2. QED
    BY <1>4, <2>1
<1> HIDE DEF S, T, C, R, Q, D, V
<1>12. QED
  BY <1>6, <1>7, <1>8, <1>9, <1>10, <1>11 DEF Same, Congruent

-----------------------------------------------------------------------------
(* Lanes: the coefficients r, r + F, r + 2 F, ... of a polynomial.         *)

(* The remainder and the quotient of q * F + r.                            *)
LEMMA Strides ==
    ASSUME NEW F \in Nat \ {0}, NEW q \in Int, NEW r \in Below(F)
    PROVE  (q * F + r) % F = r /\ (q * F + r) \div F = q
<1> DEFINE x == q * F + r
<1>1. x \in Int /\ r \in 0 .. F - 1
  BY DEF Below
<1>2. x = F * q + r
  OBVIOUS
<1> HIDE DEF x
<1>3. x % F = r /\ x \div F = q
  BY <1>1, <1>2, ModUnique, DivUnique
<1>4. QED
  BY <1>3 DEF x

(* Multiples of F are in the order of their factors.                       *)
LEMMA StrideOrder ==
    ASSUME NEW F \in Nat \ {0}, NEW a \in Int, NEW b \in Int, a <= b
    PROVE  a * F <= b * F /\ (a < b => a * F + F <= b * F)
<1>1. PICK c \in Nat : b = a + c
  <2>1. b - a \in Nat /\ b = a + (b - a)
    OBVIOUS
  <2>2. QED
    BY <2>1
<1>2. b * F = a * F + c * F /\ c * F \in Nat
  BY <1>1
<1>3. c >= 1 => c * F >= F
  OBVIOUS
<1>4. QED
  BY <1>1, <1>2, <1>3

(* q * F + r is an index if q and r are.                                   *)
LEMMA StrideBelow ==
    ASSUME NEW F \in Nat \ {0}, NEW B \in Nat, NEW q \in Below(B), NEW r \in Below(F)
    PROVE  q * F + r \in Below(B * F) /\ q * F \in Nat
<1>1. q \in Int /\ B \in Int /\ q < B /\ r \in 0 .. F - 1 /\ q >= 0
  BY DEF Below
<1>2. q * F + F <= B * F
  BY <1>1, StrideOrder
<1>3. q * F \in Nat
  BY <1>1
<1>4. QED
  BY <1>1, <1>2, <1>3 DEF Below

(* Every index is of that form.                                            *)
LEMMA StrideIndex ==
    ASSUME NEW F \in Nat \ {0}, NEW B \in Nat, NEW i \in Below(B * F)
    PROVE  i \div F \in Below(B) /\ i % F \in Below(F) /\ i = (i \div F) * F + (i % F)
<1>1. i \in Nat /\ i < B * F
  BY DEF Below
<1>2. i = F * (i \div F) + (i % F) /\ i % F \in 0 .. F - 1 /\ i \div F \in Int
  BY <1>1, DivMod
<1>3. i \div F \in 0 .. i
  BY <1>1, QuotientBound
<1> DEFINE q == i \div F
<1> HIDE DEF q
<1>4. F * q = q * F
  BY <1>2 DEF q
<1>5. q < B
  <2> SUFFICES ASSUME B <= q PROVE FALSE
    BY <1>2 DEF q
  <2>1. B * F <= q * F
    BY <1>2, StrideOrder DEF q
  <2>2. q * F \in Int /\ B * F \in Int
    BY <1>2 DEF q
  <2>3. QED
    BY <1>1, <1>2, <1>4, <2>1, <2>2 DEF q
<1>6. QED
  BY <1>2, <1>3, <1>4, <1>5 DEF q, Below

(* A remainder modulo a multiple of F keeps the one modulo F.              *)
LEMMA InnerModulus ==
    ASSUME NEW F \in Nat \ {0}, NEW c \in Nat \ {0}, NEW x \in Int, NEW m, m = c * F
    PROVE  (x % m) % F = x % F /\ x % m \in Below(m)
<1>1. m \in Nat \ {0}
  OBVIOUS
<1> DEFINE q == x \div m
           y == x % m
           z == c * q
           t == F * z
<1>2. x = m * q + y /\ q \in Int /\ y \in 0 .. m - 1
  BY <1>1, DivMod
<1> HIDE DEF q, y
<1>3. m * q = t /\ z \in Int /\ t = F * z /\ t \in Int
  BY <1>2
<1> HIDE DEF z, t
<1>4. x = y + t /\ y \in Int
  BY <1>1, <1>2, <1>3
<1>5. x % F = y % F
  BY <1>3, <1>4, SameRemainder
<1>6. QED
  BY <1>2, <1>5 DEF y, Below

-----------------------------------------------------------------------------
(* Every F-th coefficient from the r-th on, m of them.                     *)
Lane(f, F, r, m) == [q \in Below(m) |-> f[q * F + r]]

(* In a product with a polynomial in x^F no two lanes meet, and where both *)
(* factors are short nothing wraps round x^N.                              *)
LEMMA StridedTerm ==
    ASSUME NEW B \in Nat \ {0}, NEW F \in Nat \ {0}, N = (2 * B) * F,
           NEW f \in Polys(B * F), NEW g \in [Ring -> Int],
           \A p \in Ring : g[p] # 0 => p % F = 0 /\ p \div F <= B,
           NEW r \in Below(F), NEW q \in Below(2 * B)
    PROVE  Same(RingMul(f, g)[q * F + r],
                SumOn(Below(B), [j \in Below(B) |-> Lane(f, F, r, B)[j] * At(Lane(g, F, 0, B + 1), q - j)]))
<1> DEFINE k == q * F + r
           H == B * F
           S == Below(H)
           T == Below(B)
           W == [i \in S |-> Signed(f[i] * At(g, (k - i) % N), i > k)]
           h == [j \in T |-> j * F + r]
           G == [j \in T |-> Lane(f, F, r, B)[j] * At(Lane(g, F, 0, B + 1), q - j)]
<1>1. H \in Nat /\ 2 * B \in Nat /\ N \in Nat \ {0} /\ 2 * B \in Nat \ {0} /\ N = 2 * H
  OBVIOUS
<1>2. k \in Ring /\ k \in Nat
  <2>1. k \in Below((2 * B) * F)
    BY <1>1, StrideBelow
  <2>2. QED
    BY <2>1, <1>1 DEF Ring, Below
<1>3. IsFiniteSet(S) /\ IsFiniteSet(T) /\ DOMAIN f = S /\ DOMAIN g = Ring
  <2> HIDE DEF H
  <2>1. QED
    BY <1>1, BelowIs DEF Polys
<1>4. \A i \in S : i \in Nat /\ (k - i) % N \in Ring /\ ((k - i) % N) % F = (k - i) % F /\ f[i] \in Int
  <2> TAKE i \in S
  <2>1. i \in Nat /\ f[i] \in Int
    BY DEF Below, Polys
  <2> DEFINE x == k - i
             c == 2 * B
  <2>2. x \in Int /\ c \in Nat \ {0} /\ N = c * F
    BY <1>2, <2>1
  <2> HIDE DEF x, c
  <2>3. (x % N) % F = x % F /\ x % N \in Below(N)
    BY <2>2, InnerModulus
  <2>4. QED
    BY <2>1, <2>3 DEF x, Ring
<1>5. \A i \in S : At(g, (k - i) % N) = g[(k - i) % N] /\ g[(k - i) % N] \in Int
  BY <1>3, <1>4 DEF At
<1>6. \A i \in S : W[i] \in Int /\ (W[i] # 0 => g[(k - i) % N] # 0)
  <2> TAKE i \in S
  <2> DEFINE y == g[(k - i) % N]
             z == f[i]
  <2>1. y \in Int /\ z \in Int /\ W[i] = Signed(z * y, i > k)
    BY <1>4, <1>5
  <2> HIDE DEF y, z, W
  <2>2. z * y \in Int /\ (y = 0 => z * y = 0)
    BY <2>1
  <2>3. W[i] \in Int /\ (y = 0 => W[i] = 0)
    BY <2>1, <2>2 DEF Signed
  <2>4. QED
    BY <2>3 DEF y
<1>7. \A i \in S : W[i] # 0 => \E j \in T : h[j] = i
  <2> SUFFICES ASSUME NEW i \in S, W[i] # 0 PROVE \E j \in T : h[j] = i
    OBVIOUS
  <2>1. ((k - i) % N) % F = 0
    BY <1>4, <1>6
  <2>2. (k - i) % F = 0 /\ i \in Int
    BY <1>4, <2>1
  <2>3. i % F = r
    <3> DEFINE x == k - i
    <3>1. x \in Int /\ x + i = k
      BY <1>2, <2>2
    <3> HIDE DEF x
    <3>2. ((x % F) + i) % F = (x + i) % F
      BY <2>2, <3>1, InnerRemainder
    <3>3. x % F = 0 /\ 0 + i = i
      BY <2>2 DEF x
    <3>4. q \in Int
      BY DEF Below
    <3>5. k % F = r
      BY <3>4, Strides
    <3>6. QED
      BY <3>1, <3>2, <3>3, <3>5
  <2>4. i \div F \in T /\ i = (i \div F) * F + r
    BY <2>3, StrideIndex
  <2>5. h[i \div F] = i
    BY <2>4
  <2>6. QED
    BY <2>4, <2>5
<1>8. ASSUME NEW j \in T
      PROVE  h[j] \in S /\ G[j] = W[h[j]]
  <2> DEFINE i == h[j]
             t == q - j
  <2>1. j \in Nat /\ j < B /\ q \in Nat /\ q < 2 * B /\ t \in Int /\ r \in Nat
    BY DEF Below
  <2>2. i \in S /\ i = j * F + r
    BY StrideBelow
  <2>3. k - i = t * F
    <3>1. k - i = q * F - j * F
      <4>1. q * F \in Int /\ j * F \in Int
        BY <2>1
      <4>2. QED
        BY <2>1, <2>2, <4>1
    <3>2. t * F = q * F - j * F
      BY <2>1
    <3>3. QED
      BY <3>1, <3>2
  <2> DEFINE gl == Lane(g, F, 0, B + 1)
             z == f[i]
             y == g[(k - i) % N]
  <2>4. Lane(f, F, r, B)[j] = z /\ DOMAIN gl = Below(B + 1) /\ \A e \in Below(B + 1) : gl[e] = g[e * F + 0]
    BY DEF Lane
  <2>5. W[i] = Signed(z * y, i > k) /\ z \in Int /\ y \in Int /\ G[j] = z * At(gl, t)
    BY <1>4, <1>5, <2>2, <2>4
  <2>6. CASE j <= q
    <3>1. t \in Below(2 * B) /\ t \in Nat
      BY <2>1, <2>6 DEF Below
    <3>2. t * F \in Ring /\ t * F \in Int
      <4>1. 0 \in Below(F)
        BY DEF Below
      <4> DEFINE zero == 0
                 c == 2 * B
      <4>2. zero \in Below(F) /\ c \in Nat
        BY <4>1
      <4> HIDE DEF zero, c
      <4>3. t * F + zero \in Below(c * F)
        BY <3>1, <4>2, StrideBelow DEF c
      <4>4. t * F \in Int
        BY <3>1
      <4>5. QED
        BY <4>3, <4>4 DEF zero, c, Ring
    <3>3. (k - i) % N = t * F
      <4> DEFINE u == t * F
      <4>1. u \in 0 .. N - 1
        BY <3>2 DEF Ring, Below
      <4> HIDE DEF u
      <4>2. u % N = u
        BY <1>1, <4>1, ModOfSmall
      <4>3. QED
        BY <2>3, <4>2 DEF u
    <3>4. ~ (i > k)
      <4>1. j * F <= q * F
        BY <2>1, <2>6, StrideOrder
      <4>2. j * F \in Int /\ q * F \in Int
        BY <2>1
      <4>3. QED
        BY <2>1, <2>2, <4>1, <4>2
    <3>5. W[i] = z * y
      BY <2>5, <3>4 DEF Signed
    <3>6. At(gl, t) = y
      <4>1. CASE t <= B
        <5>1. t \in Below(B + 1)
          BY <3>1, <4>1 DEF Below
        <5>2. gl[t] = g[t * F]
          BY <2>4, <3>2, <5>1
        <5>3. QED
          BY <2>4, <3>3, <5>1, <5>2 DEF At
      <4>2. CASE ~ (t <= B)
        <5>1. t \notin Below(B + 1)
          BY <3>1, <4>2 DEF Below
        <5>2. (t * F + 0) \div F = t
          <6>1. 0 \in Below(F)
            BY DEF Below
          <6> DEFINE zero == 0
          <6>2. zero \in Below(F)
            BY <6>1
          <6> HIDE DEF zero
          <6>3. (t * F + zero) \div F = t
            BY <2>1, <6>2, Strides
          <6>4. QED
            BY <6>3 DEF zero
        <5>3. t * F + 0 = t * F
          BY <3>2
        <5>4. g[t * F] = 0
          <6> DEFINE u == t * F
          <6>1. u \in Ring /\ u \div F = t
            BY <3>2, <5>2, <5>3
          <6> HIDE DEF u
          <6>2. g[u] = 0
            BY <4>2, <6>1
          <6>3. QED
            BY <6>2 DEF u
        <5>5. QED
          BY <2>4, <3>3, <5>1, <5>4 DEF At
      <4>3. QED
        BY <4>1, <4>2
    <3>7. QED
      BY <2>2, <2>5, <3>5, <3>6
  <2>7. CASE ~ (j <= q)
    <3> DEFINE e == 2 * B + t
               u == e * F
    <3>1. e \in Nat /\ e < 2 * B /\ e > B /\ e \in Int
      BY <2>1, <2>7
    <3>2. u = N + t * F /\ t * F \in Int
      BY <2>1
    <3>3. u \in Ring /\ u \div F = e
      <4>1. 0 \in Below(F) /\ e \in Below(2 * B)
        BY <3>1 DEF Below
      <4> DEFINE zero == 0
                 c == 2 * B
      <4>2. zero \in Below(F) /\ c \in Nat /\ e \in Below(c) /\ e \in Int
        BY <3>1, <4>1
      <4>5. u = e * F + 0
        BY <3>2
      <4> HIDE DEF zero, c, e
      <4>3. e * F + zero \in Below(c * F)
        BY <4>2, StrideBelow
      <4>4. (e * F + zero) \div F = e
        BY <4>2, Strides
      <4>6. u = e * F + zero /\ c * F = N
        BY <4>5 DEF zero, c
      <4>7. QED
        BY <4>3, <4>4, <4>6 DEF Ring
    <3>4. (k - i) % N = u
      <4> DEFINE w == t * F
                 m1 == -1
      <4>1. w = N * m1 + u /\ u \in 0 .. N - 1 /\ w \in Int /\ m1 \in Int
        BY <1>1, <3>2, <3>3 DEF Ring, Below
      <4> HIDE DEF w, u, m1
      <4>2. w % N = u
        BY <1>1, <4>1, ModUnique
      <4>3. QED
        BY <2>3, <4>2 DEF w
    <3>5. y = 0
      <4> HIDE DEF u, e
      <4>1. g[u] = 0
        BY <3>1, <3>3
      <4>2. QED
        BY <3>4, <4>1
    <3>6. At(gl, t) = 0
      <4>1. t \notin Below(B + 1)
        BY <2>1, <2>7 DEF Below
      <4>2. QED
        BY <2>4, <4>1 DEF At
    <3>7. W[i] = 0
      <4>1. z * y = 0
        BY <2>5, <3>5
      <4>2. QED
        BY <2>5, <4>1 DEF Signed
    <3>8. z * At(gl, t) = 0
      BY <2>5, <3>6
    <3>9. QED
      BY <2>2, <2>5, <3>7, <3>8
  <2>8. QED
    BY <2>6, <2>7
<1>9. \A j, e \in T : h[j] = h[e] => j = e
  <2> SUFFICES ASSUME NEW j \in T, NEW e \in T, j * F + r = e * F + r PROVE j = e
    OBVIOUS
  <2>1. j \in Int /\ e \in Int
    BY DEF Below
  <2>2. (j * F + r) \div F = j /\ (e * F + r) \div F = e
    BY <2>1, Strides
  <2>3. QED
    BY <2>2
<1>10. SumOn(T, G) = SumOn(S, W)
  <2>1. \A j \in T : h[j] \in S /\ G[j] = W[h[j]]
    BY <1>8
  <2>2. \A i \in S : W[i] \in Int
    BY <1>6
  <2> HIDE DEF S, T, h, W, G
  <2>3. QED
    BY <1>3, <1>7, <1>9, <2>1, <2>2, SumReindex
<1>11. RingMul(f, g)[k] = SumOn(S, W) % Prime
  BY <1>2, <1>3 DEF RingMul, SumOf, SumOn
<1>12. SumOn(S, W) \in Int
  <2>1. \A i \in S : W[i] \in Int
    BY <1>6
  <2> HIDE DEF S, W
  <2>2. QED
    BY <1>3, <2>1, SumStep
<1>13. Same(RingMul(f, g)[k], SumOn(S, W))
  <2> HIDE DEF S, W, k
  <2>1. QED
    BY <1>11, <1>12, SameIs
<1>14. QED
  BY <1>10, <1>13

(* A product in the ring is an element of the ring.                        *)
LEMMA RingMulType ==
    ASSUME NEW f, IsFiniteSet(DOMAIN f), \A i \in DOMAIN f : f[i] \in Int,
           NEW g, \A k \in DOMAIN g : g[k] \in Int
    PROVE  RingMul(f, g) \in [Ring -> Fp]
<1>1. ASSUME NEW k \in Ring
      PROVE  SumOf([i \in DOMAIN f |-> Signed(f[i] * At(g, (k - i) % N), i > k)]) \in Fp
  <2> DEFINE S == DOMAIN f
             W == [i \in S |-> Signed(f[i] * At(g, (k - i) % N), i > k)]
  <2>1. ASSUME NEW i \in S PROVE W[i] \in Int
    <3> DEFINE y == f[i]
               z == At(g, (k - i) % N)
    <3>1. y \in Int /\ z \in Int /\ W[i] = Signed(y * z, i > k)
      BY DEF At
    <3> HIDE DEF y, z, W
    <3>2. y * z \in Int
      BY <3>1
    <3>3. QED
      BY <3>1, <3>2 DEF Signed
  <2>2. SumOf(W) = SumOn(S, W) % Prime
    BY DEF SumOf, SumOn
  <2>3. SumOn(S, W) \in Int
    <3> HIDE DEF S, W
    <3>1. IsFiniteSet(S)
      BY DEF S
    <3>2. QED
      BY <2>1, <3>1, SumStep
  <2> HIDE DEF W, S
  <2>4. SumOf(W) \in Fp
    BY <2>2, <2>3, SameIs
  <2>5. QED
    BY <2>4 DEF W, S
<1>2. QED
  BY <1>1 DEF RingMul

(* Multiplying in the ring by a polynomial in x^F multiplies every lane by *)
(* it, as long as nothing wraps around x^N = -1.                           *)
LEMMA StridedProduct ==
    ASSUME NEW B \in Nat \ {0}, NEW F \in Nat \ {0}, N = (2 * B) * F,
           NEW f \in Polys(B * F), NEW g \in [Ring -> Int],
           \A p \in Ring : g[p] # 0 => p % F = 0 /\ p \div F <= B,
           NEW r \in Below(F), NEW x \in Int
    PROVE  Same(ValueOf(Lane(RingMul(f, g), F, r, 2 * B), x),
                ValueOf(Lane(f, F, r, B), x) * ValueOf(Lane(g, F, 0, B + 1), x))
<1> DEFINE a == Lane(f, F, r, B)
           b == Lane(g, F, 0, B + 1)
           c == Lane(RingMul(f, g), F, r, 2 * B)
           l == B + 1
           m == 2 * B
           H == B * F
<1>1. B \in Nat /\ l \in Nat /\ m \in Nat /\ B + l <= m + 1 /\ H \in Nat /\ 0 \in Below(F) /\ m * F = N /\ l <= m
  BY DEF Below
<1>2. RingMul(f, g) \in [Ring -> Fp]
  <2>1. IsFiniteSet(DOMAIN f) /\ \A i \in DOMAIN f : f[i] \in Int
    <3> HIDE DEF H
    <3>1. f \in Polys(H)
      BY DEF H
    <3>2. QED
      BY <1>1, <3>1, BelowIs DEF Polys
  <2>2. QED
    BY <2>1, RingMulType
<1>3. a \in Polys(B)
  <2>1. ASSUME NEW j \in Below(B) PROVE f[j * F + r] \in Int
    <3>1. j * F + r \in Below(H)
      BY <1>1, StrideBelow
    <3> HIDE DEF H
    <3>2. f \in Polys(H)
      BY DEF H
    <3>3. QED
      BY <3>1, <3>2 DEF Polys
  <2>2. QED
    BY <2>1 DEF Lane, Polys
<1>4. b \in Polys(l)
  <2>1. ASSUME NEW j \in Below(l) PROVE g[j * F + 0] \in Int
    <3> DEFINE zero == 0
    <3>1. zero \in Below(F) /\ j \in Below(m)
      BY <1>1 DEF Below
    <3> HIDE DEF zero, m
    <3>2. j * F + zero \in Below(m * F)
      BY <1>1, <3>1, StrideBelow
    <3>3. j * F + zero \in Ring
      BY <1>1, <3>2 DEF Ring
    <3>4. QED
      BY <3>3 DEF zero
  <2>2. QED
    BY <2>1 DEF Lane, Polys
<1>5. c \in Polys(m)
  <2>1. ASSUME NEW j \in Below(m) PROVE RingMul(f, g)[j * F + r] \in Int
    <3> HIDE DEF m
    <3>1. j * F + r \in Below(m * F)
      BY <1>1, StrideBelow
    <3>2. j * F + r \in Ring
      BY <1>1, <3>1 DEF Ring
    <3>3. RingMul(f, g)[j * F + r] \in Fp
      BY <1>2, <3>2
    <3>4. QED
      BY <3>3, FpInt
  <2>2. QED
    BY <2>1 DEF Lane, Polys
<1>6. \A q \in Below(m) : Same(c[q], SumOn(Below(B), [j \in Below(B) |-> a[j] * At(b, q - j)]))
  <2> TAKE q \in Below(m)
  <2>1. c[q] = RingMul(f, g)[q * F + r]
    BY DEF Lane
  <2>2. Same(RingMul(f, g)[q * F + r], SumOn(Below(B), [j \in Below(B) |-> a[j] * At(b, q - j)]))
    BY StridedTerm
  <2>3. QED
    BY <2>1, <2>2
<1> HIDE DEF a, b, c, l, m
<1>7. Same(ValueOf(c, x), ValueOf(a, x) * ValueOf(b, x))
  BY <1>1, <1>3, <1>4, <1>5, <1>6, Convolution
<1>8. QED
  BY <1>7 DEF a, b, c, l, m

-----------------------------------------------------------------------------
(* Powers of two and odd numbers.                                          *)

(* The powers as a table, which arithmetic does not look into.             *)
Two(k) == 2^k

(* The powers of two that are needed.                                      *)
LEMMA TwoIs ==
    /\ Two(0) = 1
    /\ \A k \in 0 .. 30 : Two(k) \in Nat \ {0}
    /\ \A k \in 0 .. 29 : Two(k + 1) = 2 * Two(k)
BY PowersDouble DEF Two

(* They are increasing.                                                    *)
LEMMA TwoRises ==
    ASSUME NEW i \in 0 .. 30, NEW j \in 0 .. 30, i < j
    PROVE  Two(i) < Two(j)
<1> DEFINE A == {k \in 0 .. 30 : k > i => Two(i) < Two(k)}
<1>1. 0 \in A
  OBVIOUS
<1>2. \A k \in 0 .. 30 - 1 : k \in A => k + 1 \in A
  <2> SUFFICES ASSUME NEW k \in 0 .. 29, k \in A PROVE k + 1 \in A
    OBVIOUS
  <2>1. Two(k + 1) = 2 * Two(k) /\ Two(k) \in Nat \ {0} /\ Two(i) \in Nat \ {0} /\ k + 1 \in 0 .. 30
    BY TwoIs
  <2> DEFINE y == Two(k)
             z == Two(i)
             w == Two(k + 1)
  <2>2. w = 2 * y /\ y \in Nat \ {0} /\ z \in Nat \ {0} /\ (k > i => z < y) /\ (k = i => z = y)
    BY <2>1
  <2> HIDE DEF y, z, w
  <2>3. k + 1 > i => z < w
    BY <2>2
  <2>4. QED
    BY <2>1, <2>3 DEF z, w
<1>3. j \in A
  <2> DEFINE m == 30
  <2>1. m \in Nat /\ \A k \in 0 .. m - 1 : k \in A => k + 1 \in A
    BY <1>2
  <2> HIDE DEF A
  <2>2. m = 30
    OBVIOUS
  <2> HIDE DEF m
  <2>3. \A k \in 0 .. m : k \in A
    BY <1>1, <2>1, InductionUpTo
  <2>4. QED
    BY <2>2, <2>3
<1>4. QED
  BY <1>3

(* Every integer is even or odd.                                           *)
LEMMA EvenOrOdd ==
    ASSUME NEW x \in Int
    PROVE  \E y \in Int : x = 2 * y \/ x = 2 * y + 1
<1>1. x = 2 * (x \div 2) + (x % 2) /\ x % 2 \in 0 .. 1 /\ x \div 2 \in Int
  OBVIOUS
<1>2. QED
  BY <1>1

(* A product of odd numbers is odd.                                        *)
LEMMA OddTimesOdd ==
    ASSUME NEW x \in Int, NEW y \in Int, NEW a \in Int, NEW b \in Int,
           x = 2 * a + 1, y = 2 * b + 1
    PROVE  \E c \in Int : x * y = 2 * c + 1
<1>1. x * y = (2 * a) * (2 * b) + 2 * a + 2 * b + 1
  OBVIOUS
<1>2. (2 * a) * (2 * b) = 2 * (a * (2 * b)) /\ a * (2 * b) \in Int
  OBVIOUS
<1> DEFINE z == a * (2 * b)
<1>3. x * y = 2 * (z + a + b) + 1 /\ z + a + b \in Int
  <2>1. z \in Int /\ x * y = 2 * z + 2 * a + 2 * b + 1
    BY <1>1, <1>2
  <2> HIDE DEF z
  <2>2. QED
    BY <2>1
<1> HIDE DEF z
<1>4. QED
  BY <1>3

(* The divisors of a power of two are powers of two.                       *)
LEMMA DivisorsOfPower ==
    ASSUME NEW m \in 0 .. 30, NEW d \in Nat, NEW b \in Nat, d * b = Two(m)
    PROVE  \E i \in 0 .. m : d = Two(i)
<1> DEFINE Div(k) == \A x, y \in Nat : x * y = Two(k) => \E i \in 0 .. k : x = Two(i)
           A == {k \in 0 .. m : Div(k)}
<1>1. 0 \in A
  <2>1. ASSUME NEW x \in Nat, NEW y \in Nat, x * y = 1 PROVE x = 1
    <3>1. x # 0 /\ y # 0
      BY <2>1
    <3>2. x >= 1 /\ y >= 1
      BY <3>1
    <3>3. x * y >= x * 1
      <4>1. y - 1 \in Nat /\ y = 1 + (y - 1)
        BY <3>2
      <4>2. x * y = x * 1 + x * (y - 1) /\ x * (y - 1) \in Nat
        BY <4>1
      <4>3. QED
        BY <4>2
    <3>4. QED
      BY <2>1, <3>2, <3>3
  <2>2. Two(0) = 1 /\ 0 \in 0 .. 0 /\ 0 \in 0 .. m
    BY TwoIs
  <2>3. Div(0)
    BY <2>1, <2>2
  <2>4. QED
    BY <2>2, <2>3
<1>2. \A k \in 0 .. m - 1 : k \in A => k + 1 \in A
  <2> SUFFICES ASSUME NEW k \in 0 .. m - 1, k \in A PROVE k + 1 \in A
    OBVIOUS
  <2>0. k \in 0 .. 29 /\ k \in 0 .. 30 /\ k + 1 \in 0 .. m
    OBVIOUS
  <2>1. k \in 0 .. 29 /\ k + 1 \in 0 .. m /\ Two(k + 1) = 2 * Two(k) /\ Two(k) \in Nat
    BY <2>0, TwoIs
  <2>2. Div(k)
    OBVIOUS
  <2>3. ASSUME NEW x \in Nat, NEW y \in Nat, x * y = Two(k + 1)
        PROVE  \E i \in 0 .. k + 1 : x = Two(i)
    <3> DEFINE t == Two(k)
    <3>1. x * y = 2 * t /\ t \in Nat
      BY <2>1, <2>3
    <3>2. CASE \E u \in Int : x = 2 * u
      <4>1. PICK u \in Int : x = 2 * u
        BY <3>2
      <4>2. u \in Nat /\ u * y = t
        <5>1. x * y = 2 * (u * y) /\ u * y \in Int
          BY <4>1
        <5> DEFINE z == u * y
        <5> HIDE DEF t
        <5>2. u \in Nat
          BY <4>1
        <5>3. 2 * z = 2 * t /\ z \in Int
          BY <3>1, <5>1
        <5> HIDE DEF z
        <5>4. z = t
          BY <3>1, <5>3
        <5>5. QED
          BY <5>2, <5>4 DEF z
      <4>3. PICK i \in 0 .. k : u = Two(i)
        BY <2>2, <4>2
      <4>6. i \in 0 .. 29 /\ i + 1 \in 0 .. k + 1
        BY <2>1
      <4>4. i + 1 \in 0 .. k + 1 /\ Two(i + 1) = 2 * Two(i)
        BY <4>6, TwoIs
      <4>5. QED
        BY <4>1, <4>3, <4>4
    <3>3. CASE \E v \in Int : y = 2 * v
      <4>1. PICK v \in Int : y = 2 * v
        BY <3>3
      <4>2. v \in Nat /\ x * v = t
        <5>1. x * y = 2 * (x * v) /\ x * v \in Int
          BY <4>1
        <5> DEFINE z == x * v
        <5> HIDE DEF t
        <5>2. v \in Nat
          BY <4>1
        <5>3. 2 * z = 2 * t /\ z \in Int
          BY <3>1, <5>1
        <5> HIDE DEF z
        <5>4. z = t
          BY <3>1, <5>3
        <5>5. QED
          BY <5>2, <5>4 DEF z
      <4>3. PICK i \in 0 .. k : x = Two(i)
        BY <2>2, <4>2
      <4>4. i \in 0 .. k + 1
        BY <2>1
      <4>5. QED
        BY <4>3, <4>4
    <3>4. CASE ~ (\E u \in Int : x = 2 * u) /\ ~ (\E v \in Int : y = 2 * v)
      <4>0. x \in Int /\ y \in Int
        OBVIOUS
      <4>5. (\E u \in Int : x = 2 * u \/ x = 2 * u + 1) /\ (\E u \in Int : y = 2 * u \/ y = 2 * u + 1)
        BY <4>0, EvenOrOdd
      <4>1. PICK a \in Int : x = 2 * a + 1
        BY <3>4, <4>5
      <4>2. PICK c \in Int : y = 2 * c + 1
        BY <3>4, <4>5
      <4>3. PICK z \in Int : x * y = 2 * z + 1
        <5>1. x \in Int /\ y \in Int
          OBVIOUS
        <5>2. QED
          BY <4>1, <4>2, <5>1, OddTimesOdd
      <4> HIDE DEF t
      <4>4. QED
        BY <3>1, <4>3
    <3>5. QED
      BY <3>2, <3>3, <3>4
  <2> HIDE DEF Div
  <2>4. Div(k + 1)
    BY <2>3 DEF Div
  <2>5. QED
    BY <2>1, <2>4
<1>3. m \in A
  <2> HIDE DEF A
  <2>0. m \in Nat
    OBVIOUS
  <2>1. \A k \in 0 .. m : k \in A
    BY <1>1, <1>2, <2>0, InductionUpTo
  <2>2. QED
    BY <2>1
<1>4. QED
  BY <1>3

(* An odd number has an inverse modulo a power of two.                     *)
LEMMA OddInverse ==
    ASSUME NEW m \in 0 .. 30, NEW e \in Int, NEW d \in Int, e = 2 * d + 1
    PROVE  \E y, q \in Int : e * y = 1 + Two(m) * q
<1> DEFINE A == {k \in 0 .. m : \E y, q \in Int : e * y = 1 + Two(k) * q}
<1>1. 0 \in A
  <2>1. Two(0) = 1 /\ 0 \in 0 .. m
    BY TwoIs
  <2>2. e * 1 = 1 + 1 * (2 * d) /\ 2 * d \in Int /\ 1 \in Int
    OBVIOUS
  <2>3. QED
    BY <2>1, <2>2
<1>2. \A k \in 0 .. m - 1 : k \in A => k + 1 \in A
  <2> SUFFICES ASSUME NEW k \in 0 .. m - 1, k \in A PROVE k + 1 \in A
    OBVIOUS
  <2> DEFINE t == Two(k)
  <2>1. k + 1 \in 0 .. m /\ Two(k + 1) = 2 * t /\ t \in Int
    <3>1. k \in 0 .. 29
      OBVIOUS
    <3>2. QED
      BY <3>1, TwoIs
  <2>2. PICK y, q \in Int : e * y = 1 + t * q
    OBVIOUS
  <2> HIDE DEF t
  <2>3. PICK p \in Int : q = 2 * p \/ q = 2 * p + 1
    BY EvenOrOdd
  <2>4. CASE q = 2 * p
    <3>1. t * q = (2 * t) * p
      BY <2>1, <2>4
    <3>2. e * y = 1 + Two(k + 1) * p
      BY <2>1, <2>2, <3>1
    <3>3. QED
      BY <2>1, <3>2
  <2>5. CASE q = 2 * p + 1
    <3> DEFINE z == y + t
               w == p + d + 1
    <3>1. e * z = e * y + e * t
      BY <2>1
    <3>2. t * q + e * t = t * (q + e)
      BY <2>1
    <3>3. q + e = 2 * w
      BY <2>5
    <3>4. t * (2 * w) = (2 * t) * w /\ w \in Int /\ z \in Int
      BY <2>1
    <3> HIDE DEF z, w
    <3>5. e * z = 1 + t * q + e * t /\ t * q \in Int /\ e * t \in Int
      BY <2>1, <2>2, <3>1
    <3>6. e * z = 1 + Two(k + 1) * w
      BY <2>1, <3>2, <3>3, <3>4, <3>5
    <3>7. QED
      BY <2>1, <3>4, <3>6
  <2>6. QED
    BY <2>3, <2>4, <2>5
<1>3. m \in A
  <2> HIDE DEF A
  <2>0. m \in Nat
    OBVIOUS
  <2>1. \A k \in 0 .. m : k \in A
    BY <1>1, <1>2, <2>0, InductionUpTo
  <2>2. QED
    BY <2>1
<1>4. QED
  BY <1>3

-----------------------------------------------------------------------------
(* fft_interpolate.                                                        *)

(* A power of xi with any exponent.                                        *)
Turn(e) == Power(Xi, e % Points)

(* A turn is a power of Xi, looked up in xi_powers.                        *)
LEMMA TurnIs ==
    ASSUME NEW a \in Int
    PROVE  /\ a % Points \in Below(Points) /\ a % Points \in Nat
           /\ Turn(a) = xi_powers[a % Points]
           /\ Turn(a) \in Fp /\ Turn(a) \in Int
           /\ a \in Nat => Turn(a) = Power(Xi, a)
<1>1. Points \in Nat \ {0} /\ Xi \in Int
  BY FieldSize, XiInt
<1>2. a % Points \in 0 .. Points - 1
  BY <1>1, DivMod
<1>3. a % Points \in Below(Points) /\ a % Points \in Nat
  BY <1>1, <1>2 DEF Below
<1>4. Turn(a) = xi_powers[a % Points]
  BY <1>3 DEF Turn, xi_powers
<1> DEFINE i == a % Points
<1>5. i \in Nat
  BY <1>3
<1> HIDE DEF i
<1>6. Power(Xi, i) \in Fp /\ Power(Xi, i) \in Int
  BY <1>1, <1>5, PowerIs
<1>7. a \in Nat => Turn(a) = Power(Xi, a)
  BY XiCycle DEF Turn
<1>8. QED
  BY <1>3, <1>4, <1>6, <1>7 DEF Turn, i

(* Turns depend on the exponent modulo Points only.                        *)
LEMMA TurnSame ==
    ASSUME NEW a \in Int, NEW b \in Int, Congruent(Points, a, b)
    PROVE  Turn(a) = Turn(b)
BY DEF Turn, Congruent

(* An exponent and its remainder.                                          *)
LEMMA PointsCongruent ==
    ASSUME NEW a \in Int
    PROVE  a % Points \in Int /\ Congruent(Points, a % Points, a) /\ Points \in Nat \ {0} /\ Congruent(Points, a, a)
<1>1. Points \in Nat \ {0}
  BY FieldSize
<1>2. a % Points \in Int /\ (a % Points) % Points = a % Points
  BY <1>1, RemainderOf
<1>3. QED
  BY <1>1, <1>2 DEF Congruent

(* The turn of a sum.                                                      *)
LEMMA TurnAdds ==
    ASSUME NEW a \in Int, NEW b \in Int
    PROVE  Turn(a + b) = (Turn(a) * Turn(b)) % Prime
<1> DEFINE i == a % Points
           j == b % Points
           s == i + j
           t == a + b
<1>1. i \in Nat /\ j \in Nat /\ i \in Int /\ j \in Int /\ t \in Int
  BY TurnIs
<1>2. Congruent(Points, i, a) /\ Congruent(Points, j, b) /\ Points \in Nat \ {0}
  BY PointsCongruent
<1> HIDE DEF i, j
<1>3. Congruent(Points, s, t)
  BY <1>1, <1>2, SameSums
<1>4. s \in Nat /\ s \in Int
  BY <1>1
<1> HIDE DEF s, t
<1>5. Turn(s) = Turn(t)
  BY <1>1, <1>3, <1>4, TurnSame
<1>6. Turn(s) = Power(Xi, s)
  BY <1>4, TurnIs
<1>7. Power(Xi, i + j) = (Power(Xi, i) * Power(Xi, j)) % Prime
  BY <1>1, XiInt, PowerSum
<1>8. QED
  BY <1>5, <1>6, <1>7 DEF s, t, i, j, Turn

(* The power of a turn.                                                    *)
LEMMA TurnPower ==
    ASSUME NEW a \in Int, NEW k \in Nat
    PROVE  Power(Turn(a), k) = Turn(a * k)
<1> DEFINE i == a % Points
           s == i * k
           t == a * k
<1>1. i \in Nat /\ i \in Int /\ t \in Int /\ k \in Int
  BY TurnIs
<1>2. Congruent(Points, i, a) /\ Congruent(Points, k, k) /\ Points \in Nat \ {0}
  BY <1>1, PointsCongruent
<1> HIDE DEF i
<1>3. Congruent(Points, s, t)
  BY <1>1, <1>2, SameSums
<1>4. s \in Nat /\ s \in Int
  BY <1>1
<1> HIDE DEF s, t
<1>5. Turn(s) = Turn(t)
  BY <1>1, <1>3, <1>4, TurnSame
<1>6. Turn(s) = Power(Xi, s)
  BY <1>4, TurnIs
<1>7. Power(Xi, i * k) = Power(Power(Xi, i), k)
  BY <1>1, XiInt, PowerProduct
<1>8. QED
  BY <1>5, <1>6, <1>7 DEF s, t, i, Turn

(* A geometric sum.                                                        *)
LEMMA Geometric ==
    ASSUME NEW y \in Int, NEW n \in Nat
    PROVE  Same((y - 1) * SumOn(Below(n), [i \in Nat |-> Power(y, i)]), Power(y, n) - 1)
<1> DEFINE F == [i \in Nat |-> Power(y, i)]
           G(k) == SumOn(Below(k), F)
           S == {k \in 0 .. n : Same((y - 1) * G(k), Power(y, k) - 1)}
           z == y - 1
<1>1. Power(y, 0) = 1 /\ (\A k \in Nat : Power(y, k + 1) = (Power(y, k) * y) % Prime)
        /\ (\A k \in Nat : Power(y, k) \in Int)
  BY PowerIs
<1>2. \A k \in Nat : F[k] = Power(y, k) /\ F[k] \in Int
  BY <1>1
<1> HIDE DEF F
<1>3. 0 \in S
  <2>1. Below(0) = {}
    BY DEF Below
  <2>2. SumOn({}, F) = 0
    <3>1. IsFiniteSet({}) /\ \A x \in {} : F[x] \in Int
      BY FS_EmptySet
    <3>2. QED
      BY <3>1, SumStep
  <2>3. z * 0 = 0 /\ Power(y, 0) - 1 = 0
    BY <1>1
  <2>4. z * G(0) = Power(y, 0) - 1
    BY <2>1, <2>2, <2>3
  <2>5. QED
    BY <2>4 DEF Same, Congruent
<1>4. ASSUME NEW k \in 0 .. n - 1, k \in S PROVE k + 1 \in S
  <2> DEFINE p == Power(y, k)
             g == G(k)
             w == Power(y, k + 1)
             a == z * g
             b == p - 1
             c == z * p
             d == p * y
             one == 1
  <2>1. k \in Nat /\ k + 1 \in 0 .. n
    OBVIOUS
  <2>2. p \in Int /\ w = d % Prime /\ p = F[k] /\ w \in Int
    BY <1>1, <1>2, <2>1
  <2>3. Below(k + 1) = Below(k) \cup {k} /\ k \notin Below(k) /\ Below(k) \subseteq Nat
    BY <2>1 DEF Below
  <2>4. IsFiniteSet(Below(k)) /\ \A x \in Below(k) : F[x] \in Int
    BY <1>2, <2>1, <2>3, BelowIs
  <2>5. G(k + 1) = F[k] + g
    BY <1>2, <2>1, <2>3, <2>4, SumAdds
  <2>6. g \in Int
    BY <2>4, SumStep
  <2>7. Same(a, b)
    BY <1>4
  <2> HIDE DEF g, p, w
  <2>8. a \in Int /\ b \in Int /\ c \in Int /\ z \in Int /\ d \in Int /\ c = d - p
    <3>1. (y - 1) * p = y * p - p /\ y * p = p * y
      BY <2>2
    <3>2. QED
      BY <2>2, <2>6, <3>1
  <2>9. z * (p + g) = a + c
    <3> HIDE DEF z
    <3>1. QED
      BY <2>2, <2>6, <2>8
  <2>10. Same(c, c) /\ Same(one, one)
    BY DEF Same, Congruent
  <2>11. b + c = d - one
    BY <2>2, <2>8
  <2> HIDE DEF a, b, c, d, one, z
  <2>12. Same(a + c, b + c)
    BY <2>7, <2>8, <2>10, SameArithmetic
  <2>13. Same(w, d)
    BY <2>2, <2>8, SameIs
  <2>14. Same(w - one, d - one)
    <3>1. one \in Int
      BY DEF one
    <3>2. QED
      BY <2>2, <2>8, <2>10, <2>13, <3>1, SameArithmetic
  <2>15. Same(z * (p + g), w - one)
    BY <2>9, <2>11, <2>12, <2>14 DEF Same, Congruent
  <2>16. Same(z * G(k + 1), Power(y, k + 1) - 1)
    BY <2>2, <2>5, <2>15 DEF w, p, g, one
  <2>17. QED
    BY <2>1, <2>16 DEF z
<1>5. n \in S
  <2> HIDE DEF S
  <2>1. \A k \in 0 .. n - 1 : k \in S => k + 1 \in S
    BY <1>4
  <2>2. \A k \in 0 .. n : k \in S
    BY <1>3, <2>1, InductionUpTo
  <2>3. n \in 0 .. n
    OBVIOUS
  <2>4. QED
    BY <2>2, <2>3
<1>6. QED
  BY <1>5 DEF F

(* The powers of xi are orthogonal.                                        *)
LEMMA Orthogonal ==
    ASSUME NEW e \in Int
    PROVE  /\ Congruent(Points, e, 0) =>
                SumOn(Below(Points), [i \in Below(Points) |-> Turn(e * i)]) = Points
           /\ ~ Congruent(Points, e, 0) =>
                Same(SumOn(Below(Points), [i \in Below(Points) |-> Turn(e * i)]), 0)
<1> DEFINE B == Below(Points)
           F == [i \in B |-> Turn(e * i)]
           G == [i \in Nat |-> Power(Turn(e), i)]
           y == Turn(e)
           n == Points
<1>1. n \in Nat \ {0} /\ n \in Nat /\ IsFiniteSet(B) /\ Cardinality(B) = n /\ B \subseteq Nat
  BY FieldSize, BelowIs
<1>2. \A i \in B : F[i] = G[i]
  BY <1>1, TurnPower
<1>3. SumOn(B, F) = SumOn(B, G)
  <2> HIDE DEF F, G, B
  <2>1. QED
    BY <1>2, SumEqual
<1>4. y \in Int /\ y \in Fp
  BY TurnIs
<1>5. \A i \in Nat : G[i] \in Int
  BY <1>4, PowerIs
<1>6. SumOn(B, G) \in Int
  <2>1. \A x \in B : G[x] \in Int
    BY <1>1, <1>5
  <2> HIDE DEF B, G
  <2>2. QED
    BY <1>1, <2>1, SumStep
<1>7. ASSUME Congruent(Points, e, 0) PROVE SumOn(B, F) = Points
  <2>1. Turn(e) = Turn(0) /\ Turn(0) = Power(Xi, 0)
    BY <1>7, TurnSame, TurnIs
  <2>2. y = 1
    BY <2>1, XiInt, PowerIs
  <2>3. \A i \in B : G[i] = 1
    BY <1>1, <2>2, PowerOfOne
  <2> DEFINE S == {k \in 0 .. n : SumOn(Below(k), G) = k}
  <2> HIDE DEF G
  <2>4. 0 \in S
    <3>1. Below(0) = {}
      BY DEF Below
    <3>2. SumOn({}, G) = 0
      <4>1. IsFiniteSet({}) /\ \A x \in {} : G[x] \in Int
        BY FS_EmptySet
      <4>2. QED
        BY <4>1, SumStep
    <3>3. QED
      BY <1>1, <3>1, <3>2
  <2>5. ASSUME NEW k \in 0 .. n - 1, k \in S PROVE k + 1 \in S
    <3>1. k \in Nat /\ k + 1 \in 0 .. n /\ k \in B
      BY <1>1 DEF Below
    <3>2. Below(k + 1) = Below(k) \cup {k} /\ k \notin Below(k)
      BY <3>1 DEF Below
    <3>3. IsFiniteSet(Below(k)) /\ \A x \in Below(k) : G[x] \in Int
      BY <1>5, <3>1, BelowIs
    <3>4. G[k] = 1 /\ G[k] \in Int
      BY <2>3, <3>1
    <3>5. SumOn(Below(k) \cup {k}, G) = G[k] + SumOn(Below(k), G)
      BY <3>1, <3>2, <3>3, <3>4, SumAdds
    <3>6. SumOn(Below(k), G) = k
      BY <2>5
    <3>7. SumOn(Below(k + 1), G) = 1 + k
      BY <3>2, <3>4, <3>5, <3>6
    <3>8. 1 + k = k + 1
      BY <3>1
    <3>9. QED
      BY <3>1, <3>7, <3>8
  <2>6. n \in S
    <3> HIDE DEF S, n
    <3>1. \A k \in 0 .. n - 1 : k \in S => k + 1 \in S
      BY <2>5
    <3>2. \A k \in 0 .. n : k \in S
      BY <1>1, <2>4, <3>1, InductionUpTo
    <3>3. n \in 0 .. n
      BY <1>1
    <3>4. QED
      BY <3>2, <3>3
  <2>7. SumOn(B, G) = n
    BY <2>6
  <2>8. QED
    BY <1>3, <2>7
<1>8. ASSUME ~ Congruent(Points, e, 0) PROVE Same(SumOn(B, F), 0)
  <2> DEFINE d == e % Points
             z == y - 1
             g == SumOn(B, G)
             zero == 0
  <2>1. d \in B /\ d # 0
    <3>1. 0 % Points = 0
      <4>1. 0 \in 0 .. Points - 1 /\ Points \in Nat \ {0}
        BY <1>1
      <4>2. QED
        BY <4>1, ModOfSmall
    <3>2. d \in B
      BY TurnIs
    <3>3. QED
      BY <1>8, <3>1, <3>2 DEF Congruent
  <2>2. ~ Same(z, 0)
    <3>1. 0 \in B /\ 0 < d
      BY <1>1, <2>1 DEF Below
    <3> HIDE DEF d, B
    <3>2. ~ Same(Power(Xi, d) - Power(Xi, 0), 0)
      BY <2>1, <3>1, XiDistinct DEF B
    <3>3. Power(Xi, 0) = 1
      BY XiInt, PowerIs
    <3>4. QED
      BY <3>2, <3>3 DEF d, Turn
  <2>3. Same(z * SumOn(Below(n), G), Power(y, n) - 1)
    <3> HIDE DEF n, y
    <3>1. Same((y - 1) * SumOn(Below(n), [i \in Nat |-> Power(y, i)]), Power(y, n) - 1)
      BY <1>1, <1>4, Geometric
    <3>2. QED
      BY <3>1 DEF y
  <2>4. Power(y, n) = 1
    <3> DEFINE en == e * n
    <3>1. Power(y, n) = Turn(en)
      BY <1>1, TurnPower
    <3>2. en \in Int /\ en = n * e /\ n * e = 0 + n * e
      BY <1>1
    <3>3. en % n = 0 % n
      <4> HIDE DEF en, n
      <4> DEFINE x == n * e
                 zo == 0
      <4>1. zo \in Int /\ en = zo + x /\ x = n * e
        BY <1>1, <3>2
      <4>4. en \in Int
        BY <3>2
      <4>5. n \in Nat \ {0}
        BY <1>1
      <4> HIDE DEF x, zo
      <4>2. en % n = zo % n
        BY <4>1, <4>4, <4>5, SameRemainder
      <4>3. QED
        BY <4>2 DEF zo
    <3>4. Turn(en) = Turn(0)
      BY <3>3 DEF Turn
    <3>5. Turn(0) = Power(Xi, 0) /\ Power(Xi, 0) = 1
      BY XiInt, TurnIs, PowerIs
    <3>6. QED
      BY <3>1, <3>4, <3>5
  <2>5. Same(z * g, zero)
    BY <2>3, <2>4
  <2>6. z \in Int /\ g \in Int
    BY <1>4, <1>6
  <2> HIDE DEF z, g
  <2>7. Same(g, 0)
    BY <2>2, <2>5, <2>6, NoZeroDivisors DEF zero
  <2>8. QED
    BY <1>3, <2>7 DEF g
<1>9. QED
  BY <1>7, <1>8

(* A term of the transform times the power it is evaluated at.             *)
LEMMA TurnsCancel ==
    ASSUME NEW i \in Nat, NEW j \in Nat, NEW t \in Nat
    PROVE  Same(Turn(-(i * j)) * Turn(t * i), Turn((t - j) * i))
<1> DEFINE a == -(i * j)
           b == t * i
           z == Turn(a) * Turn(b)
<1>1. a \in Int /\ b \in Int /\ a + b = (t - j) * i
  <2>1. (t - j) * i = t * i - j * i /\ j * i = i * j
    OBVIOUS
  <2>2. i * j \in Int /\ t * i \in Int
    OBVIOUS
  <2>3. QED
    BY <2>1, <2>2
<1> HIDE DEF a, b
<1>2. Turn(a + b) = z % Prime
  BY <1>1, TurnAdds
<1>3. z \in Int
  <2>1. Turn(a) \in Int /\ Turn(b) \in Int
    BY <1>1, TurnIs
  <2>2. QED
    BY <2>1
<1> HIDE DEF z
<1>4. Same(z % Prime, z)
  BY <1>3, SameIs
<1>5. Same(z, z % Prime)
  BY <1>4 DEF Same, Congruent
<1>6. QED
  BY <1>1, <1>2, <1>5 DEF z, a, b

(* fft_interpolate (poly_tool.h): the polynomial of a column has, at the  *)
(* power of Xi that stands for a row, the value in that row.              *)
THEOREM FftIs ==
    ASSUME NEW col \in [Below(Points) -> Fp], NEW t \in Below(Points)
    PROVE  /\ fft_interpolate(col) \in [Below(Points) -> Fp]
           /\ Same(ValueOf(fft_interpolate(col), Power(Xi, t)), col[t])
<1> DEFINE B == Below(Points)
           n == Points
           c == Inv(Points % Prime)
           f == fft_interpolate(col)
           A == [i \in B |-> [j \in B |-> col[j] * Turn(-(i * j))]]
           s == [i \in B |-> SumOn(B, A[i])]
           M == [i \in B |-> [j \in B |-> col[j] * Turn((t - j) * i)]]
           O == [j \in B |-> SumOn(B, [i \in B |-> Turn((t - j) * i)])]
<1>1. n \in Nat \ {0} /\ n \in Int /\ n < Prime
  BY FieldSize
<1>2. IsFiniteSet(B) /\ B \subseteq Nat /\ \A k : k \in B <=> k \in Nat /\ k < Points
  BY <1>1, BelowIs
<1>3. \A j \in B : col[j] \in Int /\ col[j] \in Fp
  BY FpInt
<1>4. \A e \in Int : Turn(e) \in Int
  BY TurnIs
<1>5. c \in Int /\ Same(n * c, 1)
  <2> DEFINE x == n % Prime
             zero == 0
             one == 1
  <2>1. x = n /\ n \in Fp
    <3>1. n \in 0 .. Prime - 1
      BY <1>1, FieldSize
    <3>2. QED
      BY <3>1, FieldSize, ModOfSmall DEF Fp, Below
  <2>2. ~ Same(n, 0)
    <3>1. n % Prime = n /\ 0 % Prime = 0
      BY <1>1, <2>1, FpInt, SameIs
    <3>2. QED
      BY <1>1, <3>1 DEF Same, Congruent
  <2> HIDE DEF n
  <2>3. Inv(n) \in Int /\ Same(n * Inv(n), 1)
    BY <1>1, <2>2, InverseIs
  <2>4. c = Inv(n)
    BY <2>1 DEF n
  <2>5. QED
    BY <2>3, <2>4
<1>6. \A i \in B : SumOf([j \in B |-> col[j] * xi_powers[(-(i * j)) % Points]]) = s[i] % Prime
  <2> TAKE i \in B
  <2>1. \A j \in B : xi_powers[(-(i * j)) % Points] = Turn(-(i * j))
    <3> TAKE j \in B
    <3>1. i \in Nat /\ j \in Nat
      BY <1>2
    <3>2. -(i * j) \in Int
      BY <3>1
    <3>3. QED
      BY <3>2, TurnIs
  <2>2. [j \in B |-> col[j] * xi_powers[(-(i * j)) % Points]] = [j \in B |-> A[i][j]]
    BY <2>1
  <2>3. SumOf([j \in B |-> A[i][j]]) = SumOn(B, A[i]) % Prime
    BY DEF SumOf, SumOn
  <2>4. QED
    BY <2>2, <2>3
<1>7. f = [i \in B |-> (c * (s[i] % Prime)) % Prime]
  BY <1>6 DEF fft_interpolate
<1>8. \A i \in B : \A j \in B : A[i][j] \in Int /\ M[i][j] \in Int /\ Turn((t - j) * i) \in Int
                                  /\ (t - j) * i \in Int /\ -(i * j) \in Int
  <2> TAKE i \in B
  <2> TAKE j \in B
  <2>1. i \in Int /\ j \in Int /\ t \in Int
    BY <1>2
  <2>2. -(i * j) \in Int /\ (t - j) * i \in Int
    BY <2>1
  <2>3. Turn(-(i * j)) \in Int /\ Turn((t - j) * i) \in Int
    BY <1>4, <2>2
  <2>4. col[j] * Turn(-(i * j)) \in Int /\ col[j] * Turn((t - j) * i) \in Int
    BY <1>3, <2>3
  <2>5. QED
    BY <2>2, <2>3, <2>4
<1>9. \A i \in B : s[i] \in Int
  <2> TAKE i \in B
  <2>1. \A j \in B : A[i][j] \in Int
    BY <1>8
  <2> HIDE DEF A, B
  <2>2. SumOn(B, A[i]) \in Int
    BY <1>2, <2>1, SumStep
  <2>3. QED
    BY <2>2
<1> HIDE DEF f, A
<1>10. \A i \in B : f[i] \in Fp /\ f[i] \in Int /\ Same(f[i], c * s[i])
  <2> TAKE i \in B
  <2> DEFINE a == s[i]
             b == a % Prime
             e == c * b
  <2>1. a \in Int
    BY <1>9
  <2> HIDE DEF a, c
  <2>2. b \in Int /\ Same(b, a)
    BY <2>1, SameIs
  <2> HIDE DEF b
  <2>7. c \in Int
    BY <1>5
  <2>8. e \in Int
    BY <2>2, <2>7
  <2>9. Same(c * b, c * a)
    BY <2>1, <2>2, <2>7, SameScaled
  <2>3. e \in Int /\ Same(e, c * a)
    BY <2>8, <2>9
  <2> HIDE DEF e
  <2>4. e % Prime \in Fp /\ e % Prime \in Int /\ Same(e % Prime, e)
    BY <2>3, SameIs
  <2>5. f[i] = e % Prime
    BY <1>7 DEF e, b, a, c
  <2>6. QED
    BY <2>3, <2>4, <2>5 DEF Same, Congruent, a
<1>11. f \in [B -> Fp]
  BY <1>7, <1>10
<1> DEFINE y == Power(Xi, t)
           V == [i \in B |-> f[i] * Power(y, i)]
           U == [i \in B |-> c * SumOn(B, M[i])]
<1>12. y = Turn(t) /\ y \in Int /\ t \in Int /\ t \in Nat
  <2>1. t \in Int /\ t \in Nat
    BY <1>2
  <2>2. QED
    BY <2>1, TurnIs
<1>13. \A i \in B : Power(y, i) = Turn(t * i) /\ Power(y, i) \in Int
  BY <1>2, <1>4, <1>12, TurnPower, PowerIs
<1>14. ASSUME NEW i \in B PROVE V[i] \in Int /\ U[i] \in Int /\ SumOn(B, M[i]) \in Int /\ Same(V[i], U[i])
  <2> DEFINE p == Turn(t * i)
             sm == SumOn(B, M[i])
             P == [j \in B |-> p * A[i][j]]
             sp == SumOn(B, P)
             si == s[i]
             Ai == A[i]
             Mi == M[i]
  <2>1. p = Power(y, i) /\ p \in Int /\ i \in Nat
    BY <1>2, <1>13
  <2>2. \A j \in B : Ai[j] \in Int /\ Mi[j] \in Int
    BY <1>8
  <2>3. si = SumOn(B, Ai) /\ si \in Int
    BY <1>9
  <2>4. \A j \in B : Same(P[j], Mi[j]) /\ P[j] \in Int
    <3> TAKE j \in B
    <3> DEFINE u == Turn(-(i * j))
               v == Turn((t - j) * i)
               cj == col[j]
               w == u * p
    <3>1. u \in Int /\ v \in Int /\ cj \in Int
      BY <1>3, <1>4, <1>8
    <3>2. Same(w, v)
      BY <1>2, <1>12, TurnsCancel
    <3>3. Ai[j] = cj * u /\ Mi[j] = cj * v /\ P[j] = p * Ai[j]
      BY DEF A
    <3> HIDE DEF u, v, cj, p, P, Ai, Mi
    <3>4. w \in Int /\ p * (cj * u) = cj * w /\ p * (cj * u) \in Int
      BY <2>1, <3>1
    <3> HIDE DEF w
    <3>5. Same(cj * w, cj * v)
      BY <3>1, <3>2, <3>4, SameScaled
    <3>6. P[j] = cj * w /\ P[j] \in Int
      BY <3>3, <3>4
    <3>7. QED
      BY <3>3, <3>5, <3>6
  <2>5. \A j \in B : P[j] = p * Ai[j]
    OBVIOUS
  <2> HIDE DEF P, Ai, Mi, p, B, s
  <2>6. sp = p * SumOn(B, Ai)
    BY <1>2, <2>1, <2>2, <2>5, SumScale
  <2>7. sp % Prime = SumOn(B, Mi) % Prime
    <3>1. \A j \in B : P[j] \in Int /\ Mi[j] \in Int /\ P[j] % Prime = Mi[j] % Prime
      BY <2>2, <2>4 DEF Same, Congruent
    <3>2. QED
      BY <1>2, <3>1, FieldSize, SumMod
  <2>8. sp \in Int /\ SumOn(B, Mi) \in Int
    <3>1. \A j \in B : P[j] \in Int
      BY <2>4
    <3>2. \A j \in B : Mi[j] \in Int
      BY <2>2
    <3>3. sp \in Int
      BY <1>2, <3>1, SumStep
    <3>4. SumOn(B, Mi) \in Int
      BY <1>2, <3>2, SumStep
    <3>5. QED
      BY <3>3, <3>4
  <2> DEFINE sM == SumOn(B, Mi)
             fi == f[i]
             ci == c * si
  <2>9. Same(sp, sM)
    BY <2>7 DEF Same, Congruent
  <2>10. fi \in Int /\ Same(fi, ci)
    BY <1>10
  <2>11. V[i] = fi * p /\ U[i] = c * sM
    BY <2>1 DEF Mi
  <2> HIDE DEF fi, si, sp, sM, c
  <2>12. ci \in Int /\ ci * p = c * sp
    <3>1. ci * p = c * (p * si)
      BY <1>5, <2>1, <2>3
    <3>2. QED
      BY <1>5, <2>3, <2>6, <3>1 DEF si, sp
  <2> HIDE DEF ci
  <2>13. Same(fi * p, ci * p)
    BY <2>1, <2>10, <2>12, SameScaled
  <2>14. sp \in Int /\ sM \in Int
    BY <2>8 DEF sp, sM
  <2>15. Same(c * sp, c * sM)
    BY <1>5, <2>9, <2>14, SameScaled
  <2>16. Same(V[i], U[i])
    BY <2>11, <2>12, <2>13, <2>15 DEF Same, Congruent
  <2>17. fi * p \in Int /\ c * sM \in Int
    BY <1>5, <2>1, <2>10, <2>14
  <2>18. V[i] \in Int /\ U[i] \in Int
    BY <2>11, <2>17
  <2>19. SumOn(B, M[i]) \in Int
    BY <2>14 DEF sM, Mi
  <2>20. QED
    BY <2>16, <2>18, <2>19
<1>15. ValueOf(f, y) = SumOn(B, V)
  <2>1. DOMAIN f = B
    BY <1>11
  <2>2. QED
    BY <2>1 DEF ValueOf
<1>16. SumOn(B, V) % Prime = SumOn(B, U) % Prime
  <2>1. \A i \in B : V[i] \in Int /\ U[i] \in Int /\ V[i] % Prime = U[i] % Prime
    BY <1>14 DEF Same, Congruent
  <2> HIDE DEF B, V, U
  <2>2. QED
    BY <1>2, <2>1, FieldSize, SumMod
<1> DEFINE R == [i \in B |-> SumOn(B, M[i])]
           Q == [j \in B |-> SumOn(B, [i \in B |-> M[i][j]])]
<1>17. SumOn(B, U) = c * SumOn(B, R) /\ SumOn(B, R) \in Int
  <2>1. \A i \in B : R[i] \in Int /\ U[i] = c * R[i]
    BY <1>14
  <2>2. \A i \in B : R[i] \in Int
    BY <2>1
  <2> HIDE DEF B, R, U, c
  <2>3. SumOn(B, U) = c * SumOn(B, R)
    BY <1>2, <1>5, <2>1, SumScale
  <2>4. SumOn(B, R) \in Int
    BY <1>2, <2>2, SumStep
  <2>5. QED
    BY <2>3, <2>4
<1>18. SumOn(B, R) = SumOn(B, Q)
  <2>1. \A i \in B : \A j \in B : M[i][j] \in Int
    BY <1>8
  <2>3. IsFiniteSet(B)
    BY <1>2
  <2> HIDE DEF B, M
  <2>2. SumOn(B, [x \in B |-> SumOn(B, M[x])])
             = SumOn(B, [j \in B |-> SumOn(B, [x \in B |-> M[x][j]])])
    BY <2>1, <2>3, SumSwap
  <2>4. QED
    BY <2>2
<1> DEFINE E == [j \in B |-> IF j = t THEN col[t] * n ELSE 0]
<1>19. ASSUME NEW j \in B PROVE Q[j] \in Int /\ E[j] \in Int /\ Same(Q[j], E[j])
  <2> DEFINE e == t - j
             T == [i \in B |-> Turn(e * i)]
             cj == col[j]
             Mj == [i \in B |-> M[i][j]]
             sT == SumOn(B, T)
  <2>1. cj \in Int /\ e \in Int /\ j \in Int /\ j < n /\ t < n /\ 0 <= j /\ 0 <= t
    BY <1>2, <1>3, <1>12
  <2>2. \A i \in B : T[i] \in Int /\ Mj[i] = cj * T[i]
    BY <1>8
  <2>3. Q[j] = SumOn(B, Mj)
    OBVIOUS
  <2>4. /\ Congruent(n, e, 0) => sT = n
        /\ ~ Congruent(n, e, 0) => Same(sT, 0)
    <3> HIDE DEF e
    <3>1. QED
      BY <2>1, Orthogonal
  <2>5. \A i \in B : T[i] \in Int
    BY <2>2
  <2> HIDE DEF T, Mj, cj, B
  <2>6. SumOn(B, Mj) = cj * sT
    BY <1>2, <2>1, <2>2, SumScale
  <2>7. sT \in Int
    BY <1>2, <2>5, SumStep
  <2>8. CASE j = t
    <3>1. e = 0
      BY <1>12, <2>8
    <3>2. sT = n
      BY <2>4, <3>1 DEF Congruent
    <3>3. E[j] = cj * n
      BY <2>8 DEF cj
    <3>4. Q[j] = cj * n /\ cj * n \in Int
      BY <1>1, <2>1, <2>3, <2>6, <3>2
    <3>5. QED
      BY <3>3, <3>4 DEF Same, Congruent
  <2>9. CASE j # t
    <3>1. ~ Congruent(n, e, 0)
      <4> SUFFICES ASSUME Congruent(n, e, 0) PROVE FALSE
        OBVIOUS
      <4>1. PICK q \in Int : e = 0 + n * q
        <5> DEFINE zero == 0
        <5>1. zero \in Int /\ e % n = zero % n
          BY DEF Congruent
        <5> HIDE DEF zero, e, n
        <5>2. \E q \in Int : e = zero + n * q
          BY <1>1, <2>1, <5>1, SameRemainder
        <5>3. QED
          BY <5>2 DEF zero
      <4>2. -n < n * q /\ n * q < n
        <5> DEFINE x == n * q
        <5>1. x \in Int /\ e = x
          BY <1>1, <2>1, <4>1
        <5> HIDE DEF x
        <5>2. -n < x /\ x < n
          BY <1>1, <1>12, <2>1, <5>1
        <5>3. QED
          BY <5>2 DEF x
      <4> HIDE DEF n
      <4>3. q = 0
        BY <1>1, <4>2, SmallMultiple
      <4>4. e = 0
        BY <1>1, <4>1, <4>3
      <4>5. QED
        BY <1>12, <2>1, <2>9, <4>4
    <3>2. Same(sT, 0)
      BY <2>4, <3>1
    <3> DEFINE zero == 0
    <3>3. zero \in Int /\ cj * zero = 0 /\ Same(sT, zero)
      BY <2>1, <3>2
    <3> HIDE DEF sT, zero
    <3>4. Same(cj * sT, cj * zero)
      BY <2>1, <2>7, <3>3, SameScaled
    <3>5. cj * sT \in Int
      BY <2>1, <2>7
    <3>6. E[j] = 0
      BY <2>9
    <3>7. QED
      BY <2>3, <2>6, <3>3, <3>4, <3>5, <3>6
  <2>10. QED
    BY <2>8, <2>9
<1>20. SumOn(B, Q) % Prime = SumOn(B, E) % Prime
  <2>1. \A j \in B : Q[j] \in Int /\ E[j] \in Int /\ Q[j] % Prime = E[j] % Prime
    BY <1>19 DEF Same, Congruent
  <2> HIDE DEF B, Q, E
  <2>2. QED
    BY <1>2, <2>1, FieldSize, SumMod
<1>21. SumOn(B, E) = col[t] * n
  <2>1. \A j \in B : E[j] \in Int
    BY <1>19
  <2>2. \A j \in B : t # j => E[j] = 0
    OBVIOUS
  <2>3. t \in B /\ E[t] = col[t] * n
    OBVIOUS
  <2> HIDE DEF B, E
  <2>4. SumOn(B, E) = E[t]
    BY <1>2, <2>1, <2>2, <2>3, SumOne
  <2>5. QED
    BY <2>3, <2>4
<1> DEFINE v == ValueOf(f, y)
           d == col[t]
           r == SumOn(B, R)
           nc == n * c
           dn == d * n
           one == 1
<1>22. v % Prime = (c * r) % Prime /\ r \in Int /\ Same(r, dn)
  BY <1>15, <1>16, <1>17, <1>18, <1>20, <1>21 DEF Same, Congruent
<1>23. d \in Int /\ d * one = d /\ one \in Int /\ Same(nc, one)
  BY <1>3, <1>5
<1> HIDE DEF v, d, r, c, one, n
<1>24. nc \in Int /\ dn \in Int /\ c * dn = d * nc
  BY <1>1, <1>5, <1>23
<1> HIDE DEF nc, dn
<1>25. Same(c * r, c * dn)
  BY <1>5, <1>22, <1>24, SameScaled
<1>26. Same(d * nc, d * one)
  BY <1>23, <1>24, SameScaled
<1>27. Same(v, d)
  BY <1>22, <1>23, <1>24, <1>25, <1>26 DEF Same, Congruent
<1>28. QED
  BY <1>11, <1>27 DEF v, d, f

-----------------------------------------------------------------------------
(* Runs of coefficients, and evaluation.                                   *)

(* A polynomial in runs of B coefficients.                                 *)
Run(c, B, k) == [q \in Below(B) |-> c[k * B + q]]

(* A polynomial's value from the values of its runs of B coefficients.     *)
LEMMA SplitValue ==
    ASSUME NEW B \in Nat \ {0}, NEW n \in Nat, NEW c \in Polys(n * B), NEW x \in Int,
           NEW W, \A k \in Below(n) : W[k] = Power(x, k * B) * ValueOf(Run(c, B, k), x)
    PROVE  /\ \A k \in Below(n) : Run(c, B, k) \in Polys(B) /\ W[k] \in Int
           /\ Same(ValueOf(c, x), SumOn(Below(n), W))
<1> DEFINE Pre(k) == [i \in Below(k * B) |-> c[i]]
           S == {k \in 0 .. n : Same(ValueOf(Pre(k), x), SumOn(Below(k), W))}
<1>1. \A k \in Nat : k * B \in Nat
  OBVIOUS
<1>2. ASSUME NEW k \in 0 .. n, NEW i \in Below(k * B) PROVE c[i] \in Int
  <2>1. k * B <= n * B
    <3>1. k \in Int /\ n \in Int /\ k <= n
      OBVIOUS
    <3>2. QED
      BY <3>1, StrideOrder
  <2>2. k * B \in Nat /\ n * B \in Nat
    BY <1>1
  <2> DEFINE a == k * B
             b == n * B
  <2> HIDE DEF a, b
  <2>3. i \in Below(b)
    BY <2>1, <2>2 DEF Below, a, b
  <2>4. QED
    BY <2>3 DEF Polys, b
<1>3. \A k \in 0 .. n : Pre(k) \in Polys(k * B)
  BY <1>2 DEF Polys
<1>4. \A k \in Below(n) : Run(c, B, k) \in Polys(B)
  <2> TAKE k \in Below(n)
  <2>1. \A q \in Below(B) : k * B + q \in Below(n * B)
    BY StrideBelow
  <2>2. \A q \in Below(B) : c[k * B + q] \in Int
    BY <2>1 DEF Polys
  <2>3. QED
    BY <2>2 DEF Run, Polys
<1>5. \A k \in Below(n) : k \in Nat /\ ValueOf(Run(c, B, k), x) \in Int /\ Power(x, k * B) \in Int /\ W[k] \in Int
  <2> TAKE k \in Below(n)
  <2>1. k \in Nat
    BY BelowIs
  <2>2. ValueOf(Run(c, B, k), x) \in Int
    BY <1>4, ValueInt
  <2>3. Power(x, k * B) \in Int
    <3> DEFINE m == k * B
    <3>1. m \in Nat
      BY <1>1, <2>1
    <3> HIDE DEF m
    <3>2. QED
      BY <3>1, PowerIs DEF m
  <2> DEFINE a == ValueOf(Run(c, B, k), x)
             b == Power(x, k * B)
  <2>4. W[k] = b * a
    OBVIOUS
  <2> HIDE DEF a, b
  <2>5. b * a \in Int
    BY <2>2, <2>3 DEF a, b
  <2>6. QED
    BY <2>1, <2>2, <2>3, <2>4, <2>5
<1>6. 0 \in S
  <2>1. Below(0) = {} /\ 0 * B = 0
    BY DEF Below
  <2>2. SumOn({}, W) = 0
    <3>1. IsFiniteSet({}) /\ \A z \in {} : W[z] \in Int
      BY FS_EmptySet
    <3>2. QED
      BY <3>1, SumStep
  <2>3. ValueOf(Pre(0), x) = 0
    <3> DEFINE F == [i \in DOMAIN Pre(0) |-> Pre(0)[i] * Power(x, i)]
    <3>1. DOMAIN Pre(0) = {}
      BY <2>1
    <3>2. ValueOf(Pre(0), x) = SumOn(DOMAIN Pre(0), F)
      BY DEF ValueOf
    <3> HIDE DEF F, Pre
    <3>3. IsFiniteSet({}) /\ \A z \in {} : F[z] \in Int
      BY FS_EmptySet
    <3>4. SumOn({}, F) = 0
      BY <3>3, SumStep
    <3>5. QED
      BY <3>1, <3>2, <3>4
  <2>4. Same(ValueOf(Pre(0), x), SumOn(Below(0), W))
    BY <2>1, <2>2, <2>3 DEF Same, Congruent
  <2>5. 0 \in 0 .. n
    OBVIOUS
  <2> HIDE DEF Pre
  <2>6. QED
    BY <2>4, <2>5
<1>7. ASSUME NEW k \in 0 .. n - 1, k \in S PROVE k + 1 \in S
  <2> DEFINE l == k * B
             m == (k + 1) * B
             f == Pre(k)
             e == Pre(k + 1)
             run == Run(c, B, k)
             pad == [i \in Below(m) |-> At(f, i)]
             far == [i \in Below(m) |-> At(run, i - l)]
  <2>1. k \in 0 .. n /\ k + 1 \in 0 .. n /\ k \in Below(n) /\ k \in Nat
    BY DEF Below
  <2>2. l \in Nat /\ m \in Nat /\ l + B = m /\ B + l <= m /\ l <= m
    BY <2>1
  <2>3. f \in Polys(l) /\ e \in Polys(m) /\ run \in Polys(B)
    BY <1>3, <1>4, <2>1
  <2>4. \A i \in Below(m) : e[i] = c[i]
    OBVIOUS
  <2>5. \A i \in Below(l) : f[i] = c[i]
    OBVIOUS
  <2>6. \A q \in Below(B) : run[q] = c[l + q]
    BY DEF Run
  <2> HIDE DEF l, m, f, e, run, Pre
  <2>7. DOMAIN f = Below(l) /\ DOMAIN run = Below(B)
    BY <2>3 DEF Polys
  <2>8. ASSUME NEW i \in Below(m)
        PROVE  /\ At(f, i) \in Int /\ At(run, i - l) \in Int
               /\ e[i] = 1 * At(f, i) + 1 * At(run, i - l)
    <3>1. i \in Nat /\ i < m /\ e[i] = c[i] /\ e[i] \in Int
      BY <2>2, <2>3, <2>4 DEF Below, Polys
    <3>2. CASE i < l
      <4>1. i \in Below(l) /\ i - l \notin Below(B)
        BY <2>2, <3>1, <3>2 DEF Below
      <4>2. At(f, i) = c[i] /\ At(run, i - l) = 0
        BY <2>5, <2>7, <4>1 DEF At
      <4> DEFINE ci == c[i]
      <4>3. ci \in Int
        BY <3>1
      <4> HIDE DEF ci
      <4>4. ci = 1 * ci + 1 * 0
        BY <4>3
      <4>5. QED
        BY <3>1, <4>2, <4>3, <4>4 DEF ci
    <3>3. CASE i >= l
      <4>1. i \notin Below(l) /\ i - l \in Below(B) /\ l + (i - l) = i
        BY <2>2, <3>1, <3>3 DEF Below
      <4>2. At(f, i) = 0 /\ At(run, i - l) = c[i]
        <5> DEFINE d == i - l
        <5> HIDE DEF d
        <5>1. At(run, d) = c[l + d]
          BY <2>6, <2>7, <4>1 DEF At, d
        <5>2. QED
          BY <2>7, <4>1, <5>1 DEF At, d
      <4> DEFINE ci == c[i]
      <4>3. ci \in Int
        BY <3>1
      <4> HIDE DEF ci
      <4>4. ci = 1 * 0 + 1 * ci
        BY <4>3
      <4>5. QED
        BY <3>1, <4>2, <4>3, <4>4 DEF ci
    <3>4. QED
      BY <2>2, <3>1, <3>2, <3>3
  <2>9. pad \in Polys(m) /\ far \in Polys(m)
    BY <2>8 DEF Polys
  <2>10. (\A i \in Below(m) : pad[i] = At(f, i)) /\ \A i \in Below(m) : far[i] = At(run, i - l)
    OBVIOUS
  <2> DEFINE one == 1
  <2>11. Combines(m, e, one, pad, one, far)
    BY <2>8 DEF Combines
  <2> HIDE DEF pad, far
  <2> DEFINE ve == ValueOf(e, x)
             vp == ValueOf(pad, x)
             vf == ValueOf(far, x)
             v == ValueOf(f, x)
             sk == SumOn(Below(k), W)
             w == W[k]
  <2>12. one \in Int
    OBVIOUS
  <2> HIDE DEF one
  <2>13. ValueOf(e, x) = one * vp + one * vf
    BY <2>2, <2>3, <2>9, <2>11, <2>12, ValueAdds
  <2>14. Same(vp, v)
    BY <2>2, <2>3, <2>9, <2>10, ValuePadded
  <2>15. Same(vf, w)
    <3>1. Same(ValueOf(far, x), Power(x, l) * ValueOf(run, x))
      BY <2>2, <2>3, <2>9, <2>10, ShiftValue
    <3>2. w = Power(x, l) * ValueOf(run, x)
      BY <2>1 DEF l, run
    <3>3. QED
      BY <3>1, <3>2
  <2>16. Same(v, sk)
    BY <1>7 DEF f
  <2>17. vp \in Int /\ vf \in Int /\ v \in Int /\ w \in Int
    BY <1>5, <2>1, <2>2, <2>3, <2>9, ValueInt
  <2>18. IsFiniteSet(Below(k)) /\ (\A i \in Below(k) : W[i] \in Int) /\ k \notin Below(k) /\ Below(k + 1) = Below(k) \cup {k}
    <3>1. IsFiniteSet(Below(k))
      BY <2>1, BelowIs
    <3>2. \A i \in Below(k) : i \in Below(n)
      BY <2>1 DEF Below
    <3>3. k \notin Below(k) /\ Below(k + 1) = Below(k) \cup {k}
      BY <2>1 DEF Below
    <3>4. QED
      BY <1>5, <3>1, <3>2, <3>3
  <2>19. SumOn(Below(k + 1), W) = w + sk
    BY <2>17, <2>18, SumAdds
  <2>20. sk \in Int
    BY <2>18, SumStep
  <2> HIDE DEF ve, vp, vf, v, sk, w
  <2>21. Same(vp, sk)
    BY <2>14, <2>16 DEF Same, Congruent
  <2>22. Same(vf + vp, w + sk)
    BY <2>15, <2>17, <2>20, <2>21, SameArithmetic
  <2>23. one * vp + one * vf = vf + vp
    <3>1. 1 * vp + 1 * vf = vf + vp
      BY <2>17
    <3>2. QED
      BY <3>1 DEF one
  <2>24. Same(ValueOf(e, x), SumOn(Below(k + 1), W))
    BY <2>13, <2>19, <2>22, <2>23
  <2>25. QED
    BY <2>1, <2>24 DEF e
<1>8. n \in S
  <2> HIDE DEF S
  <2>1. \A k \in 0 .. n - 1 : k \in S => k + 1 \in S
    BY <1>7
  <2>2. \A k \in 0 .. n : k \in S
    BY <1>6, <2>1, InductionUpTo
  <2>3. n \in 0 .. n
    OBVIOUS
  <2>4. QED
    BY <2>2, <2>3
<1>9. Pre(n) = c
  BY DEF Polys
<1>10. Same(ValueOf(c, x), SumOn(Below(n), W))
  <2>1. Same(ValueOf(Pre(n), x), SumOn(Below(n), W))
    BY <1>8
  <2> HIDE DEF Pre
  <2>2. QED
    BY <1>9, <2>1
<1>11. QED
  BY <1>4, <1>5, <1>10

(* A constant term and the rest of a polynomial.                           *)
LEMMA HornerStep ==
    ASSUME NEW n \in Nat, NEW g \in Polys(n), NEW h \in Polys(n + 1), NEW c \in Int, NEW x \in Int,
           h[0] = c, \A k \in Below(n) : h[k + 1] = g[k]
    PROVE  Same(ValueOf(h, x), c + (x * ValueOf(g, x)))
<1> DEFINE m == n + 1
           up == [k \in Below(m) |-> At(g, k - 1)]
           low == [k \in Below(m) |-> IF k = 0 THEN c ELSE 0]
           one == 1
           p1 == Power(x, one)
           u == ValueOf(up, x)
           w == ValueOf(low, x)
           v == ValueOf(g, x)
<1>1. m \in Nat /\ n + one <= m /\ one \in Nat /\ one \in Int /\ 0 \in Below(m)
  BY DEF Below
<1>2. DOMAIN g = Below(n) /\ \A k : At(g, k) \in Int
  BY DEF At, Polys
<1>3. up \in Polys(m) /\ low \in Polys(m) /\ h \in Polys(m)
  BY <1>2 DEF Polys
<1>4. Combines(m, h, one, up, one, low)
  <2> SUFFICES ASSUME NEW k \in Below(m) PROVE h[k] = one * up[k] + one * low[k]
    BY DEF Combines
  <2>1. k \in Nat /\ k < m
    BY <1>1, BelowIs
  <2>2. CASE k = 0
    <3>1. up[k] = 0
      BY <1>2, <2>2, BelowIs DEF At
    <3>2. low[k] = c
      BY <2>2
    <3>3. QED
      BY <2>2, <3>1, <3>2
  <2>3. CASE k # 0
    <3>1. k - 1 \in Below(n) /\ k - 1 + 1 = k
      BY <2>1, <2>3, BelowIs
    <3>2. up[k] = g[k - 1] /\ low[k] = 0 /\ h[k] = g[k - 1] /\ g[k - 1] \in Int
      BY <1>2, <2>3, <3>1 DEF At, Polys
    <3>3. QED
      BY <3>2
  <2>4. QED
    BY <2>2, <2>3
<1>5. ValueOf(h, x) = one * u + one * w
  <2> HIDE DEF one, up, low, m
  <2>1. QED
    BY <1>1, <1>3, <1>4, ValueAdds
<1>6. Same(u, p1 * v)
  <2>1. \A k \in Below(m) : up[k] = At(g, k - one)
    OBVIOUS
  <2> HIDE DEF one, up, m, u, v
  <2>2. QED
    BY <1>1, <1>3, <2>1, ShiftValue DEF u, v
<1>7. w = c
  <2> DEFINE F == [k \in Below(m) |-> low[k] * Power(x, k)]
             zero == 0
  <2>1. zero \in Below(m) /\ IsFiniteSet(Below(m))
    BY <1>1, BelowIs
  <2>2. \A k \in Below(m) : F[k] \in Int /\ (k # zero => F[k] = 0)
    <3> TAKE k \in Below(m)
    <3> DEFINE p == Power(x, k)
    <3>1. p \in Int /\ low[k] \in Int /\ (k # zero => low[k] = 0) /\ F[k] = low[k] * p
      BY <1>1, BelowIs, PowerIs
    <3> HIDE DEF p, low, F
    <3>2. QED
      BY <3>1
  <2>3. F[zero] = c
    <3>1. F[0] = c * 1
      BY <1>1, PowerZeroOne
    <3>2. QED
      BY <3>1
  <2>4. w = SumOn(Below(m), F)
    BY DEF ValueOf
  <2> HIDE DEF zero, F, w, low, m
  <2>5. QED
    BY <2>1, <2>2, <2>3, <2>4, SumOne
<1>8. Same(p1 * v, x * v) /\ v \in Int
  <2>1. v \in Int /\ p1 = x % Prime
    BY ValueInt, PowerZeroOne
  <2> HIDE DEF v, p1
  <2>2. QED
    BY <2>1, FieldSize, InnerRemainder DEF Same, Congruent
<1>9. u \in Int /\ w \in Int
  BY <1>1, <1>3, ValueInt
<1> HIDE DEF u, w, v, p1
<1>10. ValueOf(h, x) = u + w /\ x * v \in Int
  BY <1>5, <1>8, <1>9
<1>11. Same(u, x * v) /\ Same(w, c)
  BY <1>6, <1>7, <1>8 DEF Same, Congruent
<1> DEFINE y == x * v
<1>12. y \in Int /\ Same(u, y)
  BY <1>10, <1>11
<1> HIDE DEF y
<1>13. Same(u + w, y + c) /\ y + c = c + y
  BY <1>9, <1>11, <1>12, SameArithmetic
<1>14. QED
  BY <1>10, <1>13 DEF y, v

(* Eval computes the value, from the last coefficient down.                *)
LEMMA EvalIs ==
    ASSUME NEW n \in Nat, NEW f \in Polys(n), NEW x \in Int
    PROVE  Eval(f, x) \in Fp /\ Eval(f, x) \in Int /\ Same(Eval(f, x), ValueOf(f, x))
<1> DEFINE s == [k \in 1 .. n |-> f[k - 1]]
           Folds(iter) == iter = [z \in SUBSET (1 .. n) |->
                                    IF z = {} THEN 0
                                    ELSE (s[Min(z)] + x * iter[z \ {Min(z)}]) % Prime]
           Step == [i \in 1 .. n |-> [d \in Fp |-> (s[i] + x * d) % Prime]]
<1>1. \A k \in 1 .. n : s[k] \in Int /\ k - 1 \in Below(n) /\ s[k] = f[k - 1]
  BY DEF Polys, Below
<1>2. Length(f) = n
  BY PolyLength DEF Polys
<1>3. Eval(f, x) = (CHOOSE iter : Folds(iter))[1 .. n]
  BY <1>2 DEF Eval, FoldRight, MapThenFoldSet
<1>4. \E iter : Folds(iter)
  <2>1. \A i \in 1 .. n : \A d \in Fp : Step[i][d] \in Fp /\ Step[i][d] = (s[i] + x * d) % Prime
    <3> TAKE i \in 1 .. n
    <3> TAKE d \in Fp
    <3> DEFINE a == s[i] + x * d
    <3>1. d \in Int /\ s[i] \in Int
      BY <1>1, FpInt
    <3> HIDE DEF s
    <3>2. a \in Int /\ Step[i][d] = a % Prime
      BY <3>1
    <3> HIDE DEF a, Step
    <3>3. a % Prime \in Fp
      BY <3>2, SameIs
    <3>4. QED
      BY <3>2, <3>3 DEF a
  <2>2. 0 \in Fp
    BY FpInt
  <2> HIDE DEF Step
  <2> DEFINE base == 0
  <2>3. base \in Fp
    BY <2>2
  <2> HIDE DEF base
  <2>4. Foldable(1 .. n, Fp, base, SuffixSets(n), Step)
    BY <2>1, <2>3, ListsFold
  <2>5. PICK iter : Folded(1 .. n, Fp, base, SuffixSets(n), Step, iter)
    BY <2>4, FoldExists
  <2>6. /\ iter = [z \in SUBSET (1 .. n) |-> IF z = {} THEN base ELSE Step[SuffixSets(n)[z]][iter[z \ {SuffixSets(n)[z]}]]]
        /\ \A z \in SUBSET (1 .. n) : iter[z] \in Fp
    BY <2>5 DEF Folded
  <2>7. \A z \in SUBSET (1 .. n) : z # {} => SuffixSets(n)[z] = Min(z) /\ Min(z) \in 1 .. n
    <3>1. \A z \in SUBSET (1 .. n) : z # {} => SuffixSets(n)[z] \in z
      BY <2>4 DEF Foldable
    <3>2. QED
      BY <3>1 DEF SuffixSets
  <2>8. ASSUME NEW z \in SUBSET (1 .. n)
        PROVE  iter[z] = IF z = {} THEN 0 ELSE (s[Min(z)] + x * iter[z \ {Min(z)}]) % Prime
    <3>1. CASE z = {}
      BY <2>6, <3>1 DEF base
    <3>2. CASE z # {}
      <4>1. Min(z) \in 1 .. n /\ iter[z] = Step[Min(z)][iter[z \ {Min(z)}]]
        BY <2>6, <2>7, <3>2
      <4>2. iter[z \ {Min(z)}] \in Fp
        BY <2>6
      <4>3. QED
        BY <2>1, <3>2, <4>1, <4>2
    <3>3. QED
      BY <3>1, <3>2
  <2>9. iter = [z \in SUBSET (1 .. n) |-> iter[z]]
    <3> DEFINE body(z) == IF z = {} THEN base ELSE Step[SuffixSets(n)[z]][iter[z \ {SuffixSets(n)[z]}]]
    <3>1. iter = [z \in SUBSET (1 .. n) |-> body(z)]
      BY <2>6
    <3> HIDE DEF body
    <3>2. QED
      BY <3>1
  <2>10. Folds(iter)
    BY <2>8, <2>9
  <2>11. QED
    BY <2>10
<1>5. PICK iter : Folds(iter) /\ Eval(f, x) = iter[1 .. n]
  BY <1>3, <1>4
<1> DEFINE Ending(k) == [j \in Below(k) |-> f[n - k + j]]
           H(k) == iter[n - k + 1 .. n]
           S == {k \in 0 .. n : H(k) \in Fp /\ Same(H(k), ValueOf(Ending(k), x))}
<1>6. 0 \in S
  <2>1. n - 0 + 1 .. n = {} /\ iter[{}] = 0
    BY <1>5
  <2>2. ValueOf(Ending(0), x) = 0
    <3>1. Below(0) = {}
      BY DEF Below
    <3> DEFINE g == Ending(0)
               F == [k \in {} |-> 0]
    <3>2. DOMAIN g = {}
      BY <3>1
    <3>3. IsFiniteSet({}) /\ \A k \in {} : F[k] = 0
      BY FS_EmptySet
    <3> DEFINE none == {}
    <3>4. SumOn(none, F) = 0
      <4>1. IsFiniteSet(none) /\ \A k \in none : F[k] \in Int
        BY <3>3
      <4> HIDE DEF F
      <4>2. SumOn({}, F) = 0
        BY <4>1, SumStep
      <4>3. QED
        BY <4>2
    <3>5. ValueOf(g, x) = SumOn({}, [k \in {} |-> g[k] * Power(x, k)])
      BY <3>2 DEF ValueOf
    <3> DEFINE G == [k \in {} |-> g[k] * Power(x, k)]
    <3>6. \A k \in none : G[k] = F[k]
      OBVIOUS
    <3> HIDE DEF F, G, g, none
    <3>7. SumOn(none, G) = SumOn(none, F)
      BY <3>6, SumEqual
    <3>8. QED
      BY <3>4, <3>5, <3>7 DEF none, G, g
  <2>3. H(0) = 0 /\ 0 \in 0 .. n
    BY <2>1
  <2> HIDE DEF H, Ending
  <2>4. QED
    BY <2>2, <2>3, FpInt DEF Same, Congruent
<1>7. ASSUME NEW k \in 0 .. n - 1, k \in S
      PROVE  k + 1 \in S
  <2> DEFINE i == n - k
             c == f[i - 1]
             g == Ending(k)
             h == Ending(k + 1)
             v == ValueOf(g, x)
             y == H(k)
             a == c + x * y
             b == c + x * v
  <2>1. k \in Nat /\ k + 1 \in 0 .. n /\ i \in 1 .. n /\ n - (k + 1) + 1 = i /\ i + 1 = n - k + 1
    OBVIOUS
  <2>2. Min(i .. n) = i /\ (i .. n) \ {i} = i + 1 .. n
    BY <2>1, FirstOfRest
  <2>3. H(k + 1) = a % Prime
    <3>1. i .. n \in SUBSET (1 .. n) /\ i .. n # {}
      BY <2>1
    <3>2. iter[i .. n] = (s[i] + x * iter[i + 1 .. n]) % Prime
      BY <1>5, <2>2, <3>1
    <3>3. s[i] = c
      BY <1>1, <2>1
    <3> HIDE DEF i, c
    <3>4. QED
      BY <2>1, <3>2, <3>3
  <2>4. c \in Int /\ y \in Int /\ y \in Fp /\ Same(y, v)
    <3>1. c \in Int
      BY <2>1, <1>1
    <3>2. y \in Fp /\ Same(y, v)
      BY <1>7
    <3>3. QED
      BY <3>1, <3>2, FpInt
  <2>5. g \in Polys(k) /\ h \in Polys(k + 1) /\ h[0] = c /\ \A j \in Below(k) : h[j + 1] = g[j]
    <3>1. \A j \in Below(k) : n - k + j \in Below(n) /\ f[n - k + j] \in Int
      BY DEF Below, Polys
    <3>2. \A j \in Below(k + 1) : n - (k + 1) + j \in Below(n) /\ f[n - (k + 1) + j] \in Int
      BY DEF Below, Polys
    <3>3. h[0] = c
      <4>1. 0 \in Below(k + 1) /\ n - (k + 1) + 0 = i - 1
        BY DEF Below
      <4>2. QED
        BY <4>1
    <3>4. ASSUME NEW j \in Below(k) PROVE h[j + 1] = g[j]
      <4>1. j + 1 \in Below(k + 1) /\ n - (k + 1) + (j + 1) = n - k + j
        BY DEF Below
      <4>2. QED
        BY <4>1
    <3>5. QED
      BY <3>1, <3>2, <3>3, <3>4 DEF Polys
  <2>6. v \in Int
    <3> HIDE DEF g
    <3>1. QED
      BY <2>1, <2>5, ValueInt
  <2>7. Same(ValueOf(h, x), b)
    <3> HIDE DEF g, h, c
    <3>1. QED
      BY <2>1, <2>4, <2>5, HornerStep
  <2> HIDE DEF v, y, c, h, g
  <2>8. a \in Int /\ b \in Int /\ Same(a, b)
    <3>1. x * y \in Int /\ x * v \in Int
      BY <2>4, <2>6
    <3>2. Same(x * y, x * v)
      BY <2>4, <2>6, SameScaled
    <3> DEFINE p == x * y
               q == x * v
    <3>3. p \in Int /\ q \in Int /\ Same(p, q) /\ Same(c, c)
      BY <3>1, <3>2 DEF Same, Congruent
    <3> HIDE DEF p, q
    <3>4. Same(c + p, c + q) /\ c + p \in Int /\ c + q \in Int
      BY <2>4, <3>3, SameArithmetic
    <3>5. QED
      BY <3>4 DEF p, q
  <2> HIDE DEF a, b
  <2>9. a % Prime \in Fp /\ Same(a % Prime, a)
    BY <2>8, SameIs
  <2>10. Same(H(k + 1), ValueOf(h, x)) /\ H(k + 1) \in Fp
    <3> HIDE DEF H
    <3>1. QED
      BY <2>3, <2>7, <2>8, <2>9 DEF Same, Congruent
  <2>11. QED
    BY <2>1, <2>10 DEF h
<1>8. n \in S
  <2> HIDE DEF S
  <2>1. \A k \in 0 .. n : k \in S
    BY <1>6, <1>7, InductionUpTo
  <2>2. QED
    BY <2>1
<1>9. H(n) = iter[1 .. n] /\ Ending(n) = f
  <2>1. n - n + 1 = 1
    OBVIOUS
  <2>2. \A j \in Below(n) : n - n + j = j
    BY DEF Below
  <2>3. f = [j \in Below(n) |-> f[j]]
    BY DEF Polys
  <2>4. QED
    BY <2>1, <2>2, <2>3
<1>10. QED
  <2> HIDE DEF H, Ending
  <2>1. QED
    BY <1>5, <1>8, <1>9, FpInt

-----------------------------------------------------------------------------
(* Products and Lagrange's interpolation.                                  *)

(* Normal drops zeros at the end and nothing else.                         *)
LEMMA NormalIs ==
    ASSUME NEW n \in Nat, NEW f \in [Below(n) -> Fp]
    PROVE  \E l \in Nat : /\ l <= n /\ Normal(f) \in [Below(l) -> Fp]
                          /\ \A k \in Int : At(Normal(f), k) = At(f, k)
<1> DEFINE used == {k \in DOMAIN f : f[k] # 0}
           top == Max(used \cup {-1})
           l == top + 1
<1>1. DOMAIN f = Below(n) /\ IsFiniteSet(Below(n)) /\ \A k \in Below(n) : k \in Nat /\ k < n
  BY BelowIs
<1>2. IsFiniteSet(used) /\ used \in SUBSET Nat
  <2>1. used \subseteq Below(n)
    BY <1>1
  <2> HIDE DEF used
  <2>2. QED
    BY <1>1, <2>1, FS_Subset
<1>3. top \in -1 .. n - 1 /\ \A k \in used : k <= top
  <2>1. CASE used = {}
    <3>1. used \cup {-1} = {-1}
      BY <2>1
    <3>2. Max({-1}) = -1
      BY DEF Max
    <3> HIDE DEF used
    <3>3. QED
      BY <2>1, <3>1, <3>2
  <2>2. CASE used # {}
    <3> DEFINE z == Max(used)
    <3>1. z \in used /\ \A k \in used : k <= z
      <4> HIDE DEF used
      <4>1. QED
        BY <1>2, <2>2, MaxIn
    <3>2. z \in Below(n)
      BY <1>1, <3>1
    <3>3. z \in Nat /\ z < n
      BY <1>1, <3>2
    <3>6. used \in SUBSET Nat
      BY <1>2
    <3> HIDE DEF used, z
    <3>4. Max(used \cup {-1}) = z
      <4>1. z \in used \cup {-1} /\ \A k \in used \cup {-1} : z >= k
        BY <3>1, <3>3, <3>6
      <4>2. \A t \in used \cup {-1} : (\A k \in used \cup {-1} : t >= k) => t = z
        BY <3>1, <3>3, <3>6
      <4>3. QED
        BY <4>1, <4>2 DEF Max
    <3>5. QED
      BY <3>1, <3>3, <3>4
  <2>3. QED
    BY <2>1, <2>2
<1>4. Normal(f) = [k \in 0 .. top |-> f[k]]
  BY DEF Normal
<1>6. \A k \in Below(n) : k > top => f[k] = 0
  BY <1>1, <1>3
<1> HIDE DEF top, used
<1>5. l \in Nat /\ l <= n /\ Below(l) = 0 .. top /\ Below(l) \subseteq Below(n)
  BY <1>3 DEF Below
<1>7. Normal(f) \in [Below(l) -> Fp]
  BY <1>4, <1>5
<1>8. ASSUME NEW k \in Int PROVE At(Normal(f), k) = At(f, k)
  <2>1. CASE k \in Below(l)
    BY <1>1, <1>4, <1>5, <2>1 DEF At
  <2>2. CASE k \notin Below(l)
    <3>1. At(Normal(f), k) = 0
      BY <1>4, <1>5, <2>2 DEF At
    <3>2. k \in Below(n) => k > top
      BY <1>3, <1>5, <2>2 DEF Below
    <3>3. QED
      BY <1>1, <1>6, <3>1, <3>2 DEF At
  <2>3. QED
    BY <2>1, <2>2
<1>9. QED
  BY <1>5, <1>7, <1>8

(* The product of two polynomials has the product of their values.         *)
LEMMA MulIs ==
    ASSUME NEW n \in Nat \ {0}, NEW l \in Nat, NEW a \in Polys(n), NEW b \in Polys(l)
    PROVE  /\ Mul(a, b) \in [Below(n + l - 1) -> Fp]
           /\ \A x \in Int : Same(ValueOf(Mul(a, b), x), ValueOf(a, x) * ValueOf(b, x))
<1> DEFINE m == n + l - 1
           c == Mul(a, b)
           D(k) == {j \in DOMAIN a : k - j \in DOMAIN b}
<1>1. DOMAIN a = Below(n) /\ DOMAIN b = Below(l) /\ IsFiniteSet(Below(n))
  BY BelowIs DEF Polys
<1>2. m \in Nat /\ Below(m) = 0 .. n + l - 2 /\ n + l <= m + 1
  BY DEF Below
<1>3. Length(a) = n /\ Length(b) = l
  BY <1>1, PolyLength
<1>4. c = [k \in Below(m) |-> SumOf([i \in D(k) |-> a[i] * b[k - i]])]
  BY <1>2, <1>3 DEF Mul
<1>5. \A j \in Below(n) : a[j] \in Int /\ j \in Int
  BY BelowIs DEF Polys
<1>6. \A k : At(b, k) \in Int
  BY <1>1 DEF At, Polys
<1>7. ASSUME NEW k \in Below(m)
      PROVE  c[k] \in Fp /\ Same(c[k], SumOn(Below(n), [j \in Below(n) |-> a[j] * At(b, k - j)]))
  <2> DEFINE S == Below(n)
             T == D(k)
             F == [j \in S |-> a[j] * At(b, k - j)]
             z == SumOn(S, F)
  <2>1. T \in SUBSET S
    BY <1>1
  <2>2. \A j \in S : F[j] \in Int /\ (j \notin T => F[j] = 0) /\ (j \in T => F[j] = a[j] * b[k - j])
    <3> TAKE j \in S
    <3> DEFINE y == a[j]
               u == At(b, k - j)
    <3>1. y \in Int /\ u \in Int /\ F[j] = y * u
      BY <1>5, <1>6
    <3>2. j \notin T => u = 0
      BY <1>1 DEF At
    <3>3. j \in T => F[j] = a[j] * b[k - j]
      BY <1>1 DEF At
    <3> HIDE DEF y, u, F, T
    <3>4. QED
      BY <3>1, <3>2, <3>3
  <2>3. SumOf([i \in T |-> a[i] * b[k - i]]) = SumOn(T, F) % Prime
    <3>1. \A i \in T : a[i] * b[k - i] = F[i]
      BY <2>1, <2>2
    <3> HIDE DEF T, F
    <3>2. [i \in T |-> a[i] * b[k - i]] = [i \in T |-> F[i]]
      BY <3>1
    <3>3. QED
      BY <3>2 DEF SumOf, SumOn
  <2>4. c[k] = SumOf([i \in T |-> a[i] * b[k - i]])
    BY <1>4
  <2> HIDE DEF T, F, S, c
  <2>5. SumOn(S, F) = SumOn(T, F) /\ SumOn(S, F) \in Int
    <3>1. IsFiniteSet(S)
      BY <1>1 DEF S
    <3>2. (\A j \in S : F[j] \in Int) /\ \A j \in S \ T : F[j] = 0
      BY <2>2
    <3>3. SumOn(S, F) = SumOn(T, F)
      BY <2>1, <3>1, <3>2, SumRestrict
    <3>4. SumOn(S, F) \in Int
      BY <3>1, <3>2, SumStep
    <3>5. QED
      BY <3>3, <3>4
  <2> HIDE DEF z
  <2>6. c[k] = z % Prime /\ z \in Int
    BY <2>3, <2>4, <2>5 DEF z
  <2>7. c[k] \in Fp /\ Same(c[k], z)
    BY <2>6, SameIs
  <2>8. QED
    BY <2>7 DEF z, F, S
<1>8. c \in [Below(m) -> Fp] /\ c \in Polys(m)
  <2>1. c = [k \in Below(m) |-> c[k]]
    BY <1>4
  <2> HIDE DEF c, m
  <2>2. c \in [Below(m) -> Fp]
    BY <1>7, <2>1
  <2>3. QED
    BY <1>2, <2>2, FpPoly
<1>9. ASSUME NEW x \in Int PROVE Same(ValueOf(c, x), ValueOf(a, x) * ValueOf(b, x))
  <2> HIDE DEF c, m
  <2>1. QED
    BY <1>2, <1>7, <1>8, Convolution
<1>10. QED
  BY <1>8, <1>9

(* The value of a sum of polynomials.                                      *)
PolySum(T, m, F, g) ==
    /\ \A i \in T : F[i] \in Polys(m)
    /\ \A k \in Below(m) : Same(g[k], SumOn(T, [i \in T |-> F[i][k]]))

(* The value of a sum of polynomials.                                      *)
LEMMA ValuesSum ==
    ASSUME NEW m \in Nat, NEW T, IsFiniteSet(T), NEW F, NEW g \in Polys(m), NEW x \in Int,
           PolySum(T, m, F, g)
    PROVE  Same(ValueOf(g, x), SumOn(T, [i \in T |-> ValueOf(F[i], x)]))
<1> DEFINE S == Below(m)
           C == [k \in S |-> g[k] * Power(x, k)]
           E == [k \in S |-> [i \in T |-> F[i][k] * Power(x, k)]]
           R == [k \in S |-> SumOn(T, E[k])]
           Q == [i \in T |-> SumOn(S, [k \in S |-> E[k][i]])]
           V == [i \in T |-> ValueOf(F[i], x)]
<1>1. IsFiniteSet(S) /\ \A k \in S : k \in Nat /\ Power(x, k) \in Int
  BY BelowIs, PowerIs
<1>2. \A i \in T : \A k \in S : F[i][k] \in Int
  BY DEF PolySum, Polys
<1>3. \A k \in S : \A i \in T : E[k][i] \in Int /\ E[k][i] = F[i][k] * Power(x, k)
  <2> TAKE k \in S
  <2> TAKE i \in T
  <2> DEFINE y == F[i][k]
             z == Power(x, k)
  <2>1. y \in Int /\ z \in Int /\ E[k][i] = y * z
    BY <1>1, <1>2
  <2> HIDE DEF y, z, E
  <2>2. E[k][i] \in Int
    BY <2>1
  <2>3. QED
    BY <2>1, <2>2 DEF y, z
<1>4. SumOn(S, R) = SumOn(T, Q)
  <2>1. \A k \in S : \A i \in T : E[k][i] \in Int
    BY <1>3
  <2>2. R = [k \in S |-> SumOn(T, E[k])] /\ Q = [i \in T |-> SumOn(S, [k \in S |-> E[k][i]])]
    OBVIOUS
  <2> HIDE DEF S, E, R, Q
  <2>3. SumOn(S, [k \in S |-> SumOn(T, E[k])])
          = SumOn(T, [i \in T |-> SumOn(S, [k \in S |-> E[k][i]])])
    BY <1>1, <2>1, SumSwap
  <2>4. QED
    BY <2>2, <2>3
<1>5. \A i \in T : Q[i] = V[i]
  <2> SUFFICES ASSUME NEW i \in T PROVE Q[i] = V[i]
    OBVIOUS
  <2> DEFINE f == F[i]
             A == [k \in S |-> E[k][i]]
             B == [k \in S |-> f[k] * Power(x, k)]
  <2>1. f \in Polys(m)
    BY DEF PolySum
  <2>2. ValueOf(f, x) = SumOn(S, B)
    <3>1. DOMAIN f = S
      BY <2>1 DEF Polys
    <3> HIDE DEF f, S
    <3>2. QED
      BY <3>1 DEF ValueOf
  <2>3. \A k \in S : A[k] = B[k]
    BY <1>3
  <2>4. Q[i] = SumOn(S, A) /\ V[i] = ValueOf(f, x)
    OBVIOUS
  <2> HIDE DEF A, B, S, Q, V, f
  <2>5. SumOn(S, A) = SumOn(S, B)
    BY <2>3, SumEqual
  <2>6. QED
    BY <2>2, <2>4, <2>5
<1>6. \A k \in S : C[k] \in Int /\ R[k] \in Int /\ C[k] % Prime = R[k] % Prime
  <2> SUFFICES ASSUME NEW k \in S
               PROVE  C[k] \in Int /\ R[k] \in Int /\ C[k] % Prime = R[k] % Prime
    OBVIOUS
  <2> DEFINE p == Power(x, k)
             Ek == E[k]
             B == [i \in T |-> F[i][k]]
             y == g[k]
             z == SumOn(T, B)
  <2>1. p \in Int /\ y \in Int
    BY <1>1 DEF Polys
  <2>2. \A i \in T : B[i] \in Int /\ Ek[i] = p * B[i]
    <3> TAKE i \in T
    <3> DEFINE t == F[i][k]
    <3>1. t \in Int /\ B[i] = t /\ Ek[i] = t * p
      BY <1>2, <1>3
    <3> HIDE DEF t, p, B, Ek
    <3>2. QED
      BY <2>1, <3>1
  <2>3. Same(y, z)
    BY DEF PolySum
  <2>4. C[k] = y * p /\ R[k] = SumOn(T, Ek)
    OBVIOUS
  <2> HIDE DEF C, R, Ek, B, p, y
  <2>5. SumOn(T, B) \in Int
    BY <2>2, SumStep
  <2>6. SumOn(T, Ek) = p * SumOn(T, B)
    BY <2>1, <2>2, SumScale
  <2> HIDE DEF z
  <2>7. z \in Int /\ R[k] = p * z
    BY <2>4, <2>5, <2>6 DEF z
  <2>8. Same(y * p, z * p)
    BY <2>1, <2>3, <2>7, SameScaled
  <2>9. y * p \in Int /\ p * z \in Int /\ z * p = p * z
    BY <2>1, <2>7
  <2>10. QED
    BY <2>4, <2>7, <2>8, <2>9 DEF Same, Congruent
<1>7. SumOn(S, C) % Prime = SumOn(S, R) % Prime
  <2> HIDE DEF S, C, R
  <2>1. QED
    BY <1>1, <1>6, FieldSize, SumMod
<1>8. ValueOf(g, x) = SumOn(S, C)
  BY DEF ValueOf, Polys
<1> HIDE DEF S, C, R, Q, V
<1>9. SumOn(T, Q) = SumOn(T, V)
  BY <1>5, SumEqual
<1>10. QED
  BY <1>4, <1>7, <1>8, <1>9 DEF Same, Congruent, V

(* The list without its i-th element.                                      *)
LEMMA RemoveAtIs ==
    ASSUME NEW n \in Nat, NEW points \in Seq(Int), Len(points) = n, NEW i \in 1 .. n
    PROVE  /\ DOMAIN RemoveAt(points, i) = 1 .. n - 1
           /\ \A j \in 1 .. n - 1 : RemoveAt(points, i)[j] =
                    IF j < i THEN points[j] ELSE points[j + 1]
<1> DEFINE a == SubSeq(points, 1, i - 1)
           b == SubSeq(points, i + 1, n)
<1>1. a \in Seq(Int) /\ Len(a) = i - 1 /\ \A j \in 1 .. i - 1 : a[j] = points[j]
  OBVIOUS
<1>2. b \in Seq(Int) /\ Len(b) = n - i /\ \A j \in 1 .. n - i : b[j] = points[i + j]
  <2>1. /\ i + 1 \in 1 .. n + 1 /\ n \in i .. n /\ n - i \in Nat
        /\ (n - (i + 1)) + 1 = n - i
        /\ \A j \in 1 .. n - i : ((i + 1) + j) - 1 = i + j /\ i + j \in 1 .. n
    OBVIOUS
  <2>2. \A j \in i + 1 .. n : points[j] \in Int
    OBVIOUS
  <2>3. n \in Int /\ i + 1 \in Int
    OBVIOUS
  <2>4. /\ SubSeq(points, i + 1, n) \in Seq(Int)
        /\ Len(SubSeq(points, i + 1, n)) = IF i + 1 <= n THEN (n - (i + 1)) + 1 ELSE 0
        /\ \A j \in 1 .. (n - (i + 1)) + 1 : SubSeq(points, i + 1, n)[j] = points[((i + 1) + j) - 1]
    BY <2>2, <2>3, SubSeqProperties
  <2>5. /\ b \in Seq(Int) /\ Len(b) = IF i + 1 <= n THEN (n - (i + 1)) + 1 ELSE 0
        /\ \A j \in 1 .. (n - (i + 1)) + 1 : b[j] = points[((i + 1) + j) - 1]
    BY <2>4 DEF b
  <2> HIDE DEF b
  <2>6. (IF i + 1 <= n THEN (n - (i + 1)) + 1 ELSE 0) = n - i
    OBVIOUS
  <2>7. Len(b) = n - i
    BY <2>5, <2>6
  <2>8. \A j \in 1 .. n - i : b[j] = points[i + j]
    BY <2>1, <2>5
  <2> QED BY <2>5, <2>7, <2>8
<1>3. RemoveAt(points, i) = a \o b
  BY DEF RemoveAt
<1> HIDE DEF a, b
<1>4. /\ a \o b \in Seq(Int) /\ Len(a \o b) = Len(a) + Len(b)
      /\ \A j \in 1 .. Len(a) + Len(b) :
            (a \o b)[j] = IF j <= Len(a) THEN a[j] ELSE b[j - Len(a)]
  BY <1>1, <1>2, ConcatProperties
<1>5. Len(a) + Len(b) = n - 1
  BY <1>1, <1>2
<1>6. ASSUME NEW j \in 1 .. n - 1
      PROVE  (a \o b)[j] = IF j < i THEN points[j] ELSE points[j + 1]
  <2>1. (a \o b)[j] = IF j <= Len(a) THEN a[j] ELSE b[j - Len(a)]
    BY <1>4, <1>5
  <2> DEFINE c == a \o b
  <2> HIDE DEF c
  <2>2. CASE j < i
    BY <1>1, <2>1, <2>2
  <2>3. CASE ~ (j < i)
    <3>1. j - (i - 1) \in 1 .. n - i /\ i + (j - (i - 1)) = j + 1
      BY <2>3
    <3>2. (a \o b)[j] = b[j - (i - 1)]
      BY <1>1, <2>1, <2>3
    <3>3. QED
      BY <1>2, <2>3, <3>1, <3>2
  <2>4. QED
    BY <2>2, <2>3
<1>7. DOMAIN (a \o b) = 1 .. n - 1
  <2> DEFINE c == a \o b
  <2>1. c \in Seq(Int) /\ Len(c) = n - 1
    BY <1>4, <1>5
  <2> HIDE DEF c
  <2>2. DOMAIN c = 1 .. n - 1
    BY <2>1
  <2>3. QED
    BY <2>2 DEF c
<1>8. QED
  BY <1>3, <1>6, <1>7

(* A polynomial times a constant.                                          *)
LEMMA ScaleIs ==
    ASSUME NEW n \in Nat, NEW f \in Polys(n), NEW c \in Int
    PROVE  /\ Scale(c, f) \in [Below(n) -> Fp]
           /\ \A x \in Int : Same(ValueOf(Scale(c, f), x), c * ValueOf(f, x))
<1> DEFINE e == [k \in Below(n) |-> c * f[k] + 0 * f[k]]
           g == Scale(c, f)
           zero == 0
<1>1. \A k \in Below(n) : f[k] \in Int
  BY DEF Polys
<1>2. \A k \in Below(n) : c * f[k] \in Int /\ e[k] = c * f[k] /\ e[k] \in Int
  <2> TAKE k \in Below(n)
  <2> DEFINE y == f[k]
  <2>1. y \in Int /\ e[k] = c * y + 0 * y
    BY <1>1
  <2> HIDE DEF y, e
  <2>2. c * y \in Int /\ 0 * y = 0
    BY <2>1
  <2>3. QED
    BY <2>1, <2>2 DEF y
<1>3. g = [k \in Below(n) |-> (c * f[k]) % Prime]
  BY DEF Scale, Polys
<1>4. /\ g \in [Below(n) -> Fp] /\ g \in Polys(n)
      /\ \A k \in Below(n) : Same(g[k], e[k])
  <2>1. \A k \in Below(n) : (c * f[k]) % Prime \in Fp /\ Same((c * f[k]) % Prime, c * f[k])
    <3> TAKE k \in Below(n)
    <3> DEFINE y == c * f[k]
    <3>1. y \in Int
      BY <1>2
    <3> HIDE DEF y
    <3>2. y % Prime \in Fp /\ Same(y % Prime, y)
      BY <3>1, SameIs
    <3>3. QED
      BY <3>2 DEF y
  <2> HIDE DEF g, e
  <2>2. g \in [Below(n) -> Fp]
    BY <1>3, <2>1
  <2>3. QED
    BY <1>2, <1>3, <2>1, <2>2, FpPoly
<1>5. e \in Polys(n)
  BY <1>2 DEF Polys
<1>6. ASSUME NEW x \in Int PROVE Same(ValueOf(g, x), c * ValueOf(f, x))
  <2> DEFINE v == ValueOf(f, x)
  <2>1. Same(ValueOf(g, x), ValueOf(e, x))
    <3> HIDE DEF g, e
    <3>1. QED
      BY <1>4, <1>5, ValueSame
  <2>2. Combines(n, e, c, f, zero, f)
    BY DEF Combines
  <2>3. ValueOf(e, x) = c * v + zero * v
    <3> HIDE DEF e, zero
    <3>1. zero \in Int
      BY DEF zero
    <3>2. QED
      BY <1>5, <2>2, <3>1, ValueAdds
  <2>4. v \in Int
    BY ValueInt
  <2> HIDE DEF v, e, g
  <2>5. c * v + zero * v = c * v
    BY <2>4
  <2>6. QED
    BY <2>1, <2>3, <2>5 DEF v
<1>7. QED
  BY <1>4, <1>6

(* No two of the points agree in the field.                                *)
Apart(n, points) == \A i, k \in 1 .. n : i # k => ~ Same(points[i] - points[k], 0)
(* The product over the other points, and the term of Interpolate for one  *)
(* point.                                                                  *)
Others(points, i) == BuildFromRoots(RemoveAt(points, i))
Term(points, values, i) ==
    Scale(values[i] * Inv(Eval(Others(points, i), points[i])), Others(points, i))

(* That term has its value at its point and is zero at the others.         *)
LEMMA TermIs ==
    ASSUME NEW n \in Nat, NEW points \in Seq(Int), Len(points) = n, Apart(n, points),
           NEW values, NEW i \in 1 .. n, values[i] \in Int
    PROVE  /\ Term(points, values, i) \in [Below(n) -> Fp]
           /\ Same(ValueOf(Term(points, values, i), points[i]), values[i])
           /\ \A k \in 1 .. n : k # i => Same(ValueOf(Term(points, values, i), points[k]), 0)
<1> DEFINE r == RemoveAt(points, i)
           O == Others(points, i)
           e == Eval(O, points[i])
           y == Inv(e)
           w == values[i]
           c == w * y
           l == n - 1
           m == l + 1
           g == Term(points, values, i)
<1>1. \A k \in 1 .. n : points[k] \in Int
  OBVIOUS
<1>2. /\ DOMAIN r = 1 .. l
      /\ \A j \in 1 .. l : r[j] = IF j < i THEN points[j] ELSE points[j + 1]
  BY RemoveAtIs
<1>3. l \in Nat /\ m = n /\ m \in Nat
  OBVIOUS
<1>4. \A j \in 1 .. l : \E k \in 1 .. n : k # i /\ r[j] = points[k]
  <2> TAKE j \in 1 .. l
  <2> HIDE DEF r
  <2>1. CASE j < i
    <3>1. j \in 1 .. n /\ j # i /\ r[j] = points[j]
      BY <1>2, <2>1
    <3>2. QED
      BY <3>1
  <2>2. CASE ~ (j < i)
    <3>1. j + 1 \in 1 .. n /\ j + 1 # i /\ r[j] = points[j + 1]
      BY <1>2, <2>2
    <3>2. QED
      BY <3>1
  <2>3. QED
    BY <2>1, <2>2
<1>5. \A k \in 1 .. n : k # i => \E j \in 1 .. l : r[j] = points[k]
  <2> TAKE k \in 1 .. n
  <2> HAVE k # i
  <2> HIDE DEF r
  <2>1. CASE k < i
    <3>1. k \in 1 .. l /\ r[k] = points[k]
      BY <1>2, <2>1
    <3>2. QED
      BY <3>1
  <2>2. CASE ~ (k < i)
    <3>1. k - 1 \in 1 .. l /\ ~ (k - 1 < i) /\ k - 1 + 1 = k
      BY <2>2
    <3>2. r[k - 1] = points[k]
      BY <1>2, <3>1
    <3>3. QED
      BY <3>1, <3>2
  <2>3. QED
    BY <2>1, <2>2
<1>6. \A j \in 1 .. l : r[j] \in Int
  <2> HIDE DEF r, l
  <2>1. QED
    BY <1>1, <1>4
<1>7. /\ O \in [Below(m) -> Fp]
      /\ \A x \in Int : Same(ValueOf(O, x), 0) <=> \E j \in 1 .. l : Same(x - r[j], 0)
  <2>1. O = BuildFromRoots(r)
    BY DEF Others
  <2> HIDE DEF r, l, O
  <2>2. /\ BuildFromRoots(r) \in [Below(m) -> Fp]
        /\ \A x \in Int : Same(ValueOf(BuildFromRoots(r), x), 0) <=> \E j \in 1 .. l : Same(x - r[j], 0)
    BY <1>2, <1>3, <1>6, RootsIs
  <2>3. QED
    BY <2>1, <2>2
<1>8. O \in [Below(n) -> Fp] /\ O \in Polys(n)
  <2>1. O \in [Below(n) -> Fp]
    BY <1>3, <1>7
  <2> HIDE DEF O
  <2>2. QED
    BY <2>1, FpPoly
<1> HIDE DEF O, r, l, m
<1>9. e \in Int /\ Same(e, ValueOf(O, points[i]))
  BY <1>1, <1>8, EvalIs
<1>10. ~ Same(ValueOf(O, points[i]), 0)
  BY <1>1, <1>4, <1>7 DEF Apart
<1> HIDE DEF e
<1>11. ~ Same(e, 0)
  BY <1>9, <1>10 DEF Same, Congruent
<1>12. y \in Int /\ Same(e * y, 1)
  BY <1>9, <1>11, InverseIs
<1>13. w \in Int
  OBVIOUS
<1> HIDE DEF y, w
<1>14. c \in Int
  BY <1>12, <1>13
<1>15. g = Scale(c, O)
  BY DEF Term, O, e, y, w
<1> HIDE DEF c, g
<1>16. g \in [Below(n) -> Fp] /\ \A x \in Int : Same(ValueOf(g, x), c * ValueOf(O, x))
  BY <1>8, <1>14, <1>15, ScaleIs
<1>17. Same(ValueOf(g, points[i]), w)
  <2> DEFINE v == ValueOf(O, points[i])
             b == y * v
             d == e * y
  <2>1. v \in Int /\ Same(ValueOf(g, points[i]), c * v)
    BY <1>1, <1>8, <1>16, ValueInt
  <2>2. Same(e, v)
    BY <1>9
  <2> HIDE DEF v
  <2>3. Same(v * y, e * y)
    <3>1. Same(v, e)
      BY <2>2 DEF Same, Congruent
    <3>2. QED
      BY <1>9, <1>12, <2>1, <3>1, SameScaled
  <2>4. v * y = y * v /\ b \in Int /\ c * v = w * b
    <3>1. v * y = y * v /\ b \in Int
      BY <1>12, <2>1
    <3>2. (w * y) * v = w * (y * v)
      BY <1>12, <1>13, <2>1
    <3>3. QED
      BY <3>1, <3>2 DEF c
  <2>5. Same(b, 1)
    BY <1>12, <2>3, <2>4 DEF Same, Congruent
  <2> HIDE DEF b
  <2> DEFINE one == 1
  <2>6. one \in Int /\ Same(b, one)
    BY <2>5
  <2> HIDE DEF one
  <2>7. Same(w * b, w * one)
    BY <1>13, <2>4, <2>6, SameScaled
  <2>8. w * one = w
    BY <1>13 DEF one
  <2>9. QED
    BY <2>1, <2>4, <2>7, <2>8 DEF Same, Congruent
<1>18. ASSUME NEW k \in 1 .. n, k # i PROVE Same(ValueOf(g, points[k]), 0)
  <2> DEFINE v == ValueOf(O, points[k])
             p == points[k]
             zero == 0
  <2>1. p \in Int
    BY <1>1
  <2>2. PICK j \in 1 .. l : r[j] = p
    BY <1>5, <1>18
  <2>3. Same(p - r[j], 0)
    <3> HIDE DEF p
    <3>1. p - r[j] = 0
      BY <2>1, <2>2
    <3>2. QED
      BY <3>1 DEF Same, Congruent
  <2>4. Same(ValueOf(O, p), 0)
    <3> HIDE DEF p
    <3>1. QED
      BY <1>7, <2>1, <2>3
  <2>5. v \in Int /\ Same(v, zero) /\ zero \in Int
    BY <1>8, <2>1, <2>4, ValueInt
  <2>6. Same(ValueOf(g, p), c * v)
    BY <1>16, <2>1
  <2> HIDE DEF v, p, zero
  <2>7. Same(c * v, c * zero)
    BY <1>14, <2>5, SameScaled
  <2>8. c * zero = 0
    BY <1>14 DEF zero
  <2>9. QED
    BY <2>6, <2>7, <2>8 DEF Same, Congruent, p
<1>19. QED
  BY <1>16, <1>17, <1>18 DEF g, w

(* Lagrange's polynomial takes the given values at the given points.       *)
LEMMA InterpolateIs ==
    ASSUME NEW n \in Nat, NEW points \in Seq(Int), Len(points) = n, Apart(n, points),
           NEW values, \A i \in 1 .. n : values[i] \in Int
    PROVE  /\ Interpolate(points, values) \in [Below(n) -> Fp]
           /\ \A k \in 1 .. n : Same(ValueOf(Interpolate(points, values), points[k]), values[k])
<1> DEFINE T == 1 .. n
           F == [i \in T |-> Term(points, values, i)]
           G(k) == [i \in T |-> F[i][k]]
           g == Interpolate(points, values)
<1>1. IsFiniteSet(T)
  BY FS_Interval
<1>2. \A i \in T : F[i] \in [Below(n) -> Fp] /\ F[i] = Term(points, values, i)
  BY TermIs
<1>3. \A i \in T : F[i] \in Polys(n)
  BY <1>2, FpPoly
<1>4. g = [k \in Below(n) |-> SumOf(G(k))]
  BY DEF Interpolate, Term, Others
<1>5. ASSUME NEW k \in Below(n)
      PROVE  g[k] \in Fp /\ Same(g[k], SumOn(T, G(k)))
  <2> DEFINE H == G(k)
             z == SumOn(T, H)
  <2>1. \A i \in T : H[i] \in Int
    BY <1>3 DEF Polys
  <2>2. g[k] = SumOf(H)
    BY <1>4
  <2>4. H = [i \in T |-> H[i]]
    OBVIOUS
  <2> HIDE DEF H, T, g
  <2>3. z \in Int
    BY <1>1, <2>1, SumStep
  <2>5. SumOf(H) = z % Prime
    BY <2>4 DEF SumOf, SumOn
  <2> HIDE DEF z
  <2>6. z % Prime \in Fp /\ Same(z % Prime, z)
    BY <2>3, SameIs
  <2>7. QED
    BY <2>2, <2>5, <2>6 DEF z, H
<1>6. g \in [Below(n) -> Fp] /\ g \in Polys(n)
  <2>1. g = [k \in Below(n) |-> g[k]]
    BY <1>4
  <2> HIDE DEF g
  <2>2. g \in [Below(n) -> Fp]
    BY <1>5, <2>1
  <2>3. QED
    BY <2>2, FpPoly
<1>7. PolySum(T, n, F, g)
  <2> HIDE DEF g, F, T
  <2>1. QED
    BY <1>3, <1>5 DEF PolySum
<1>8. ASSUME NEW k \in 1 .. n PROVE Same(ValueOf(g, points[k]), values[k])
  <2> DEFINE p == points[k]
             V == [i \in T |-> ValueOf(F[i], p)]
             W == [i \in T |-> IF i = k THEN values[k] ELSE 0]
  <2>1. p \in Int
    OBVIOUS
  <2>2. Same(ValueOf(g, p), SumOn(T, V))
    <3> HIDE DEF g, F, T, p
    <3>1. QED
      BY <1>1, <1>6, <1>7, <2>1, ValuesSum
  <2>3. \A i \in T : V[i] \in Int /\ W[i] \in Int /\ V[i] % Prime = W[i] % Prime
    <3> TAKE i \in T
    <3>1. V[i] = ValueOf(F[i], p) /\ V[i] \in Int
      <4>1. F[i] \in Polys(n)
        BY <1>3
      <4> HIDE DEF p, F
      <4>2. QED
        BY <2>1, <4>1, ValueInt
    <3>2. Same(V[i], W[i])
      <4>1. F[i] = Term(points, values, i)
        OBVIOUS
      <4>2. CASE i = k
        <5>1. Same(ValueOf(Term(points, values, k), p), values[k])
          BY TermIs
        <5>2. QED
          BY <3>1, <4>1, <4>2, <5>1
      <4>3. CASE i # k
        <5>1. Same(ValueOf(Term(points, values, i), p), 0)
          BY <4>3, TermIs
        <5>2. QED
          BY <3>1, <4>1, <4>3, <5>1
      <4>4. QED
        BY <4>2, <4>3
    <3>3. QED
      BY <3>1, <3>2 DEF Same, Congruent
  <2>4. k \in T /\ W[k] = values[k] /\ \A i \in T : W[i] \in Int /\ (i # k => W[i] = 0)
    OBVIOUS
  <2> HIDE DEF V, W, T, g
  <2>5. SumOn(T, V) % Prime = SumOn(T, W) % Prime
    BY <1>1, <2>3, FieldSize, SumMod
  <2>6. SumOn(T, W) = values[k]
    BY <1>1, <2>4, SumOne
  <2>7. QED
    BY <2>2, <2>5, <2>6 DEF Same, Congruent
<1>9. QED
  BY <1>6, <1>8
=============================================================================
