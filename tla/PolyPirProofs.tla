--------------------------- MODULE PolyPirProofs ----------------------------
(***************************************************************************)
(* PolyPir for every prime, degree, batch size, table and query: the guest *)
(* reads the values it asked for, or shares of them, and supported sizes   *)
(* never fault.                                                            *)
(* First what unzip does to a ciphertext, lane by lane; then what a        *)
(* block's answer is worth at the point of a row, what the keepers and     *)
(* their products are worth there, and the shares; then the inductive      *)
(* invariant IInv.                                                         *)
(***************************************************************************)
EXTENDS PolyPir, PolynomialProofs

-----------------------------------------------------------------------------
(* Lanes in the ring modulo x^N + 1.                                       *)

(* A sum of ring elements, term by term.                                   *)
LEMMA RingSumIs ==
    ASSUME NEW n \in Nat, NEW s, DOMAIN s = 1 .. n
    PROVE  \E P : /\ P[0] = Lift(<< >>)
                  /\ \A k \in 0 .. n - 1 : P[k + 1] = RingAdd(P[k], s[k + 1])
                  /\ RingSum(s) = P[n]
<1> DEFINE Folds(D, iter) == iter = [x \in SUBSET D |->
                          IF x = {} THEN Lift(<< >>)
                          ELSE RingAdd(iter[x \ {Max(x)}], s[Max(x)])]
           S == {k \in 0 .. n : \E iter : Folds(1 .. k, iter)}
<1>1. RingSum(s) = (CHOOSE iter : Folds(1 .. n, iter))[1 .. n]
  BY DEF RingSum, FoldLeft, MapThenFoldSet
<1>2. 0 \in S
  <2> DEFINE none == [x \in SUBSET (1 .. 0) |-> Lift(<< >>)]
  <2>1. \A x \in SUBSET (1 .. 0) : x = {}
    OBVIOUS
  <2>2. Folds(1 .. 0, none)
    BY <2>1
  <2>3. QED
    BY <2>2
<1>3. ASSUME NEW k \in 0 .. n - 1, k \in S
      PROVE  k + 1 \in S
  <2>1. PICK iter : Folds(1 .. k, iter)
    BY <1>3
  <2> DEFINE more == [x \in SUBSET (1 .. k + 1) |->
                        IF k + 1 \in x THEN RingAdd(iter[x \ {k + 1}], s[k + 1]) ELSE iter[x]]
  <2>2. ASSUME NEW x \in SUBSET (1 .. k + 1)
        PROVE  more[x] = IF x = {} THEN Lift(<< >>) ELSE RingAdd(more[x \ {Max(x)}], s[Max(x)])
    <3>1. CASE k + 1 \in x
      <4>1. Max(x) = k + 1 /\ x \ {k + 1} \in SUBSET (1 .. k)
        <5>1. k \in Nat
          OBVIOUS
        <5>2. QED
          BY <3>1, <5>1, LastOfAny
      <4>2. more[x \ {k + 1}] = iter[x \ {k + 1}]
        OBVIOUS
      <4>3. QED
        BY <3>1, <4>1, <4>2
    <3>2. CASE k + 1 \notin x
      <4>1. x \in SUBSET (1 .. k)
        BY <3>2
      <4>2. more[x] = iter[x]
        BY <3>2
      <4>3. x \ {Max(x)} \in SUBSET (1 .. k) /\ more[x \ {Max(x)}] = iter[x \ {Max(x)}]
        BY <3>2, <4>1
      <4>4. iter[x] = IF x = {} THEN Lift(<< >>) ELSE RingAdd(iter[x \ {Max(x)}], s[Max(x)])
        BY <2>1, <4>1
      <4>5. QED
        BY <4>2, <4>3, <4>4
    <3>3. QED
      BY <3>1, <3>2
  <2>3. Folds(1 .. k + 1, more)
    BY <2>2
  <2>4. k + 1 \in 0 .. n
    OBVIOUS
  <2>5. QED
    BY <2>3, <2>4
<1>4. n \in S
  <2> HIDE DEF S
  <2>1. \A k \in 0 .. n - 1 : k \in S => k + 1 \in S
    BY <1>3
  <2>2. \A k \in 0 .. n : k \in S
    BY <1>2, <2>1, InductionUpTo
  <2>3. QED
    BY <2>2
<1>5. PICK iter : Folds(1 .. n, iter) /\ RingSum(s) = iter[1 .. n]
  BY <1>1, <1>4
<1> DEFINE P == [k \in 0 .. n |-> iter[1 .. k]]
<1>6. P[0] = Lift(<< >>)
  <2>1. iter[{}] = Lift(<< >>)
    BY <1>5
  <2>2. 0 \in 0 .. n /\ 1 .. 0 = {}
    OBVIOUS
  <2> HIDE DEF Folds
  <2>3. QED
    BY <2>1, <2>2
<1>7. ASSUME NEW k \in 0 .. n - 1
      PROVE  P[k + 1] = RingAdd(P[k], s[k + 1])
  <2>1. k \in Nat /\ k + 1 \in 1 .. k + 1 /\ \A x \in 1 .. k + 1 : x \in 1 .. n
    OBVIOUS
  <2>2. Max(1 .. k + 1) = k + 1 /\ (1 .. k + 1) \ {k + 1} = 1 .. k
    BY <2>1, LastOfPrefix
  <2>3. iter[1 .. k + 1] = RingAdd(iter[1 .. k], s[k + 1])
    BY <1>5, <2>1, <2>2
  <2>4. QED
    BY <2>3
<1> HIDE DEF Folds
<1>8. RingSum(s) = P[n]
  BY <1>5
<1> HIDE DEF P
<1>9. QED
  BY <1>6, <1>7, <1>8

(* A lane of a polynomial that may be shorter than the ring.               *)
ShortLane(f, F, r, m) == [q \in Below(m) |-> At(f, q * F + r)]

(* A lane of a polynomial that may have fewer coefficients than the ring.  *)
LEMMA ShortLaneIs ==
    ASSUME NEW F \in Nat \ {0}, NEW m \in Nat, N = m * F, NEW r \in Below(F), NEW f,
           \A k \in DOMAIN f : f[k] \in Int
    PROVE  /\ ShortLane(f, F, r, m) \in Polys(m)
           /\ DOMAIN f = Ring => ShortLane(f, F, r, m) = Lane(f, F, r, m)
           /\ \A q \in Below(m) : q * F + r \in Ring
<1>1. \A k : At(f, k) \in Int
  BY DEF At
<1>2. ASSUME NEW q \in Below(m) PROVE q * F + r \in Ring
  BY StrideBelow DEF Ring
<1>3. ShortLane(f, F, r, m) \in Polys(m)
  BY <1>1 DEF ShortLane, Polys
<1>4. DOMAIN f = Ring => ShortLane(f, F, r, m) = Lane(f, F, r, m)
  BY <1>2 DEF ShortLane, Lane, At
<1>5. QED
  BY <1>2, <1>3, <1>4

(* Lanes of a sum and of a difference.                                     *)
LEMMA RingSumsLane ==
    ASSUME NEW F \in Nat \ {0}, NEW m \in Nat, N = m * F, NEW r \in Below(F), NEW x \in Int,
           NEW f, NEW g,
           \A k \in DOMAIN f : f[k] \in Int, \A k \in DOMAIN g : g[k] \in Int
    PROVE  /\ RingAdd(f, g) \in [Ring -> Fp] /\ RingSub(f, g) \in [Ring -> Fp]
           /\ Same(ValueOf(Lane(RingAdd(f, g), F, r, m), x),
                   ValueOf(ShortLane(f, F, r, m), x) + ValueOf(ShortLane(g, F, r, m), x))
           /\ Same(ValueOf(Lane(RingSub(f, g), F, r, m), x),
                   ValueOf(ShortLane(f, F, r, m), x) - ValueOf(ShortLane(g, F, r, m), x))
<1> DEFINE a == ShortLane(f, F, r, m)
           b == ShortLane(g, F, r, m)
           plus == [q \in Below(m) |-> 1 * a[q] + 1 * b[q]]
           minus == [q \in Below(m) |-> 1 * a[q] + (-1) * b[q]]
           u == ValueOf(a, x)
           v == ValueOf(b, x)
<1>1. (\A k : At(f, k) \in Int) /\ (\A k : At(g, k) \in Int)
  BY DEF At
<1>2. a \in Polys(m) /\ b \in Polys(m) /\ \A q \in Below(m) : q * F + r \in Ring
  BY ShortLaneIs
<1>3. ASSUME NEW k \in Ring
      PROVE  /\ RingAdd(f, g)[k] = (At(f, k) + At(g, k)) % Prime
             /\ RingSub(f, g)[k] = (At(f, k) - At(g, k)) % Prime
             /\ (At(f, k) + At(g, k)) % Prime \in Fp /\ (At(f, k) - At(g, k)) % Prime \in Fp
             /\ Same((At(f, k) + At(g, k)) % Prime, At(f, k) + At(g, k))
             /\ Same((At(f, k) - At(g, k)) % Prime, At(f, k) - At(g, k))
  <2> DEFINE y == At(f, k)
             z == At(g, k)
             p == y + z
             d == y - z
  <2>1. y \in Int /\ z \in Int
    BY <1>1
  <2>2. p \in Int /\ d \in Int /\ RingAdd(f, g)[k] = p % Prime /\ RingSub(f, g)[k] = d % Prime
    BY <2>1 DEF RingAdd, RingSub
  <2> HIDE DEF p, d
  <2>3. p % Prime \in Fp /\ Same(p % Prime, p) /\ d % Prime \in Fp /\ Same(d % Prime, d)
    BY <2>2, SameIs
  <2>4. QED
    BY <2>2, <2>3 DEF p, d
<1>4. RingAdd(f, g) \in [Ring -> Fp] /\ RingSub(f, g) \in [Ring -> Fp]
  BY <1>3 DEF RingAdd, RingSub
<1>5. /\ \A q \in Below(m) : a[q] \in Int /\ b[q] \in Int
      /\ plus \in Polys(m) /\ minus \in Polys(m)
  <2>1. \A q \in Below(m) : a[q] \in Int /\ b[q] \in Int
    BY <1>2 DEF Polys
  <2> HIDE DEF a, b
  <2>2. QED
    BY <2>1 DEF Polys
<1>6. /\ Lane(RingAdd(f, g), F, r, m) \in Polys(m) /\ Lane(RingSub(f, g), F, r, m) \in Polys(m)
      /\ \A q \in Below(m) : /\ Same(Lane(RingAdd(f, g), F, r, m)[q], plus[q])
                             /\ Same(Lane(RingSub(f, g), F, r, m)[q], minus[q])
  <2>1. ASSUME NEW q \in Below(m)
        PROVE  /\ Same(Lane(RingAdd(f, g), F, r, m)[q], plus[q])
               /\ Same(Lane(RingSub(f, g), F, r, m)[q], minus[q])
               /\ Lane(RingAdd(f, g), F, r, m)[q] \in Int /\ Lane(RingSub(f, g), F, r, m)[q] \in Int
    <3> DEFINE k == q * F + r
    <3>1. k \in Ring
      BY <1>2
    <3>2. Lane(RingAdd(f, g), F, r, m)[q] = RingAdd(f, g)[k] /\ Lane(RingSub(f, g), F, r, m)[q] = RingSub(f, g)[k]
      BY DEF Lane
    <3>3. a[q] = At(f, k) /\ b[q] = At(g, k)
      BY DEF ShortLane
    <3>4. plus[q] = 1 * a[q] + 1 * b[q] /\ minus[q] = 1 * a[q] + (-1) * b[q]
      OBVIOUS
    <3>5. a[q] \in Int /\ b[q] \in Int
      BY <1>5
    <3> HIDE DEF k, a, b, plus, minus
    <3>6. plus[q] = At(f, k) + At(g, k) /\ minus[q] = At(f, k) - At(g, k)
      BY <3>3, <3>4, <3>5
    <3>7. RingAdd(f, g)[k] \in Int /\ RingSub(f, g)[k] \in Int
      BY <1>4, <3>1, FpInt
    <3>8. QED
      BY <1>3, <3>1, <3>2, <3>6, <3>7
  <2>2. QED
    BY <2>1 DEF Lane, Polys
<1>7. ValueOf(plus, x) = u + v /\ ValueOf(minus, x) = u - v
  <2> DEFINE one == 1
             neg == -1
  <2>1. Combines(m, plus, one, a, one, b) /\ Combines(m, minus, one, a, neg, b)
    BY DEF Combines
  <2>2. one \in Int /\ neg \in Int /\ u \in Int /\ v \in Int
    <3> HIDE DEF a, b
    <3>1. QED
      BY <1>2, ValueInt
  <2>3. one * u = u /\ one * v = v /\ neg * v = -v /\ u + (-v) = u - v
    BY <2>2
  <2> HIDE DEF one, neg, plus, minus, a, b
  <2>4. ValueOf(plus, x) = one * ValueOf(a, x) + one * ValueOf(b, x)
    BY <1>2, <1>5, <2>1, <2>2, ValueAdds
  <2>5. ValueOf(minus, x) = one * ValueOf(a, x) + neg * ValueOf(b, x)
    BY <1>2, <1>5, <2>1, <2>2, ValueAdds
  <2>6. QED
    BY <2>3, <2>4, <2>5
<1> HIDE DEF plus, minus
<1>8. /\ Same(ValueOf(Lane(RingAdd(f, g), F, r, m), x), ValueOf(plus, x))
      /\ Same(ValueOf(Lane(RingSub(f, g), F, r, m), x), ValueOf(minus, x))
  BY <1>5, <1>6, ValueSame
<1>9. QED
  BY <1>4, <1>7, <1>8

(* A lane of the sum of a list: the accumulation loop of poly_reduce adds  *)
(* the values.                                                             *)
LEMMA RingSumLane ==
    ASSUME NEW F \in Nat \ {0}, NEW m \in Nat, N = m * F, NEW r \in Below(F), NEW x \in Int,
           NEW n \in Nat, NEW s, DOMAIN s = 1 .. n, \A i \in 1 .. n : s[i] \in [Ring -> Fp],
           NEW W, \A i \in 1 .. n : W[i] \in Int /\ Same(ValueOf(Lane(s[i], F, r, m), x), W[i])
    PROVE  /\ RingSum(s) \in [Ring -> Fp]
           /\ Same(ValueOf(Lane(RingSum(s), F, r, m), x), SumOn(1 .. n, W))
<1>1. PICK P : /\ P[0] = Lift(<< >>) /\ RingSum(s) = P[n]
               /\ \A k \in 0 .. n - 1 : P[k + 1] = RingAdd(P[k], s[k + 1])
  BY RingSumIs
<1> DEFINE Good(k) == Same(ValueOf(Lane(P[k], F, r, m), x), SumOn(1 .. k, W))
           A == {k \in 0 .. n : P[k] \in [Ring -> Fp] /\ Good(k)}
<1>2. \A k \in 0 .. n : IsFiniteSet(1 .. k) /\ \A i \in 1 .. k : W[i] \in Int
  <2> TAKE k \in 0 .. n
  <2>1. IsFiniteSet(1 .. k)
    BY FS_Interval
  <2>2. QED
    BY <2>1
<1>3. 0 \in A
  <2> DEFINE z == Lift(<< >>)
             lane == Lane(z, F, r, m)
             V == [k \in Below(m) |-> lane[k] * Power(x, k)]
  <2>1. z \in [Ring -> Fp] /\ \A k \in Ring : z[k] = 0
    BY FpInt DEF Lift, At
  <2>2. \A q \in Below(m) : q * F + r \in Ring
    BY StrideBelow DEF Ring
  <2>3. \A q \in Below(m) : lane[q] = 0
    <3> HIDE DEF z
    <3>1. QED
      BY <2>1, <2>2 DEF Lane
  <2>4. \A k \in Below(m) : V[k] = 0
    <3> TAKE k \in Below(m)
    <3>1. V[k] = lane[k] * Power(x, k) /\ k \in Nat
      BY BelowIs
    <3>2. lane[k] = 0 /\ Power(x, k) \in Int
      BY <2>3, <3>1, PowerIs
    <3> HIDE DEF V, lane
    <3>3. QED
      BY <3>1, <3>2
  <2>5. ValueOf(lane, x) = SumOn(Below(m), V)
    BY DEF ValueOf, Lane
  <2> HIDE DEF V
  <2>6. ValueOf(lane, x) = 0
    BY <2>4, <2>5, BelowIs, SumZero
  <2>7. SumOn(1 .. 0, W) = 0
    <3> DEFINE S == 1 .. 0
    <3>1. IsFiniteSet(S) /\ \A i \in S : W[i] = 0
      BY <1>2
    <3> HIDE DEF S
    <3>2. SumOn(S, W) = 0
      BY <3>1, SumZero
    <3>3. QED
      BY <3>2 DEF S
  <2>8. 0 \in 0 .. n
    OBVIOUS
  <2>9. QED
    BY <1>1, <2>1, <2>6, <2>7, <2>8 DEF Same, Congruent
<1>4. \A k \in 0 .. n - 1 : k \in A => k + 1 \in A
  <2> SUFFICES ASSUME NEW k \in 0 .. n - 1, k \in A PROVE k + 1 \in A
    OBVIOUS
  <2> DEFINE j == k + 1
             p == P[k]
             c == s[j]
             S == 1 .. k
             y == ValueOf(Lane(p, F, r, m), x)
             z == ValueOf(Lane(c, F, r, m), x)
             w == W[j]
             t == SumOn(S, W)
  <2>1. j \in 1 .. n /\ j \in 0 .. n /\ k \in 0 .. n /\ P[j] = RingAdd(p, c) /\ c \in [Ring -> Fp]
        /\ p \in [Ring -> Fp] /\ Same(y, t) /\ w \in Int /\ Same(z, w)
    BY <1>1
  <2>2. /\ DOMAIN p = Ring /\ \A e \in DOMAIN p : p[e] \in Int
        /\ DOMAIN c = Ring /\ \A e \in DOMAIN c : c[e] \in Int
    <3> HIDE DEF p, c
    <3>1. QED
      BY <2>1, FpInt
  <2>3. y \in Int /\ z \in Int
    <3> HIDE DEF p, c
    <3>1. Lane(p, F, r, m) \in Polys(m) /\ Lane(c, F, r, m) \in Polys(m)
      BY <2>2, ShortLaneIs
    <3>2. QED
      BY <3>1, ValueInt
  <2>4. RingAdd(p, c) \in [Ring -> Fp] /\ Same(ValueOf(Lane(RingAdd(p, c), F, r, m), x), y + z)
    <3> HIDE DEF p, c
    <3>1. ShortLane(p, F, r, m) = Lane(p, F, r, m) /\ ShortLane(c, F, r, m) = Lane(c, F, r, m)
      BY <2>2, ShortLaneIs
    <3>2. RingAdd(p, c) \in [Ring -> Fp]
          /\ Same(ValueOf(Lane(RingAdd(p, c), F, r, m), x),
                  ValueOf(ShortLane(p, F, r, m), x) + ValueOf(ShortLane(c, F, r, m), x))
      BY <2>2, RingSumsLane
    <3>3. QED
      BY <3>1, <3>2
  <2>5. t \in Int /\ SumOn(1 .. j, W) = w + t
    <3>1. IsFiniteSet(S) /\ j \notin S /\ 1 .. j = S \cup {j} /\ \A i \in S : W[i] \in Int
      BY <1>2, <2>1
    <3>2. W[j] \in Int
      BY <2>1
    <3> HIDE DEF S, j
    <3>3. SumOn(S \cup {j}, W) = W[j] + SumOn(S, W)
      BY <3>1, <3>2, SumAdds
    <3>4. SumOn(S, W) \in Int
      BY <3>1, SumStep
    <3>5. QED
      BY <3>1, <3>3, <3>4 DEF w, t
  <2> HIDE DEF A, p, c, y, z, w, t, j, Good
  <2>6. Same(y + z, t + w)
    BY <2>1, <2>3, <2>5, SameArithmetic
  <2>7. t + w = w + t
    BY <2>1, <2>5
  <2>8. Same(ValueOf(Lane(P[j], F, r, m), x), SumOn(1 .. j, W))
    BY <2>1, <2>4, <2>5, <2>6, <2>7 DEF Same, Congruent
  <2>9. j \in A
    BY <2>1, <2>4, <2>8 DEF A, Good
  <2>10. QED
    BY <2>9 DEF j
<1>5. n \in A
  <2> HIDE DEF A
  <2>1. \A k \in 0 .. n : k \in A
    BY <1>3, <1>4, InductionUpTo
  <2>2. QED
    BY <2>1
<1>6. QED
  BY <1>1, <1>5

-----------------------------------------------------------------------------
(* unzip of seal_helper.h.                                                 *)

(* Coefficients at multiples of s only.                                    *)
Spaced(c, s) == c \in [Ring -> Fp] /\ \A k \in Ring : k % s # 0 => c[k] = 0

(* The ring has a power of two coefficients.                               *)
LEMMA RingIs ==
    /\ N \in Nat \ {0} /\ \E m \in 0 .. 30 : N = Two(m)
    /\ \A k : k \in Ring <=> k \in Nat /\ k < N
<1>1. PICK i \in 1 .. 15 : N = 2^i
  BY PolynomialAssumption
<1>2. i \in 0 .. 30 /\ N = Two(i)
  BY <1>1 DEF Two
<1>3. N \in Nat \ {0}
  BY <1>2, TwoIs
<1>4. QED
  BY <1>2, <1>3 DEF Ring, Below

(* An odd number permutes the residues modulo N.                           *)
LEMMA OddPermutes ==
    ASSUME NEW e \in Int, NEW d \in Int, e = 2 * d + 1
    PROVE  /\ \A k \in Ring : \E i \in Ring : (i * e) % N = k
           /\ \A i, j \in Ring : (i * e) % N = (j * e) % N => i = j
<1>0. N \in Nat \ {0} /\ \A k : k \in Ring <=> k \in Nat /\ k < N
  BY RingIs
<1>1. PICK y, q \in Int : e * y = 1 + N * q
  <2>1. PICK m \in 0 .. 30 : N = Two(m)
    BY RingIs
  <2>2. \E y, q \in Int : e * y = 1 + Two(m) * q
    BY OddInverse
  <2>3. QED
    BY <2>1, <2>2
<1>2. ASSUME NEW k \in Ring PROVE \E i \in Ring : (i * e) % N = k
  <2> DEFINE x == k * y
             i == x % N
             u == x \div N
  <2>1. k \in Int /\ x \in Int /\ k \in 0 .. N - 1
    BY <1>0
  <2> HIDE DEF x
  <2>2. x = N * u + i /\ i \in 0 .. N - 1 /\ u \in Int
    BY <1>0, <2>1, DivMod
  <2> HIDE DEF i, u
  <2>3. i * e = k + N * (k * q - u * e)
    <3>1. i = k * y - N * u /\ N * u \in Int /\ i \in Int
      BY <2>1, <2>2, <1>0 DEF x
    <3>2. i * e = (k * y) * e - (N * u) * e
      BY <2>1, <3>1
    <3>3. (k * y) * e = k * (e * y) /\ (N * u) * e = N * (u * e)
      BY <1>0, <2>1, <2>2
    <3>4. k * (1 + N * q) = k + N * (k * q)
      BY <1>0, <2>1
    <3>5. N * (k * q) - N * (u * e) = N * (k * q - u * e)
      BY <1>0, <2>1, <2>2
    <3>6. N * (k * q) \in Int /\ N * (u * e) \in Int
      BY <1>0, <2>1, <2>2
    <3>7. QED
      BY <1>1, <2>1, <3>2, <3>3, <3>4, <3>5, <3>6
  <2> DEFINE z == k * q - u * e
             w == i * e
  <2>4. z \in Int /\ w \in Int /\ w = N * z + k
    <3>1. k * q \in Int /\ u * e \in Int
      BY <2>1, <2>2
    <3>2. z \in Int
      BY <3>1
    <3>3. N * z \in Int /\ i \in Int
      BY <1>0, <2>2, <3>2
    <3>4. QED
      BY <1>0, <2>1, <2>3, <3>2, <3>3
  <2> HIDE DEF z, w
  <2>5. w % N = k
    BY <1>0, <2>1, <2>4, ModUnique
  <2>6. i \in Ring
    BY <1>0, <2>2
  <2>7. QED
    BY <2>5, <2>6 DEF w
<1>3. ASSUME NEW i \in Ring, NEW j \in Ring, (i * e) % N = (j * e) % N
      PROVE  i = j
  <2> DEFINE a == i * e
             b == j * e
             f == i - j
  <2>1. i \in Int /\ j \in Int /\ a \in Int /\ b \in Int /\ f \in Int /\ a % N = b % N
    BY <1>0, <1>3
  <2>2. PICK z \in Int : a = b + N * z
    <3> HIDE DEF a, b
    <3>1. QED
      BY <1>0, <2>1, SameRemainder
  <2>3. f * e = N * z
    <3>1. f * e = i * e - j * e
      BY <2>1
    <3>2. N * z \in Int
      BY <1>0
    <3>3. QED
      BY <2>1, <2>2, <3>1, <3>2
  <2> HIDE DEF f
  <2>4. f = N * (z * y - f * q)
    <3>1. (f * e) * y = f * (e * y)
      BY <2>1
    <3>2. f * (1 + N * q) = f + N * (f * q)
      BY <1>0, <2>1
    <3>3. (N * z) * y = N * (z * y)
      BY <1>0
    <3>4. N * (z * y) - N * (f * q) = N * (z * y - f * q) /\ N * (z * y) \in Int /\ N * (f * q) \in Int
      BY <1>0, <2>1
    <3>5. QED
      BY <1>1, <2>1, <2>3, <3>1, <3>2, <3>3, <3>4
  <2> DEFINE w == z * y - f * q
  <2>5. w \in Int
    <3>1. z * y \in Int /\ f * q \in Int
      BY <2>1
    <3>2. QED
      BY <3>1
  <2>6. f = N * w
    BY <2>4
  <2> HIDE DEF w
  <2>7. -N < N * w /\ N * w < N
    BY <1>0, <2>6 DEF f
  <2>8. w = 0
    BY <1>0, <2>5, <2>7, SmallMultiple
  <2>9. f = 0
    BY <1>0, <2>6, <2>8
  <2>10. QED
    BY <2>1, <2>9 DEF f
<1>4. QED
  BY <1>2, <1>3

(* At the multiples of s, x -> x^(1 + N / s) fixes the place and changes   *)
(* the sign of every second one.                                           *)
LEMMA MultiplesFixed ==
    ASSUME NEW s \in Nat \ {0}, NEW t \in Nat \ {0}, N = s * t, NEW i \in Ring, i % s = 0
    PROVE  /\ (i * (1 + t)) % N = i
           /\ (i * (1 + t)) % (2 * N) = IF (i \div s) % 2 = 0 THEN i ELSE i + N
<1>0. N \in Nat \ {0} /\ i \in Nat /\ i \in 0 .. N - 1
  BY RingIs
<1> DEFINE w == i \div s
           x == i * (1 + t)
           two == 2 * N
           v == w \div 2
           p == w % 2
<1>1. i = s * w /\ w \in Int
  BY <1>0, DivMod
<1> HIDE DEF w
<1>2. i * t = N * w
  BY <1>0, <1>1
<1>3. x = N * w + i /\ x \in Int
  <2>1. x = i + i * t
    BY <1>0
  <2>2. N * w \in Int
    BY <1>0, <1>1
  <2>3. QED
    BY <1>0, <1>2, <2>1, <2>2
<1> HIDE DEF x
<1>4. x % N = i
  BY <1>0, <1>1, <1>3, ModUnique
<1>5. w = 2 * v + p /\ v \in Int /\ p \in 0 .. 1
  BY <1>1
<1>6. N * w = two * v + N * p
  <2>1. N * (2 * v + p) = N * (2 * v) + N * p /\ N * (2 * v) = two * v
    BY <1>0, <1>5
  <2>2. QED
    BY <1>5, <2>1
<1>7. two \in Nat \ {0} /\ two = N + N
  BY <1>0
<1>8. CASE p = 0
  <2>1. x = two * v + i /\ i \in 0 .. two - 1
    <3>1. N * p = 0
      BY <1>0, <1>8
    <3> HIDE DEF two, v, p
    <3>2. two * v \in Int
      BY <1>5, <1>7
    <3>3. QED
      BY <1>0, <1>3, <1>6, <1>7, <3>1, <3>2
  <2> HIDE DEF two, v, p
  <2>4. two \in Nat \ {0} /\ v \in Int
    BY <1>5, <1>7
  <2>5. x \in Int
    BY <1>3
  <2>2. x % two = i
    BY <2>1, <2>4, <2>5, ModUnique
  <2>3. QED
    BY <1>4, <1>8, <2>2 DEF x, two, p, w
<1>9. CASE p = 1
  <2> DEFINE z == i + N
  <2>1. x = two * v + z /\ z \in 0 .. two - 1
    <3>1. N * p = N
      BY <1>0, <1>9
    <3> HIDE DEF two, v, p
    <3>2. two * v \in Int
      BY <1>5, <1>7
    <3>3. QED
      BY <1>0, <1>3, <1>6, <1>7, <3>1, <3>2
  <2> HIDE DEF two, v, p, z
  <2>4. two \in Nat \ {0} /\ v \in Int
    BY <1>5, <1>7
  <2>5. x \in Int
    BY <1>3
  <2>2. x % two = z
    BY <2>1, <2>4, <2>5, ModUnique
  <2>3. QED
    BY <1>4, <1>9, <2>2 DEF x, two, p, w, z
<1>10. QED
  BY <1>5, <1>8, <1>9

(* apply_galois with the element that unzip uses keeps every other         *)
(* coefficient of a polynomial in x^s and negates the rest.                *)
LEMMA GaloisIs ==
    ASSUME NEW s \in Nat \ {0}, NEW h \in Nat \ {0}, N = s * (2 * h), NEW c, Spaced(c, s)
    PROVE  /\ Galois(c, 1 + 2 * h) \in [Ring -> Fp]
           /\ \A k \in Ring : k % s # 0 => Galois(c, 1 + 2 * h)[k] = 0
           /\ \A k \in Ring : k % s = 0 =>
                 Galois(c, 1 + 2 * h)[k] = IF (k \div s) % 2 = 0 THEN c[k] ELSE (-c[k]) % Prime
<1> DEFINE t == 2 * h
           e == 1 + t
           At1(k) == CHOOSE j \in Ring : (j * e) % N = k
<1>0. N \in Nat \ {0} /\ (\A k : k \in Ring <=> k \in Nat /\ k < N) /\ c \in [Ring -> Fp]
  BY RingIs DEF Spaced
<1>1. t \in Nat \ {0} /\ e \in Int /\ N = s * t /\ e = 2 * h + 1 /\ h \in Int
  OBVIOUS
<1>2. ASSUME NEW k \in Ring PROVE At1(k) \in Ring /\ (At1(k) * e) % N = k
  <2>1. \E i \in Ring : (i * e) % N = k
    <3> HIDE DEF e
    <3>1. QED
      BY <1>1, OddPermutes
  <2>2. QED
    BY <2>1
<1>3. ASSUME NEW i \in Ring, i % s = 0
      PROVE  (i * e) % N = i /\ (i * e) % (2 * N) = IF (i \div s) % 2 = 0 THEN i ELSE i + N
  <2>1. /\ (i * (1 + t)) % N = i
        /\ (i * (1 + t)) % (2 * N) = IF (i \div s) % 2 = 0 THEN i ELSE i + N
    <3> HIDE DEF t
    <3>1. QED
      BY <1>1, <1>3, MultiplesFixed
  <2>2. QED
    BY <2>1
<1>4. ASSUME NEW k \in Ring
      PROVE  Galois(c, e)[k] = Signed(c[At1(k)], (At1(k) * e) % (2 * N) >= N) % Prime
  BY DEF Galois
<1> HIDE DEF t, e, At1
<1>5. ASSUME NEW k \in Ring PROVE Galois(c, e)[k] \in Fp
  <2> DEFINE y == Signed(c[At1(k)], (At1(k) * e) % (2 * N) >= N)
  <2>1. c[At1(k)] \in Int
    BY <1>0, <1>2, FpInt
  <2>2. y \in Int
    BY <2>1 DEF Signed
  <2> HIDE DEF y
  <2>3. y % Prime \in Fp
    BY <2>2, SameIs
  <2>4. QED
    BY <1>4, <2>3 DEF y
<1>6. DOMAIN Galois(c, e) = Ring /\ Galois(c, e) = [k \in Ring |-> Galois(c, e)[k]]
  BY DEF Galois
<1>7. ASSUME NEW k \in Ring, k % s # 0 PROVE Galois(c, e)[k] = 0
  <2>1. At1(k) % s # 0
    BY <1>2, <1>3, <1>7
  <2>2. c[At1(k)] = 0
    BY <1>2, <2>1 DEF Spaced
  <2>8. ASSUME NEW z \in Int, z = 0 PROVE Signed(z, (At1(k) * e) % (2 * N) >= N) = z
    <3> DEFINE y == -z
    <3>1. y \in Int /\ z + y = 0
      OBVIOUS
    <3> HIDE DEF y
    <3>2. y = 0
      BY <2>8, <3>1
    <3>3. QED
      BY <2>8, <3>2 DEF y, Signed
  <2>3. Signed(0, (At1(k) * e) % (2 * N) >= N) = 0
    BY <2>8
  <2>4. 0 % Prime = 0
    BY FpInt, SameIs
  <2>5. QED
    BY <1>4, <2>2, <2>3, <2>4
<1>8. ASSUME NEW k \in Ring, k % s = 0
      PROVE  Galois(c, e)[k] = IF (k \div s) % 2 = 0 THEN c[k] ELSE (-c[k]) % Prime
  <2>1. At1(k) = k
    <3>1. (k * e) % N = (At1(k) * e) % N
      BY <1>2, <1>3, <1>8
    <3>2. QED
      BY <1>1, <1>2, <3>1, OddPermutes
  <2>2. (k * e) % (2 * N) >= N <=> ~ ((k \div s) % 2 = 0)
    <3>1. k < N /\ k + N >= N /\ k \in Int
      BY <1>0
    <3>2. QED
      BY <1>0, <1>3, <1>8, <3>1
  <2>3. c[k] % Prime = c[k]
    BY <1>0, FpInt, SameIs
  <2>4. QED
    BY <1>4, <2>1, <2>2, <2>3 DEF Signed
<1>9. Galois(c, e) \in [Ring -> Fp]
  BY <1>5, <1>6
<1>10. QED
  BY <1>7, <1>8, <1>9 DEF e, t

(* Multiples of 2 s, and those of s between them.                          *)
LEMMA Doubled ==
    ASSUME NEW s \in Nat \ {0}, NEW k \in Int
    PROVE  /\ k % (2 * s) = 0 <=> k % s = 0 /\ (k \div s) % 2 = 0
           /\ k % (2 * s) = s <=> k % s = 0 /\ (k \div s) % 2 # 0
           /\ (k + s) % (2 * s) = s <=> k % (2 * s) = 0
<1> DEFINE q == k \div s
           r == k % s
           u == q \div 2
           v == q % 2
           m == 2 * s
           w == s * v + r
<1>1. k = s * q + r /\ r \in 0 .. s - 1 /\ q \in Int
  BY DivMod
<1> HIDE DEF q, r
<1>2. q = 2 * u + v /\ v \in {0, 1} /\ u \in Int
  BY <1>1
<1> HIDE DEF u, v
<1>3. w \in 0 .. m - 1 /\ m \in Nat \ {0} /\ w \in Int
  BY <1>1, <1>2
<1>4. s * q = m * u + s * v
  <2>1. s * (2 * u + v) = (2 * s) * u + s * v
    BY <1>2
  <2>2. QED
    BY <1>2, <2>1
<1>5. k = m * u + w
  BY <1>1, <1>2, <1>4
<1>6. w = 0 <=> r = 0 /\ v = 0
  BY <1>1, <1>2
<1>7. w = s <=> r = 0 /\ v # 0
  BY <1>1, <1>2
<1> HIDE DEF w
<1>8. k % m = w
  <2> HIDE DEF m
  <2>1. QED
    BY <1>2, <1>3, <1>5, ModUnique
<1>9. (k + s) % m = s <=> k % m = 0
  <2> DEFINE j == k + s
  <2>1. j \in Int /\ s \in 0 .. m - 1 /\ 0 \in 0 .. m - 1
    OBVIOUS
  <2>2. ASSUME w = 0 PROVE j % m = s
    <3>1. j = m * u + s
      BY <1>2, <1>3, <1>5, <2>2
    <3> HIDE DEF j, m
    <3>2. QED
      BY <1>2, <1>3, <2>1, <3>1, ModUnique
  <2>3. ASSUME j % m = s PROVE w = 0
    <3> DEFINE z == j \div m
    <3>1. j = m * z + (j % m) /\ z \in Int
      <4>1. m \in Nat \ {0} /\ j \in Int
        OBVIOUS
      <4> HIDE DEF j, m
      <4>2. QED
        BY <4>1, DivMod
    <3> HIDE DEF z
    <3>2. k = m * z + 0
      <4> DEFINE y == m * z
      <4>1. y \in Int /\ j = y + s
        BY <2>3, <3>1, <1>3
      <4> HIDE DEF y
      <4>2. k = y + 0
        BY <4>1
      <4>3. QED
        BY <4>2 DEF y
    <3> HIDE DEF m
    <3>3. k % m = 0
      BY <1>3, <2>1, <3>1, <3>2, ModUnique
    <3>4. QED
      BY <1>8, <3>3
  <2>4. QED
    BY <1>8, <2>2, <2>3
<1>10. QED
  BY <1>6, <1>7, <1>8, <1>9 DEF m, r, v, q

(* s goes into N an even number of times. *)
Splits(s, h) == N = s * (2 * h)

(* What one level of unzip makes of a ciphertext, in its two halves.       *)
EvenPart(c, s) == RingAdd(c, Galois(c, 1 + (N \div s)))
OddPart(c, s) ==
    RingMul([k \in {N - s} |-> Prime - 1], RingSub(c, Galois(c, 1 + (N \div s))))

(* One level of unzip: the coefficients at even and at odd multiples of s. *)
LEMMA GaloisHere ==
    ASSUME NEW s \in Nat \ {0}, NEW h \in Nat \ {0}, Splits(s, h), NEW c, Spaced(c, s)
    PROVE  /\ Galois(c, 1 + (N \div s)) \in [Ring -> Fp]
           /\ \A k \in Ring : c[k] \in Int
           /\ \A k \in Ring : k % s # 0 => Galois(c, 1 + (N \div s))[k] = 0 /\ c[k] = 0
           /\ \A k \in Ring : k % (2 * s) = 0 => Galois(c, 1 + (N \div s))[k] = c[k]
           /\ \A k \in Ring : k % (2 * s) = s => Galois(c, 1 + (N \div s))[k] = (-c[k]) % Prime
<1> DEFINE t == 2 * h
<1>1. N \div s = t
  <2>1. t \in Int /\ N \in Int /\ N = s * t + 0 /\ 0 \in 0 .. s - 1
    BY RingIs DEF Splits
  <2> HIDE DEF t
  <2>2. QED
    BY <2>1, DivUnique
<1>2. 1 + (N \div s) = 1 + 2 * h
  BY <1>1
<1>3. \A k \in Ring : k \in Int
  BY RingIs
<1>4. \A k \in Ring : c[k] \in Int
  BY FpInt DEF Spaced
<1>5. \A k \in Ring : k % s # 0 => c[k] = 0
  BY DEF Spaced
<1> HIDE DEF t
<1>0. N = s * (2 * h)
  BY DEF Splits
<1>6. /\ Galois(c, 1 + 2 * h) \in [Ring -> Fp]
      /\ \A k \in Ring : k % s # 0 => Galois(c, 1 + 2 * h)[k] = 0
      /\ \A k \in Ring : k % s = 0 =>
                 Galois(c, 1 + 2 * h)[k] = IF (k \div s) % 2 = 0 THEN c[k] ELSE (-c[k]) % Prime
  BY <1>0, GaloisIs
<1>7. ASSUME NEW k \in Ring, k % (2 * s) = 0 PROVE Galois(c, 1 + 2 * h)[k] = c[k]
  <2>1. k % s = 0 /\ (k \div s) % 2 = 0
    BY <1>3, <1>7, Doubled
  <2>2. QED
    BY <1>6, <2>1
<1>8. ASSUME NEW k \in Ring, k % (2 * s) = s PROVE Galois(c, 1 + 2 * h)[k] = (-c[k]) % Prime
  <2>1. k % s = 0 /\ (k \div s) % 2 # 0
    BY <1>3, <1>8, Doubled
  <2>2. QED
    BY <1>6, <2>1
<1>9. QED
  BY <1>2, <1>4, <1>5, <1>6, <1>7, <1>8

(* The sum of a polynomial and its image has the even coefficients,        *)
(* doubled.                                                                *)
LEMMA EvenIs ==
    ASSUME NEW s \in Nat \ {0}, NEW h \in Nat \ {0}, Splits(s, h), NEW c, Spaced(c, s)
    PROVE  EvenPart(c, s) = [k \in Ring |-> IF k % (2 * s) = 0 THEN (2 * c[k]) % Prime ELSE 0]
<1> DEFINE g == Galois(c, 1 + (N \div s))
<1>1. /\ g \in [Ring -> Fp]
      /\ \A k \in Ring : c[k] \in Int
      /\ \A k \in Ring : k % s # 0 => g[k] = 0 /\ c[k] = 0
      /\ \A k \in Ring : k % (2 * s) = 0 => g[k] = c[k]
      /\ \A k \in Ring : k % (2 * s) = s => g[k] = (-c[k]) % Prime
  BY GaloisHere
<1>2. EvenPart(c, s) = RingAdd(c, g)
  BY DEF EvenPart
<1> HIDE DEF g
<1>3. c \in [Ring -> Fp]
  BY DEF Spaced
<1>4. EvenPart(c, s) = [k \in Ring |-> (c[k] + g[k]) % Prime]
  BY <1>1, <1>2, <1>3 DEF RingAdd, At
<1>5. 0 % Prime = 0
  BY FpInt, SameIs
<1>6. ASSUME NEW k \in Ring
      PROVE  (c[k] + g[k]) % Prime = IF k % (2 * s) = 0 THEN (2 * c[k]) % Prime ELSE 0
  <2>1. CASE k % (2 * s) = 0
    <3>1. c[k] + g[k] = 2 * c[k]
      BY <1>1, <2>1
    <3>2. QED
      BY <2>1, <3>1
  <2>2. CASE k % (2 * s) = s
    <3> DEFINE a == c[k]
               b == -a
    <3>1. a \in Int /\ b \in Int /\ a + b = 0 /\ g[k] = b % Prime
      BY <1>1, <2>2
    <3> HIDE DEF a, b
    <3>2. (a + (b % Prime)) % Prime = (a + b) % Prime
      BY <3>1, FieldSize, InnerRemainder
    <3>3. (a + g[k]) % Prime = 0
      BY <3>1, <3>2, <1>5
    <3>4. QED
      BY <2>2, <3>3 DEF a
  <2>3. CASE k % s # 0
    <3>1. c[k] = 0 /\ g[k] = 0
      BY <1>1, <2>3
    <3>2. k % (2 * s) # 0
      BY <2>3, RingIs, Doubled
    <3>3. QED
      BY <1>5, <3>1, <3>2
  <2>4. QED
    <3>1. k \in Int
      BY RingIs
    <3>2. k % (2 * s) = 0 \/ k % (2 * s) = s \/ k % s # 0
      BY <3>1, Doubled
    <3>3. QED
      BY <2>1, <2>2, <2>3, <3>2
<1>7. QED
  BY <1>4, <1>6

(* Multiplication by -x^(N - s) moves the coefficients down by s.          *)
LEMMA ShiftDown ==
    ASSUME NEW s \in 1 .. N, NEW d \in [Ring -> Fp], \A k \in Ring : k < s => d[k] = 0
    PROVE  \A k \in Ring : RingMul([i \in {N - s} |-> Prime - 1], d)[k]
                             = IF k + s \in Ring THEN d[k + s] ELSE 0
<1>0. N \in Nat \ {0} /\ \A k : k \in Ring <=> k \in Nat /\ k < N
  BY RingIs
<1> DEFINE n == N - s
           m == Prime - 1
           f == [i \in {n} |-> m]
<1>1. n \in 0 .. N - 1 /\ n \in Int /\ n + s = N
  BY <1>0
<1>2. m \in Int /\ m + 1 = Prime
  BY FieldSize
<1> HIDE DEF n, m
<1>3. ASSUME NEW k \in Ring
      PROVE  RingMul(f, d)[k] = IF k + s \in Ring THEN d[k + s] ELSE 0
  <2> DEFINE j == (k - n) % N
             W == [i \in DOMAIN f |-> Signed(f[i] * At(d, (k - i) % N), i > k)]
  <2>1. RingMul(f, d)[k] = SumOf(W)
    BY DEF RingMul
  <2>2. DOMAIN f = {n} /\ f[n] = m
    OBVIOUS
  <2>3. j \in Ring
    <3> DEFINE x == k - n
    <3>1. x \in Int
      BY <1>0, <1>1
    <3> HIDE DEF x
    <3>2. x % N \in 0 .. N - 1
      BY <1>0, <3>1, DivMod
    <3>3. QED
      BY <1>0, <3>2 DEF x
  <2>4. At(d, j) = d[j] /\ d[j] \in Int
    BY <2>3, FpInt DEF At
  <2> DEFINE y == Signed(m * d[j], n > k)
  <2>5. W[n] = y
    BY <2>2, <2>4
  <2>6. y \in Int
    BY <1>2, <2>4 DEF Signed
  <2>7. SumOf(W) = y % Prime
    <3> DEFINE T == {n}
               V == [i \in T |-> y]
    <3>1. W = V
      BY <2>2, <2>5
    <3>2. SumFunction(V) = SumOn(T, V)
      BY DEF SumOn
    <3>3. IsFiniteSet(T) /\ n \in T /\ \A i \in T : V[i] \in Int
      BY <2>6, FS_Singleton
    <3>4. \A i \in T : n # i => V[i] = 0
      OBVIOUS
    <3>5. V[n] = y
      OBVIOUS
    <3> HIDE DEF W, V, T, y
    <3>6. SumOn(T, V) = V[n]
      BY <3>3, <3>4, SumOne
    <3>7. QED
      BY <3>1, <3>2, <3>5, <3>6 DEF SumOf
  <2> HIDE DEF W, j
  <2>8. CASE k + s \in Ring
    <3>1. k - n = N * (-1) + (k + s) /\ k + s \in 0 .. N - 1 /\ k < n /\ k - n \in Int
      BY <1>0, <1>1, <2>8
    <3>2. j = k + s
      <4> DEFINE x == k - n
                 w == k + s
                 o == -1
      <4>1. x = N * o + w /\ w \in 0 .. N - 1 /\ x \in Int /\ o \in Int
        BY <3>1
      <4>2. w \in 0 .. N - 1 /\ N \in Nat \ {0}
        BY <1>0, <4>1
      <4> HIDE DEF x, w, o
      <4>3. x % N = w
        BY <4>1, <4>2, ModUnique
      <4>4. QED
        BY <4>3 DEF j, x, w
    <3> DEFINE c == d[j]
               b == -(m * c)
    <3>3. c \in Int /\ c \in Fp
      BY <2>3, <2>4
    <3>4. y = b
      BY <1>0, <1>1, <3>1 DEF Signed
    <3> HIDE DEF c, y
    <3>5. b = c + Prime * (-c)
      <4>1. (m + 1) * c = m * c + c /\ (m + 1) * c = Prime * c /\ m * c \in Int
        BY <1>2, <3>3
      <4>2. Prime * (-c) = -(Prime * c) /\ Prime * c \in Int
        BY <3>3, FieldSize
      <4>3. QED
        BY <3>3, <4>1, <4>2
    <3>6. b \in Int /\ -c \in Int
      BY <1>2, <3>3
    <3> HIDE DEF b
    <3>7. b % Prime = c % Prime
      BY <3>3, <3>5, <3>6, FieldSize, SameRemainder
    <3>8. c % Prime = c
      BY <3>3, SameIs
    <3>9. QED
      BY <2>1, <2>7, <2>8, <3>2, <3>4, <3>7, <3>8 DEF c
  <2>9. CASE k + s \notin Ring
    <3>1. k - n = N * 0 + (k - n) /\ k - n \in 0 .. N - 1 /\ ~ (n > k) /\ k - n < s /\ k - n \in Int
      BY <1>0, <1>1, <2>9
    <3>2. j = k - n
      <4> DEFINE x == k - n
      <4>1. x = N * 0 + x /\ x \in 0 .. N - 1 /\ x \in Int
        BY <3>1
      <4>2. x \in 0 .. N - 1 /\ N \in Nat \ {0}
        BY <1>0, <4>1
      <4> HIDE DEF x
      <4>3. x % N = x
        BY <4>2, ModOfSmall
      <4>4. QED
        BY <4>3 DEF j, x
    <3>3. d[j] = 0
      BY <2>3, <3>1, <3>2
    <3>4. m * 0 = 0
      BY <1>2
    <3>5. y = 0
      BY <3>1, <3>3, <3>4 DEF Signed
    <3>6. 0 % Prime = 0
      BY FpInt, SameIs
    <3> HIDE DEF y
    <3>7. QED
      BY <2>1, <2>7, <2>9, <3>5, <3>6
  <2>10. QED
    BY <2>8, <2>9
<1>4. QED
  BY <1>3 DEF n, m

(* A multiple of 2 s below N is more than s below it.                      *)
LEMMA RoomAbove ==
    ASSUME NEW s \in Nat \ {0}, NEW h \in Nat \ {0}, Splits(s, h), NEW k \in Ring, k % (2 * s) = 0
    PROVE  k + s \in Ring
<1> SUFFICES ASSUME k + s \notin Ring PROVE FALSE
  OBVIOUS
<1> DEFINE m == 2 * s
           u == k \div m
<1>1. m \in Nat \ {0} /\ N = s * (2 * h) /\ k < N /\ k + s >= N /\ k \in Int /\ k % m = 0
  BY RingIs DEF Splits
<1>2. s * (2 * h) = m * h
  OBVIOUS
<1>3. k = m * u /\ u \in Int
  <2> HIDE DEF m
  <2>1. k = m * u + (k % m) /\ u \in Int
    BY <1>1, DivMod
  <2>2. m * u \in Int
    BY <1>1, <2>1
  <2>3. QED
    BY <1>1, <2>1, <2>2
<1> HIDE DEF u
<1>4. m * (h - u) = m * h - m * u /\ m * h \in Int /\ m * u \in Int
  BY <1>3
<1>5. 0 < m * (h - u) /\ m * (h - u) < m
  <2>1. s < m
    OBVIOUS
  <2>2. m * (h - u) = N - k
    BY <1>1, <1>2, <1>3, <1>4
  <2>3. QED
    BY <1>1, <2>1, <2>2
<1> DEFINE z == h - u
<1>6. z \in Int /\ -m < m * z /\ m * z < m
  <2>1. z \in Int /\ -m < 0
    BY <1>3
  <2>2. m * z \in Int /\ m \in Int
    BY <2>1
  <2> HIDE DEF z
  <2>3. QED
    BY <1>5, <2>1, <2>2 DEF z
<1> HIDE DEF z, m
<1>7. z = 0
  BY <1>1, <1>6, SmallMultiple
<1>8. m * 0 = 0
  BY <1>1
<1>9. QED
  BY <1>5, <1>7, <1>8 DEF z

(* The difference, moved down, has the odd ones, doubled.                  *)
LEMMA OddIs ==
    ASSUME NEW s \in Nat \ {0}, NEW h \in Nat \ {0}, Splits(s, h), NEW c, Spaced(c, s)
    PROVE  OddPart(c, s) = [k \in Ring |-> IF k % (2 * s) = 0 THEN (2 * c[k + s]) % Prime ELSE 0]
<1> DEFINE g == Galois(c, 1 + (N \div s))
           d == RingSub(c, g)
<1>1. /\ g \in [Ring -> Fp]
      /\ \A k \in Ring : c[k] \in Int
      /\ \A k \in Ring : k % s # 0 => g[k] = 0 /\ c[k] = 0
      /\ \A k \in Ring : k % (2 * s) = 0 => g[k] = c[k]
      /\ \A k \in Ring : k % (2 * s) = s => g[k] = (-c[k]) % Prime
  BY GaloisHere
<1>2. OddPart(c, s) = RingMul([k \in {N - s} |-> Prime - 1], d)
  BY DEF OddPart
<1> HIDE DEF g
<1>3. c \in [Ring -> Fp]
  BY DEF Spaced
<1>4. d = [k \in Ring |-> (c[k] - g[k]) % Prime]
  BY <1>1, <1>3 DEF RingSub, At
<1> HIDE DEF d
<1>5. 0 % Prime = 0
  BY FpInt, SameIs
<1>6. ASSUME NEW k \in Ring
      PROVE  (c[k] - g[k]) % Prime = IF k % (2 * s) = s THEN (2 * c[k]) % Prime ELSE 0
  <2>0. s # 0
    OBVIOUS
  <2>1. CASE k % (2 * s) = 0
    <3>1. c[k] - g[k] = 0
      BY <1>1, <2>1
    <3>2. QED
      BY <1>5, <2>0, <2>1, <3>1
  <2>2. CASE k % (2 * s) = s
    <3> DEFINE a == c[k]
               b == -a
    <3>1. a \in Int /\ b \in Int /\ a - b = 2 * a /\ g[k] = b % Prime
      BY <1>1, <2>2
    <3> HIDE DEF a, b
    <3>2. (a - (b % Prime)) % Prime = (a - b) % Prime
      BY <3>1, FieldSize, InnerRemainder
    <3>3. (a - g[k]) % Prime = (2 * a) % Prime
      BY <3>1, <3>2
    <3>4. QED
      BY <2>2, <3>3 DEF a
  <2>3. CASE k % s # 0
    <3>1. c[k] = 0 /\ g[k] = 0
      BY <1>1, <2>3
    <3>2. k % (2 * s) # s
      BY <2>3, RingIs, Doubled
    <3>3. QED
      BY <1>5, <3>1, <3>2
  <2>4. QED
    <3>1. k \in Int
      BY RingIs
    <3>2. k % (2 * s) = 0 \/ k % (2 * s) = s \/ k % s # 0
      BY <3>1, Doubled
    <3>3. QED
      BY <2>1, <2>2, <2>3, <3>2
<1>7. d \in [Ring -> Fp]
  <2>1. \A k \in Ring : (c[k] - g[k]) % Prime \in Fp
    <3> TAKE k \in Ring
    <3> DEFINE a == c[k] - g[k]
    <3>1. c[k] \in Int /\ g[k] \in Int
      BY <1>1, FpInt
    <3>2. a \in Int
      BY <3>1
    <3> HIDE DEF a
    <3>3. a % Prime \in Fp
      BY <3>2, SameIs
    <3>4. QED
      BY <3>3 DEF a
  <2>2. QED
    BY <1>4, <2>1
<1>8. s \in 1 .. N
  <2>1. N \in Nat \ {0} /\ s * (2 * h) = N
    BY RingIs DEF Splits
  <2>2. s * (2 * h) = s + s * (2 * h - 1) /\ s * (2 * h - 1) >= 0
    OBVIOUS
  <2>3. s * (2 * h - 1) \in Int
    OBVIOUS
  <2>4. QED
    BY <2>1, <2>2, <2>3
<1>9. ASSUME NEW k \in Ring, k < s PROVE d[k] = 0
  <2>1. k \in 0 .. 2 * s - 1 /\ 2 * s \in Nat \ {0} /\ k # s
    BY <1>9, RingIs
  <2> DEFINE m == 2 * s
  <2> HIDE DEF m
  <2>2. k % m = k
    BY <2>1, ModOfSmall DEF m
  <2>3. k % (2 * s) # s
    BY <2>1, <2>2 DEF m
  <2>4. QED
    BY <1>4, <1>6, <2>3
<1>10. ASSUME NEW k \in Ring
       PROVE  (IF k + s \in Ring THEN d[k + s] ELSE 0)
                = IF k % (2 * s) = 0 THEN (2 * c[k + s]) % Prime ELSE 0
  <2>0. k \in Int
    BY RingIs
  <2>1. (k + s) % (2 * s) = s <=> k % (2 * s) = 0
    BY <2>0, Doubled
  <2>2. CASE k + s \in Ring
    <3>1. d[k + s] = IF (k + s) % (2 * s) = s THEN (2 * c[k + s]) % Prime ELSE 0
      BY <1>4, <1>6, <2>2
    <3>2. QED
      BY <2>1, <2>2, <3>1
  <2>3. CASE k + s \notin Ring
    <3>1. k % (2 * s) # 0
      BY <2>3, RoomAbove
    <3>2. QED
      BY <2>3, <3>1
  <2>4. QED
    BY <2>2, <2>3
<1>11. \A k \in Ring : OddPart(c, s)[k] = IF k + s \in Ring THEN d[k + s] ELSE 0
  BY <1>2, <1>7, <1>8, <1>9, ShiftDown
<1>12. OddPart(c, s) = [k \in Ring |-> OddPart(c, s)[k]]
  BY DEF OddPart, RingMul
<1>13. \A k \in Ring : OddPart(c, s)[k] = IF k % (2 * s) = 0 THEN (2 * c[k + s]) % Prime ELSE 0
  BY <1>10, <1>11
<1>14. QED
  BY <1>12, <1>13

(* The levels of unzip as a fold over any list.                            *)
Start(c) == <<c>>
HalvesFold(c, s) == FoldLeft(Halves, <<c>>, s)

(* A list of ciphertexts, halved once for every spacing of a list.          *)
LEMMA UnzipFolds ==
    ASSUME NEW n \in Nat, NEW s, DOMAIN s = 1 .. n, NEW c
    PROVE  \E P : /\ P[0] = Start(c)
                  /\ \A k \in 0 .. n - 1 : P[k + 1] = Halves(P[k], s[k + 1])
                  /\ HalvesFold(c, s) = P[n]
<1> DEFINE Folds(D, iter) == iter = [x \in SUBSET D |->
                          IF x = {} THEN Start(c)
                          ELSE Halves(iter[x \ {Max(x)}], s[Max(x)])]
           S == {k \in 0 .. n : \E iter : Folds(1 .. k, iter)}
<1>1. HalvesFold(c, s) = (CHOOSE iter : Folds(1 .. n, iter))[1 .. n]
  BY DEF HalvesFold, Start, FoldLeft, MapThenFoldSet
<1>2. 0 \in S
  <2> DEFINE none == [x \in SUBSET (1 .. 0) |-> Start(c)]
  <2>1. \A x \in SUBSET (1 .. 0) : x = {}
    OBVIOUS
  <2>2. Folds(1 .. 0, none)
    BY <2>1
  <2>3. QED
    BY <2>2
<1>3. ASSUME NEW k \in 0 .. n - 1, k \in S
      PROVE  k + 1 \in S
  <2>1. PICK iter : Folds(1 .. k, iter)
    BY <1>3
  <2> DEFINE more == [x \in SUBSET (1 .. k + 1) |->
                        IF k + 1 \in x THEN Halves(iter[x \ {k + 1}], s[k + 1]) ELSE iter[x]]
  <2>2. ASSUME NEW x \in SUBSET (1 .. k + 1)
        PROVE  more[x] = IF x = {} THEN Start(c) ELSE Halves(more[x \ {Max(x)}], s[Max(x)])
    <3>1. CASE k + 1 \in x
      <4>1. Max(x) = k + 1 /\ x \ {k + 1} \in SUBSET (1 .. k)
        <5>1. k \in Nat
          OBVIOUS
        <5>2. QED
          BY <3>1, <5>1, LastOfAny
      <4>2. more[x \ {k + 1}] = iter[x \ {k + 1}]
        OBVIOUS
      <4>3. QED
        BY <3>1, <4>1, <4>2
    <3>2. CASE k + 1 \notin x
      <4>1. x \in SUBSET (1 .. k)
        BY <3>2
      <4>2. more[x] = iter[x]
        BY <3>2
      <4>3. x \ {Max(x)} \in SUBSET (1 .. k) /\ more[x \ {Max(x)}] = iter[x \ {Max(x)}]
        BY <3>2, <4>1
      <4>4. iter[x] = IF x = {} THEN Start(c) ELSE Halves(iter[x \ {Max(x)}], s[Max(x)])
        BY <2>1, <4>1
      <4>5. QED
        BY <4>2, <4>3, <4>4
    <3>3. QED
      BY <3>1, <3>2
  <2>3. Folds(1 .. k + 1, more)
    BY <2>2
  <2>4. k + 1 \in 0 .. n
    OBVIOUS
  <2>5. QED
    BY <2>3, <2>4
<1>4. n \in S
  <2> HIDE DEF S
  <2>1. \A k \in 0 .. n - 1 : k \in S => k + 1 \in S
    BY <1>3
  <2>2. \A k \in 0 .. n : k \in S
    BY <1>2, <2>1, InductionUpTo
  <2>3. QED
    BY <2>2
<1>5. PICK iter : Folds(1 .. n, iter) /\ HalvesFold(c, s) = iter[1 .. n]
  BY <1>1, <1>4
<1> DEFINE P == [k \in 0 .. n |-> iter[1 .. k]]
<1>6. P[0] = Start(c)
  <2>1. iter[{}] = Start(c)
    BY <1>5
  <2>2. 0 \in 0 .. n /\ 1 .. 0 = {}
    OBVIOUS
  <2> HIDE DEF Folds
  <2>3. QED
    BY <2>1, <2>2
<1>7. ASSUME NEW k \in 0 .. n - 1
      PROVE  P[k + 1] = Halves(P[k], s[k + 1])
  <2>1. k \in Nat /\ k + 1 \in 1 .. k + 1 /\ \A x \in 1 .. k + 1 : x \in 1 .. n
    OBVIOUS
  <2>2. Max(1 .. k + 1) = k + 1 /\ (1 .. k + 1) \ {k + 1} = 1 .. k
    BY <2>1, LastOfPrefix
  <2>3. iter[1 .. k + 1] = Halves(iter[1 .. k], s[k + 1])
    BY <1>5, <2>1, <2>2
  <2>4. QED
    BY <2>3
<1> HIDE DEF Folds
<1>8. HalvesFold(c, s) = P[n]
  BY <1>5
<1> HIDE DEF P
<1>9. QED
  BY <1>6, <1>7, <1>8

(* A list of n elements.                                                   *)
IsList(cs, n) == \E D : cs \in [1 .. n -> D]

(* One level of unzip: all even parts, then all odd parts.                 *)
LEMMA HalvesIs ==
    ASSUME NEW s, NEW n \in Nat, NEW cs, IsList(cs, n)
    PROVE  /\ DOMAIN Halves(cs, s) = 1 .. 2 * n
           /\ \A i \in 1 .. n : Halves(cs, s)[i] = EvenPart(cs[i], s)
           /\ \A i \in 1 .. n : Halves(cs, s)[i + n] = OddPart(cs[i], s)
<1>1. Len(cs) = n
  BY DEF IsList
<1> DEFINE m == 2 * n
           g(c) == Galois(c, 1 + (N \div s))
<1>2. Halves(cs, s) = [i \in 1 .. m |->
            IF i <= n THEN EvenPart(cs[i], s) ELSE OddPart(cs[i - n], s)]
  BY <1>1 DEF Halves, EvenPart, OddPart
<1>3. \A i \in 1 .. n : i \in 1 .. m /\ i <= n /\ i + n \in 1 .. m /\ ~ (i + n <= n) /\ (i + n) - n = i
  OBVIOUS
<1> HIDE DEF m
<1>4. QED
  BY <1>2, <1>3 DEF m

(* The power of two of a sum.                                              *)
LEMMA TwoSum ==
    ASSUME NEW i \in 0 .. 30, NEW j \in Nat, i + j <= 30
    PROVE  Two(i + j) = Two(i) * Two(j)
<1> DEFINE S == {k \in 0 .. j : Two(i + k) = Two(i) * Two(k)}
           a == Two(i)
<1>1. a \in Nat \ {0}
  BY TwoIs
<1>2. 0 \in S
  BY <1>1, TwoIs
<1>3. ASSUME NEW k \in 0 .. j - 1, k \in S PROVE k + 1 \in S
  <2> DEFINE b == Two(k)
             l == i + k
  <2>1. k \in 0 .. 29 /\ k \in 0 .. 30 /\ l \in 0 .. 29 /\ k + 1 \in 0 .. j /\ i + (k + 1) = l + 1
    OBVIOUS
  <2>2. b \in Nat \ {0} /\ Two(k + 1) = 2 * b
    BY <2>1, TwoIs
  <2> HIDE DEF l
  <2>3. Two(l + 1) = 2 * Two(l)
    BY <2>1, TwoIs
  <2>4. Two(l) = a * b
    BY <1>3 DEF l
  <2> HIDE DEF a, b
  <2>5. 2 * (a * b) = a * (2 * b)
    BY <1>1, <2>2
  <2>6. Two(i + (k + 1)) = a * Two(k + 1)
    BY <2>1, <2>2, <2>3, <2>4, <2>5
  <2>7. QED
    BY <2>1, <2>6 DEF a
<1>4. j \in S
  <2> HIDE DEF S
  <2>1. \A k \in 0 .. j - 1 : k \in S => k + 1 \in S
    BY <1>3
  <2>2. \A k \in 0 .. j : k \in S
    BY <1>2, <2>1, InductionUpTo
  <2>3. QED
    BY <2>2
<1>5. QED
  BY <1>4

(* Every level below the last divides the ring.                            *)
LEMMA SplitsAt ==
    ASSUME NEW m \in 0 .. 30, N = Two(m), NEW l \in 0 .. m - 1
    PROVE  /\ \E b \in Nat \ {0} : Splits(Two(l), b)
           /\ \A k \in Ring : k % Two(l) = 0 => \A i \in 1 .. Two(l) : k + i - 1 \in Ring
<1> DEFINE j == m - l - 1
           h == Two(j)
           a == Two(l)
<1>1. j \in 0 .. 29 /\ j \in 0 .. 30 /\ l \in 0 .. 30 /\ j + 1 \in Nat /\ m = l + (j + 1) /\ l + (j + 1) <= 30
  OBVIOUS
<1>2. h \in Nat \ {0} /\ Two(j + 1) = 2 * h /\ a \in Nat \ {0}
  BY <1>1, TwoIs
<1> HIDE DEF j
<1>3. Two(l + (j + 1)) = Two(l) * Two(j + 1)
  BY <1>1, TwoSum
<1>4. N = a * (2 * h)
  BY <1>1, <1>2, <1>3
<1>5. Splits(a, h)
  BY <1>4 DEF Splits
<1>6. ASSUME NEW k \in Ring, k % a = 0, NEW i \in 1 .. a PROVE k + i - 1 \in Ring
  <2> DEFINE b == 2 * h
             q == k \div a
             i0 == i - 1
             x == q * a + i0
  <2> HIDE DEF a, h
  <2>1. b \in Nat \ {0} /\ b * a = N /\ k \in Int /\ \A z : z \in Ring <=> z \in Below(N)
    <3>1. b \in Nat \ {0} /\ b * a = a * b
      BY <1>2
    <3>2. QED
      BY <1>4, <3>1, RingIs DEF Ring
  <2>2. i0 \in Below(a) /\ i0 \in Int
    BY <1>2 DEF Below
  <2>3. k \in Below(b * a)
    BY <2>1
  <2> HIDE DEF b, i0
  <2>4. q \in Below(b) /\ k = q * a + (k % a)
    BY <1>2, <2>1, <2>3, StrideIndex
  <2> HIDE DEF q
  <2>5. x \in Below(b * a)
    BY <1>2, <2>1, <2>2, <2>4, StrideBelow
  <2>6. q * a = k
    <3> DEFINE y == q * a
    <3>1. q \in Int
      BY <2>4, BelowIs, <2>1
    <3>2. y \in Int
      BY <1>2, <3>1
    <3> HIDE DEF y
    <3>3. k = y + 0
      BY <1>6, <2>4 DEF y
    <3>4. y = k
      BY <3>2, <3>3
    <3>5. QED
      BY <3>4 DEF y
  <2>7. x = k + i - 1
    BY <2>1, <2>2, <2>6 DEF i0
  <2>8. QED
    BY <2>1, <2>5, <2>7
<1>7. \E b \in Nat \ {0} : Splits(Two(l), b)
  BY <1>2, <1>5
<1>8. \A k \in Ring : k % a = 0 => \A i \in 1 .. a : k + i - 1 \in Ring
  BY <1>6
<1>9. QED
  BY <1>7, <1>8

(* What a ciphertext holds after a list of halvings: every L-th coefficient *)
(* from the i-th, L times.                                                 *)
Part(c, L, i) == [k \in Ring |-> IF k % L = 0 THEN (L * c[k + i - 1]) % Prime ELSE 0]

(* A level further, a part has become two: the even half is the part of    *)
(* the same number, the odd half the one Two(l) further.                   *)
LEMMA PartSplits ==
    ASSUME NEW m \in 0 .. 30, N = Two(m), NEW l \in 0 .. m - 1,
           NEW c \in [Ring -> Fp], NEW i \in 1 .. Two(l)
    PROVE  /\ Part(c, Two(l), i) \in [Ring -> Fp]
           /\ EvenPart(Part(c, Two(l), i), Two(l)) = Part(c, 2 * Two(l), i)
           /\ OddPart(Part(c, Two(l), i), Two(l)) = Part(c, 2 * Two(l), i + Two(l))
<1> DEFINE s == Two(l)
           d == Part(c, s, i)
           t == 2 * s
<1>1. s \in Nat \ {0} /\ t \in Nat \ {0}
  BY TwoIs
<1>2. PICK h \in Nat \ {0} : Splits(s, h)
  BY SplitsAt
<1>3. \A k \in Ring : k % s = 0 => \A j \in 1 .. s : k + j - 1 \in Ring
  BY SplitsAt
<1>4. i \in 1 .. s /\ i \in Int
  BY <1>1
<1> HIDE DEF s
<1>5. ASSUME NEW k \in Ring, k % s = 0
      PROVE  c[k + i - 1] \in Int /\ (s * c[k + i - 1]) % Prime \in Fp
  <2> DEFINE j == k + i - 1
             x == s * c[j]
  <2>1. j \in Ring
    BY <1>3, <1>4, <1>5
  <2>2. c[j] \in Int
    BY <2>1, FpInt
  <2>3. x \in Int
    BY <1>1, <2>2
  <2> HIDE DEF x
  <2>4. x % Prime \in Fp
    BY <2>3, SameIs
  <2>5. QED
    BY <2>2, <2>4 DEF x
<1>6. d \in [Ring -> Fp]
  <2>1. 0 \in Fp
    BY FpInt
  <2>2. QED
    BY <1>5, <2>1 DEF Part
<1>7. Spaced(d, s)
  BY <1>6 DEF Spaced, Part
<1>8. ASSUME NEW x \in Int PROVE (2 * ((s * x) % Prime)) % Prime = (t * x) % Prime
  <2> DEFINE y == s * x
             z == t * x
             two == 2
  <2>1. y \in Int /\ z = two * y /\ two \in Int
    BY <1>1
  <2> HIDE DEF y, z, two
  <2>2. (two * (y % Prime)) % Prime = (two * y) % Prime
    BY <2>1, FieldSize, InnerRemainder
  <2>3. QED
    BY <2>1, <2>2 DEF y, z, two
<1>9. \A k \in Ring : k % t = 0 => k % s = 0
  BY <1>1, RingIs, Doubled
<1>10. EvenPart(d, s) = Part(c, t, i)
  <2>1. EvenPart(d, s) = [k \in Ring |-> IF k % t = 0 THEN (2 * d[k]) % Prime ELSE 0]
    BY <1>1, <1>2, <1>7, EvenIs
  <2>2. ASSUME NEW k \in Ring, k % t = 0
        PROVE  (2 * d[k]) % Prime = (t * c[k + i - 1]) % Prime
    <3>1. k % s = 0
      BY <1>9, <2>2
    <3>2. d[k] = (s * c[k + i - 1]) % Prime
      BY <3>1 DEF Part
    <3>3. QED
      BY <1>5, <1>8, <3>1, <3>2
  <2> HIDE DEF t, d
  <2>3. QED
    BY <2>1, <2>2 DEF Part
<1>11. OddPart(d, s) = Part(c, t, i + s)
  <2>1. OddPart(d, s) = [k \in Ring |-> IF k % t = 0 THEN (2 * d[k + s]) % Prime ELSE 0]
    BY <1>1, <1>2, <1>7, OddIs
  <2>2. ASSUME NEW k \in Ring, k % t = 0
        PROVE  (2 * d[k + s]) % Prime = (t * c[k + (i + s) - 1]) % Prime
    <3> DEFINE j == k + s
    <3>0. k \in Int
      BY RingIs
    <3>1. j \in Ring
      BY <1>1, <1>2, <2>2, RoomAbove
    <3>2. j % s = 0
      <4>1. j % t = s
        BY <1>1, <2>2, <3>0, Doubled
      <4>2. j \in Int
        BY <1>1, <3>0
      <4> HIDE DEF j
      <4>3. QED
        BY <1>1, <4>1, <4>2, Doubled
    <3>3. k + (i + s) - 1 = j + i - 1
      BY <1>1, <1>4, <3>0
    <3> HIDE DEF j
    <3>4. d[j] = (s * c[j + i - 1]) % Prime
      BY <3>1, <3>2 DEF Part
    <3>5. (2 * d[j]) % Prime = (t * c[j + i - 1]) % Prime
      BY <1>5, <1>8, <3>1, <3>2, <3>4
    <3>6. QED
      BY <3>3, <3>5 DEF j
  <2> HIDE DEF t, d
  <2>3. QED
    BY <2>1, <2>2 DEF Part
<1>12. QED
  BY <1>6, <1>10, <1>11 DEF s

(* There are finitely many levels.                                         *)
LEMMA SmallFinite == IsFiniteSet(0 .. 30)
<1> DEFINE a == 0
           b == 30
<1>1. a \in Int /\ b \in Int
  OBVIOUS
<1> HIDE DEF a, b
<1>2. IsFiniteSet(a .. b)
  BY <1>1, FS_Interval
<1>3. QED
  BY <1>2 DEF a, b

(* unzip (seal_helper.h) as a whole: the i-th ciphertext has the           *)
(* coefficients i, i + factor, ... at the multiples of factor, multiplied  *)
(* by factor.                                                              *)
THEOREM UnzipIs ==
    ASSUME NEW m \in 0 .. 30, N = Two(m), NEW n \in 0 .. m - 1, factor = Two(n), NEW c \in [Ring -> Fp]
    PROVE  unzip(c) = [i \in 1 .. factor |-> Part(c, factor, i)]
<1> DEFINE S == {k \in 0 .. 30 : 2^k >= factor}
<1>1. n \in 0 .. 30 /\ n \in Nat
  OBVIOUS
<1>2. Min(S) = n
  <2>1. n \in S /\ \A k \in S : n <= k
    <3>1. \A k \in 0 .. 30 : Two(k) \in Nat
      BY TwoIs
    <3>2. \A k \in 0 .. 30 : k < n => Two(k) < Two(n)
      BY <1>1, TwoRises
    <3>3. \A k \in 0 .. 30 : k \in S <=> Two(k) >= Two(n)
      BY DEF Two
    <3> HIDE DEF S
    <3>4. n \in S
      BY <1>1, <3>1, <3>3
    <3>5. ASSUME NEW k \in S PROVE n <= k
      <4>1. k \in 0 .. 30
        BY <3>5 DEF S
      <4>2. Two(k) >= Two(n) /\ Two(k) \in Nat /\ Two(n) \in Nat
        BY <1>1, <3>1, <3>3, <3>5, <4>1
      <4>3. QED
        BY <1>1, <3>2, <4>1, <4>2
    <3>6. QED
      BY <3>4, <3>5
  <2>2. S \in SUBSET Nat /\ IsFiniteSet(S) /\ S # {}
    <3>1. S \subseteq 0 .. 30 /\ S \in SUBSET Nat
      OBVIOUS
    <3>3. IsFiniteSet(0 .. 30)
      BY SmallFinite
    <3>2. QED
      BY <2>1, <3>1, <3>3, FS_Subset
  <2> HIDE DEF S
  <2>3. Min(S) \in S /\ \A y \in S : Min(S) <= y
    BY <2>2, MinIn
  <2> DEFINE x == Min(S)
  <2>4. x \in Nat /\ n <= x /\ x <= n
    BY <2>1, <2>2, <2>3
  <2> HIDE DEF x
  <2>5. QED
    BY <1>1, <2>4 DEF x
<1> DEFINE s == Sparsities
<1>3. s = [l \in 1 .. n |-> 2^(l - 1)]
  BY <1>2 DEF Sparsities
<1>11. DOMAIN s = 1 .. n
  BY <1>3
<1>4. \A l \in 0 .. n - 1 : s[l + 1] = Two(l)
  <2>1. \A l \in 0 .. n - 1 : l + 1 \in 1 .. n /\ (l + 1) - 1 = l
    OBVIOUS
  <2>2. QED
    BY <1>3, <2>1 DEF Two
<1>5. unzip(c) = HalvesFold(c, s)
  BY DEF unzip, HalvesFold
<1> HIDE DEF s, S
<1>6. PICK P : /\ P[0] = Start(c)
               /\ \A k \in 0 .. n - 1 : P[k + 1] = Halves(P[k], s[k + 1])
               /\ HalvesFold(c, s) = P[n]
  BY <1>1, <1>11, UnzipFolds
<1> DEFINE Parts(l) == [i \in 1 .. Two(l) |-> Part(c, Two(l), i)]
           G == {l \in 0 .. n : P[l] = Parts(l)}
<1>7. 0 \in G
  <2>1. Two(0) = 1
    BY TwoIs
  <2>2. Part(c, 1, 1) = c
    <3>1. \A k \in Ring : k % 1 = 0 /\ k + 1 - 1 = k
      BY RingIs
    <3>2. \A k \in Ring : (1 * c[k]) % Prime = c[k]
      <4> TAKE k \in Ring
      <4>1. c[k] \in Int /\ c[k] \in Fp
        BY FpInt
      <4>2. 1 * c[k] = c[k]
        BY <4>1
      <4>3. QED
        BY <4>1, <4>2, SameIs
    <3>3. QED
      BY <3>1, <3>2 DEF Part
  <2>3. Parts(0) = [i \in 1 .. 1 |-> Part(c, 1, i)]
    BY <2>1
  <2>4. [i \in 1 .. 1 |-> Part(c, 1, i)] = Start(c)
    BY <2>2 DEF Start
  <2>5. P[0] = Parts(0)
    <3> HIDE DEF Parts
    <3>1. QED
      BY <1>6, <2>3, <2>4
  <2>6. 0 \in 0 .. n
    BY <1>1
  <2> HIDE DEF Parts
  <2>7. QED
    BY <2>5, <2>6
<1>8. ASSUME NEW l \in 0 .. n - 1, l \in G PROVE l + 1 \in G
  <2> DEFINE t == Two(l)
             D == [Ring -> Fp]
             cs == Parts(l)
             u == Two(l + 1)
             new == Halves(cs, t)
  <2>1. l \in 0 .. m - 1 /\ l \in 0 .. 30 /\ l \in 0 .. 29 /\ l + 1 \in 0 .. n
    OBVIOUS
  <2>11. t \in Nat
    BY <2>1, TwoIs
  <2>2. t \in Nat /\ u = 2 * t
    BY <2>1, TwoIs
  <2>3. \A i \in 1 .. t : /\ Part(c, t, i) \in D
                          /\ EvenPart(Part(c, t, i), t) = Part(c, 2 * t, i)
                          /\ OddPart(Part(c, t, i), t) = Part(c, 2 * t, i + t)
    BY <2>1, PartSplits
  <2>4. cs \in [1 .. t -> D] /\ \A i \in 1 .. t : cs[i] = Part(c, t, i)
    BY <2>3
  <2>5. P[l + 1] = new
    BY <1>4, <1>6, <1>8
  <2>12. IsList(cs, t)
    BY <2>4 DEF IsList
  <2> HIDE DEF cs, t, u, D
  <2>6. /\ DOMAIN new = 1 .. 2 * t
        /\ \A i \in 1 .. t : new[i] = EvenPart(cs[i], t)
        /\ \A i \in 1 .. t : new[i + t] = OddPart(cs[i], t)
    BY <2>11, <2>12, HalvesIs
  <2>7. new = [i \in 1 .. 2 * t |-> new[i]]
    BY <2>6 DEF Halves
  <2> HIDE DEF new
  <2>8. ASSUME NEW i \in 1 .. u PROVE new[i] = Part(c, u, i)
    <3>1. CASE i <= t
      <4>1. i \in 1 .. t
        BY <2>2, <2>8, <3>1
      <4>2. QED
        BY <2>2, <2>3, <2>4, <2>6, <4>1
    <3>2. CASE i > t
      <4>1. i - t \in 1 .. t /\ (i - t) + t = i
        BY <2>2, <2>8, <3>2
      <4> DEFINE j == i - t
      <4> HIDE DEF j
      <4>2. new[j + t] = Part(c, 2 * t, j + t)
        BY <2>3, <2>4, <2>6, <4>1 DEF j
      <4>3. QED
        BY <2>2, <4>1, <4>2 DEF j
    <3>3. QED
      BY <2>2, <2>8, <3>1, <3>2
  <2>9. new = [i \in 1 .. u |-> Part(c, u, i)]
    BY <2>2, <2>7, <2>8
  <2>10. QED
    BY <2>1, <2>5, <2>9 DEF u
<1>9. n \in G
  <2> HIDE DEF G
  <2>1. \A k \in 0 .. n - 1 : k \in G => k + 1 \in G
    BY <1>8
  <2>2. \A k \in 0 .. n : k \in G
    BY <1>1, <1>7, <2>1, InductionUpTo
  <2>3. QED
    BY <1>1, <2>2
<1>10. QED
  BY <1>5, <1>6, <1>9

-----------------------------------------------------------------------------
(* Packing and unpacking the powers.                                       *)

(* n lists of L elements, and their elements in a row.                     *)
EqualLists(seqs, n, L, D) == seqs \in [1 .. n -> [1 .. L -> D]]
Flattening(seqs, L, k) == seqs[1 + ((k - 1) \div L)][1 + ((k - 1) % L)]

(* Where an element is in the row.                                         *)
LEMMA SizesAdd ==
    ASSUME NEW L \in Nat \ {0}, NEW v \in Nat \ {0}
    PROVE  /\ (v - 1) * L \in Nat /\ v * L \in Nat /\ v * L = (v - 1) * L + L
           /\ \A k \in 1 .. L :
                 /\ (((v - 1) * L + k) - 1) \div L = v - 1
                 /\ (((v - 1) * L + k) - 1) % L = k - 1
<1> DEFINE b == (v - 1) * L
<1>1. b \in Nat /\ v * L = b + L /\ b = L * (v - 1) /\ v - 1 \in Int
  OBVIOUS
<1>2. ASSUME NEW k \in 1 .. L PROVE ((b + k) - 1) \div L = v - 1 /\ ((b + k) - 1) % L = k - 1
  <2> DEFINE x == (b + k) - 1
             q == v - 1
             y == k - 1
  <2>1. y \in 0 .. L - 1 /\ q \in Int
    OBVIOUS
  <2>2. x = b + y
    BY <1>1
  <2>3. x \in Int /\ x = L * q + y
    BY <1>1, <2>1, <2>2
  <2> HIDE DEF x, q, y
  <2>4. x \div L = q
    BY <2>1, <2>3, DivUnique
  <2>5. x % L = y
    BY <2>1, <2>3, ModUnique
  <2>6. QED
    BY <2>4, <2>5 DEF x, q, y
<1> HIDE DEF b
<1>3. QED
  BY <1>1, <1>2 DEF b

(* FlattenSeq of lists of one length puts them in a row.                   *)
LEMMA FlatIs ==
    ASSUME NEW n \in Nat \ {0}, NEW L \in Nat \ {0}, NEW D, NEW seqs, EqualLists(seqs, n, L, D)
    PROVE  FlattenSeq(seqs) = [k \in 1 .. n * L |-> Flattening(seqs, L, k)]
<1> DEFINE Flatten(F) == F = [i \in 1 .. n |-> IF i = 1 THEN seqs[i] ELSE F[i - 1] \o seqs[i]]
           Closed == [v \in 1 .. n |-> [k \in 1 .. v * L |-> Flattening(seqs, L, k)]]
<1>0. Len(seqs) = n /\ Len(seqs) # 0
  BY DEF EqualLists
<1>1. FlattenSeq(seqs) = (CHOOSE F : Flatten(F))[n]
  BY <1>0 DEF FlattenSeq
<1>2. \A v \in 1 .. n : seqs[v] \in [1 .. L -> D]
  BY DEF EqualLists
<1>3. \A v \in 1 .. n : seqs[v] \in Seq(D) /\ Len(seqs[v]) = L
  BY <1>2
<1>4. ASSUME NEW v \in 1 .. n, NEW k \in 1 .. L PROVE Flattening(seqs, L, (v - 1) * L + k) = seqs[v][k]
  <2>1. (((v - 1) * L + k) - 1) \div L = v - 1 /\ (((v - 1) * L + k) - 1) % L = k - 1
    BY SizesAdd
  <2>2. 1 + (v - 1) = v /\ 1 + (k - 1) = k
    OBVIOUS
  <2>3. QED
    BY <2>1, <2>2 DEF Flattening
<1>5. ASSUME NEW v \in 1 .. n
      PROVE  /\ v = 1 => Closed[v] = seqs[v]
             /\ v # 1 => Closed[v] = Closed[v - 1] \o seqs[v]
             /\ Closed[v] \in Seq(D) /\ Len(Closed[v]) = v * L
  <2> DEFINE b == (v - 1) * L
             m == v * L
  <2>1. b \in Nat /\ m \in Nat /\ m = b + L
    BY SizesAdd
  <2>2. \A k \in 1 .. L : Flattening(seqs, L, b + k) = seqs[v][k]
    BY <1>4
  <2>3. Closed[v] = [k \in 1 .. m |-> Flattening(seqs, L, k)]
    OBVIOUS
  <2>4. v # 1 => v - 1 \in 1 .. n /\ Closed[v - 1] = [k \in 1 .. b |-> Flattening(seqs, L, k)]
    OBVIOUS
  <2>5. v = 1 => b = 0
    OBVIOUS
  <2> HIDE DEF b, m, Closed
  <2>6. ASSUME NEW k \in 1 .. m PROVE Flattening(seqs, L, k) \in D
    <3> DEFINE x == k - 1
    <3>1. x \in Below(n * L)
      <4>1. v * L <= n * L
        <5>1. v \in Int /\ n \in Int /\ v <= n
          OBVIOUS
        <5>2. QED
          BY <5>1, StrideOrder
      <4>2. m <= n * L /\ n * L \in Int
        BY <4>1 DEF m
      <4>3. QED
        BY <2>1, <4>2 DEF Below
    <3> HIDE DEF x
    <3>2. x \div L \in Below(n) /\ x % L \in Below(L)
      BY <3>1, StrideIndex
    <3>3. 1 + (x \div L) \in 1 .. n /\ 1 + (x % L) \in 1 .. L
      BY <3>2 DEF Below
    <3>4. seqs[1 + (x \div L)][1 + (x % L)] \in D
      BY <1>2, <3>3
    <3>5. QED
      BY <3>4 DEF x, Flattening
  <2>7. Closed[v] \in [1 .. m -> D]
    BY <2>3, <2>6
  <2>8. Closed[v] \in Seq(D) /\ Len(Closed[v]) = m
    BY <2>1, <2>7
  <2>9. ASSUME v = 1 PROVE Closed[v] = seqs[v]
    <3>1. m = L /\ \A k \in 1 .. L : b + k = k
      BY <2>1, <2>5, <2>9
    <3>2. \A k \in 1 .. L : Closed[v][k] = seqs[v][k]
      BY <2>2, <2>3, <3>1
    <3>3. Closed[v] \in [1 .. L -> D] /\ seqs[v] \in [1 .. L -> D]
      BY <1>2, <2>7, <3>1
    <3>4. QED
      BY <3>2, <3>3
  <2>10. ASSUME v # 1 PROVE Closed[v] = Closed[v - 1] \o seqs[v]
    <3> DEFINE s == Closed[v - 1]
               t == seqs[v]
    <3>1. s = [k \in 1 .. b |-> Flattening(seqs, L, k)]
      BY <2>4, <2>10
    <3>2. \A k \in 1 .. b : Flattening(seqs, L, k) \in D
      BY <2>1, <2>6
    <3>3. s \in [1 .. b -> D] /\ t \in [1 .. L -> D]
      BY <1>2, <3>1, <3>2
    <3> HIDE DEF s, t
    <3>4. s \in Seq(D) /\ t \in Seq(D) /\ Len(s) = b /\ Len(t) = L
      BY <2>1, <3>3
    <3>5. s \o t \in [1 .. m -> D]
      <4> DEFINE x == s \o t
      <4>1. x \in Seq(D) /\ Len(x) = b + L
        BY <3>4
      <4> HIDE DEF x
      <4>2. x \in [1 .. Len(x) -> D]
        BY <4>1
      <4>3. QED
        BY <2>1, <4>1, <4>2 DEF x
    <3>6. ASSUME NEW k \in 1 .. m PROVE (s \o t)[k] = Closed[v][k]
      <4>1. Closed[v][k] = Flattening(seqs, L, k)
        BY <2>3
      <4>2. CASE k <= b
        <5>1. k \in 1 .. b /\ (s \o t)[k] = s[k]
          BY <2>1, <3>4, <4>2
        <5>2. QED
          BY <3>1, <4>1, <5>1
      <4>3. CASE k > b
        <5>1. k - b \in 1 .. L /\ b + (k - b) = k
          BY <2>1, <4>3
        <5>2. (s \o t)[k] = t[k - b]
          BY <2>1, <3>4, <4>3
        <5>3. Flattening(seqs, L, b + (k - b)) = seqs[v][k - b]
          BY <2>2, <5>1
        <5>4. QED
          BY <4>1, <5>1, <5>2, <5>3 DEF t
      <4>4. k <= b \/ k > b
        BY <2>1
      <4>5. QED
        BY <4>2, <4>3, <4>4
    <3>7. s \o t = Closed[v]
      <4> DEFINE x == s \o t
                 y == Closed[v]
      <4>1. x \in [1 .. m -> D] /\ y \in [1 .. m -> D] /\ \A k \in 1 .. m : x[k] = y[k]
        BY <2>7, <3>5, <3>6
      <4> HIDE DEF x, y
      <4>4. x = [k \in 1 .. m |-> x[k]] /\ y = [k \in 1 .. m |-> y[k]]
        BY <4>1
      <4>5. [k \in 1 .. m |-> x[k]] = [k \in 1 .. m |-> y[k]]
        BY <4>1
      <4>2. x = y
        BY <4>4, <4>5
      <4>3. QED
        BY <4>2 DEF x, y
    <3>8. QED
      BY <3>7 DEF s, t
  <2>11. QED
    BY <2>8, <2>9, <2>10 DEF m
<1>6. Flatten(Closed)
  <2>1. Closed = [v \in 1 .. n |-> Closed[v]]
    OBVIOUS
  <2> HIDE DEF Closed
  <2>2. QED
    BY <1>5, <2>1
<1>7. PICK F : Flatten(F) /\ FlattenSeq(seqs) = F[n]
  <2> HIDE DEF Closed, Flatten
  <2>1. Flatten(CHOOSE F : Flatten(F))
    BY <1>6
  <2>2. QED
    BY <1>1, <2>1
<1> HIDE DEF Closed
<1> DEFINE S == {i \in 0 .. n - 1 : F[i + 1] = Closed[i + 1]}
<1>8. \A v \in 1 .. n : F[v] = IF v = 1 THEN seqs[v] ELSE F[v - 1] \o seqs[v]
  BY <1>7
<1>9. 0 \in S
  <2>1. 1 \in 1 .. n /\ 0 \in 0 .. n - 1 /\ 0 + 1 = 1
    OBVIOUS
  <2>2. F[1] = seqs[1] /\ Closed[1] = seqs[1]
    BY <1>5, <1>8, <2>1
  <2>3. QED
    BY <2>1, <2>2
<1>10. ASSUME NEW i \in 0 .. n - 2, i \in S PROVE i + 1 \in S
  <2> DEFINE v == i + 2
  <2>1. v \in 1 .. n /\ v # 1 /\ v - 1 = i + 1 /\ i + 1 \in 0 .. n - 1 /\ (i + 1) + 1 = v
    OBVIOUS
  <2> HIDE DEF v
  <2>2. F[v - 1] = Closed[v - 1]
    BY <1>10, <2>1
  <2>3. F[v] = Closed[v]
    BY <1>5, <1>8, <2>1, <2>2
  <2>4. QED
    BY <2>1, <2>3
<1>11. n - 1 \in S
  <2> DEFINE m == n - 1
  <2>1. m \in Nat /\ m - 1 = n - 2 /\ m \in 0 .. m
    OBVIOUS
  <2> HIDE DEF S, m
  <2>2. \A i \in 0 .. m - 1 : i \in S => i + 1 \in S
    BY <1>10, <2>1
  <2>3. \A i \in 0 .. m : i \in S
    BY <1>9, <2>1, <2>2, InductionUpTo
  <2>4. QED
    BY <2>1, <2>3 DEF m
<1>12. F[n] = Closed[n]
  BY <1>11
<1>13. n \in 1 .. n /\ Closed[n] = [k \in 1 .. n * L |-> Flattening(seqs, L, k)]
  BY DEF Closed
<1>14. QED
  BY <1>7, <1>12, <1>13

(* The sizes that a batch size fixes are powers of two.                    *)
LEMMA SizesIs ==
    ASSUME batch \in Batches
    PROVE  /\ batch \in Nat \ {0} /\ factor \in Nat \ {0} /\ Half \in Nat \ {0} /\ K \in Nat \ {0}
           /\ Half = batch * factor /\ Half = factor * batch
           /\ N = 2 * Half /\ N = (2 * batch) * factor
           /\ Points = K * batch /\ batch <= Points
           /\ K % factor = 0 /\ K \div factor \in Nat \ {0} /\ K = (K \div factor) * factor
           /\ factor <= Points /\ factor < Prime
           /\ \E m \in 0 .. 30 : N = Two(m) /\ \E n \in 0 .. m - 1 : factor = Two(n)
<1>1. PICK i \in 1 .. 15 : N = 2^i
  BY PolynomialAssumption
<1>2. i \in 1 .. 15 /\ i \in 0 .. 30 /\ i - 1 \in 0 .. 29 /\ i - 1 \in 0 .. 30 /\ (i - 1) + 1 = i
  OBVIOUS
<1> DEFINE h == Two(i - 1)
<1>3. h \in Nat \ {0} /\ N = 2 * h
  <2>1. N = Two(i)
    BY <1>1 DEF Two
  <2>2. Two(i - 1) \in Nat \ {0}
    BY <1>2, TwoIs
  <2> DEFINE j == i - 1
  <2>3. j \in 0 .. 29 /\ j + 1 = i
    BY <1>2
  <2> HIDE DEF j
  <2>4. Two(j + 1) = 2 * Two(j)
    BY <2>3, TwoIs
  <2>5. QED
    BY <2>1, <2>2, <2>3, <2>4 DEF j
<1> HIDE DEF h
<1>4. Half = h
  BY <1>3 DEF Half
<1>5. batch \in Nat \ {0} /\ Half % batch = 0
  BY PolyPirAssumption
<1>6. factor \in Int /\ Half = batch * factor
  <2> DEFINE f == Half \div batch
  <2>1. Half = batch * f + (Half % batch) /\ f \in Int
    BY <1>3, <1>4, <1>5, DivMod
  <2> HIDE DEF f
  <2>2. batch * f \in Int
    BY <1>5, <2>1
  <2>3. QED
    BY <1>5, <2>1, <2>2 DEF f, factor
<1> HIDE DEF factor
<1>7. factor \in Nat \ {0}
  <2>1. factor > 0
    <3> SUFFICES ASSUME factor <= 0 PROVE FALSE
      BY <1>6
    <3>1. batch * factor <= 0
      BY <1>5, <1>6
    <3>2. QED
      BY <1>3, <1>4, <1>6, <3>1
  <2>2. QED
    BY <1>6, <2>1
<1>8. batch * factor = factor * batch /\ 2 * (batch * factor) = (2 * batch) * factor
  BY <1>5, <1>7
<1> HIDE DEF Half
<1>9. PICK c \in Nat \ {0} : Points = c * Half
  <2>1. Points % Half = 0 /\ Points \in Nat \ {0}
    BY PolyPirAssumption, FieldSize
  <2> DEFINE c == Points \div Half
  <2>2. Points = Half * c + (Points % Half) /\ c \in Int
    BY <1>3, <1>4, <2>1, DivMod
  <2> HIDE DEF c
  <2>3. Half * c \in Int /\ Half * c = c * Half
    BY <1>3, <1>4, <2>2
  <2>4. Points = c * Half
    BY <2>1, <2>2, <2>3
  <2>5. c > 0
    <3> SUFFICES ASSUME c <= 0 PROVE FALSE
      BY <2>2
    <3>1. c * Half <= 0
      BY <1>3, <1>4, <2>2
    <3>2. QED
      BY <2>1, <2>4, <3>1
  <2>6. QED
    BY <2>2, <2>4, <2>5
<1> DEFINE k == c * factor
<1>10. k \in Nat \ {0} /\ Points = batch * k /\ Points = k * batch
  <2>1. k \in Nat /\ k # 0
    <3>1. k > 0
      BY <1>7
    <3>2. k \in Int
      BY <1>7
    <3>3. QED
      BY <3>1, <3>2
  <2>2. c * (batch * factor) = batch * (c * factor) /\ c * (batch * factor) = (c * factor) * batch
    BY <1>5, <1>7
  <2>3. QED
    BY <1>6, <1>9, <2>1, <2>2
<1>11. K = k
  <2> HIDE DEF k
  <2>1. Points \in Int /\ k \in Int /\ Points = batch * k + 0 /\ 0 \in 0 .. batch - 1
    BY <1>5, <1>10, FieldSize
  <2>2. Points \div batch = k
    BY <1>5, <2>1, DivUnique
  <2>3. QED
    BY <2>2 DEF K
<1>12. K = factor * c + 0 /\ 0 \in 0 .. factor - 1 /\ K \in Int /\ c \in Int
  BY <1>7, <1>11
<1>13. K \div factor = c /\ K % factor = 0
  BY <1>7, <1>12, DivUnique, ModUnique
<1>14. factor <= Points /\ batch <= Points
  <2>1. factor <= c * factor /\ k \in Int
    BY <1>7
  <2>2. k <= k * batch /\ batch <= k * batch
    <3> HIDE DEF k
    <3>1. QED
      BY <1>5, <1>10
  <2>3. QED
    BY <1>5, <1>7, <1>10, <2>1, <2>2, FieldSize
<1>15. factor < Prime
  BY <1>7, <1>14, FieldSize
<1>16. \E n \in 0 .. i - 1 : factor = Two(n)
  <2>1. factor * batch = Two(i - 1) /\ factor \in Nat /\ batch \in Nat
    BY <1>4, <1>5, <1>6, <1>7, <1>8 DEF h
  <2> DEFINE j == i - 1
  <2>2. j \in 0 .. 30
    BY <1>2
  <2> HIDE DEF j
  <2>3. \E n \in 0 .. j : factor = Two(n)
    BY <2>1, <2>2, DivisorsOfPower DEF j
  <2>4. QED
    BY <2>3 DEF j
<1>17. N = Two(i)
  BY <1>1 DEF Two
<1>18. \E m \in 0 .. 30 : N = Two(m) /\ \E n \in 0 .. m - 1 : factor = Two(n)
  BY <1>2, <1>16, <1>17
<1>19. N = 2 * Half /\ N = (2 * batch) * factor
  BY <1>3, <1>4, <1>6, <1>8
<1>20. K \in Nat \ {0} /\ K = (K \div factor) * factor /\ K \div factor \in Nat \ {0}
  BY <1>10, <1>11, <1>13
<1>21. Points = K * batch
  BY <1>10, <1>11
<1>22. QED
  BY <1>3, <1>4, <1>5, <1>6, <1>7, <1>8, <1>13, <1>14, <1>15, <1>18, <1>19, <1>20, <1>21

(* A polynomial of degree at most batch with coefficients of the field.    *)
Small(f) == \A q \in Int : At(f, q) \in Fp /\ (~ (q \in Below(batch + 1)) => At(f, q) = 0)

(* Its coefficients at multiples of factor.                                *)
Spread(f) == [k \in Ring |-> IF k % factor = 0 THEN At(f, k \div factor) ELSE 0]

(* Division by factor before, multiplication after.                        *)
LEMMA FactorCancels ==
    ASSUME batch \in Batches, NEW a \in Fp
    PROVE  /\ (a * Inv(factor % Prime)) % Prime \in Fp
           /\ (factor * ((a * Inv(factor % Prime)) % Prime)) % Prime = a
<1> DEFINE F == factor
           x == F % Prime
           y == Inv(x)
           b == a * y
           z == 0
<1>1. F \in Nat \ {0} /\ F < Prime
  BY SizesIs
<1>2. Prime \in Nat \ {0} /\ F \in 0 .. Prime - 1 /\ a \in Int /\ F \in Int
  BY <1>1, FieldSize, FpInt
<1> HIDE DEF F
<1>3. x = F
  BY <1>2, ModOfSmall
<1> HIDE DEF x
<1>4. ~ Same(x, z)
  <2>1. z \in Fp /\ z \in Int /\ F \in Fp
    BY <1>2, FpInt DEF Fp, Below
  <2> HIDE DEF z
  <2>2. z % Prime = z /\ F % Prime = F
    BY <1>2, <2>1, SameIs
  <2>3. F # z
    BY <1>1 DEF z
  <2>4. QED
    BY <1>3, <2>2, <2>3 DEF Same, Congruent
<1>5. y \in Int /\ Same(x * y, 1)
  BY <1>2, <1>3, <1>4, InverseIs
<1> HIDE DEF y
<1>6. b \in Int /\ x * b = a * (x * y)
  BY <1>2, <1>3, <1>5
<1>7. Same(x * b, a * 1)
  <2> DEFINE w == x * y
             one == 1
  <2>1. w \in Int /\ one \in Int /\ Same(w, one)
    BY <1>2, <1>3, <1>5
  <2> HIDE DEF w, one
  <2>2. Same(a * w, a * one)
    BY <1>2, <2>1, SameScaled
  <2>3. QED
    BY <1>6, <2>2 DEF w, one
<1> HIDE DEF b
<1>8. (x * (b % Prime)) % Prime = (x * b) % Prime
  BY <1>2, <1>3, <1>6, InnerRemainder
<1>9. a * 1 = a /\ a % Prime = a
  BY <1>2, SameIs
<1>10. (x * b) % Prime = a
  BY <1>7, <1>9 DEF Same, Congruent
<1>11. b % Prime \in Fp
  BY <1>6, SameIs
<1>12. b % Prime = (a * Inv(factor % Prime)) % Prime
  BY DEF b, y, x, F
<1>13. x = factor
  BY <1>3 DEF F
<1>14. QED
  BY <1>8, <1>10, <1>11, <1>12, <1>13

(* The v-th plaintext of interleave.                                       *)
Plain(xs, v) == interleave(xs)[v]

(* A part of an interleaved plaintext is one of its polynomials, with the  *)
(* factor that unzip multiplies by divided out.                            *)
LEMMA PlainIs ==
    ASSUME batch \in Batches, NEW xs, \A j \in Below(K) : Small(xs[j]), NEW v \in 1 .. K \div factor
    PROVE  /\ Lift(Plain(xs, v)) \in [Ring -> Fp]
           /\ \A i \in 1 .. factor : Part(Lift(Plain(xs, v)), factor, i) = Spread(xs[(v - 1) * factor + (i - 1)])
<1> DEFINE F == factor
           B == batch
           n == K \div F
           u == v - 1
           D == Below((B + 1) * F)
           c == Plain(xs, v)
           E(p) == At(xs[u * F + (p % F)], p \div F)
<1>1. F \in Nat \ {0} /\ B \in Nat \ {0} /\ n \in Nat \ {0} /\ K = n * F /\ N = (2 * B) * F
  BY SizesIs
<1>2. u \in Below(n) /\ u \in Int
  BY <1>1 DEF Below
<1>3. c = [p \in D |-> (E(p) * Inv(F % Prime)) % Prime]
  BY DEF interleave, Plain
<1> HIDE DEF n, u, c
<1>4. \A p \in Nat : p % F \in Below(F) /\ p \div F \in Int
  <2> TAKE p \in Nat
  <2> HIDE DEF F
  <2>1. p % F \in 0 .. F - 1 /\ p \div F \in Int
    BY <1>1, DivMod
  <2>2. QED
    BY <2>1 DEF Below
<1>5. \A r \in Below(F) : u * F + r \in Below(K)
  <2> HIDE DEF F
  <2>1. QED
    BY <1>1, <1>2, StrideBelow
<1>6. \A p \in Nat : E(p) \in Fp
  BY <1>4, <1>5 DEF Small
<1>7. \A p \in D : p \in Nat
  BY <1>1 DEF Below
<1>8. \A p \in D : c[p] \in Fp /\ (F * c[p]) % Prime = E(p)
  <2> TAKE p \in D
  <2> DEFINE a == E(p)
  <2>1. a \in Fp
    BY <1>6, <1>7
  <2> HIDE DEF a
  <2>2. (a * Inv(factor % Prime)) % Prime \in Fp /\ (factor * ((a * Inv(factor % Prime)) % Prime)) % Prime = a
    BY <2>1, FactorCancels
  <2>3. c[p] = (a * Inv(factor % Prime)) % Prime
    BY <1>3 DEF a
  <2>4. QED
    BY <2>2, <2>3 DEF a
<1>9. DOMAIN c = D
  BY <1>3
<1> HIDE DEF E, D
<1> DEFINE l == Lift(c)
<1>10. l = [k \in Ring |-> IF k \in D THEN c[k] ELSE 0]
  BY <1>9 DEF Lift, At
<1>11. l \in [Ring -> Fp]
  BY <1>8, <1>10, FpInt
<1> HIDE DEF l
<1>12. ASSUME NEW i \in 1 .. F, NEW k \in Ring, k % F = 0
       PROVE  (F * l[k + i - 1]) % Prime = At(xs[u * F + (i - 1)], k \div F)
  <2> DEFINE q == k \div F
             r == i - 1
             p == q * F + r
             b2 == 2 * B
             b1 == B + 1
  <2>1. k \in Int /\ r \in Below(F) /\ b2 \in Nat /\ b1 \in Nat /\ b1 <= b2 /\ r \in Int
    BY <1>1, RingIs DEF Below
  <2>2. k \in Below(b2 * F) /\ Ring = Below(b2 * F)
    BY <1>1 DEF Ring
  <2> HIDE DEF F, r, b2, b1
  <2>3. q \in Below(b2) /\ k = q * F + (k % F)
    BY <1>1, <2>1, <2>2, StrideIndex
  <2>4. q \in Int /\ q \in Nat
    BY <2>1, <2>3, BelowIs
  <2> HIDE DEF q
  <2>5. q * F = k
    <3> DEFINE y == q * F
    <3>1. y \in Int
      BY <1>1, <2>4
    <3> HIDE DEF y
    <3>2. k = y + 0
      BY <1>12, <2>3 DEF y
    <3>3. QED
      BY <3>1, <3>2 DEF y
  <2>6. p = k + i - 1
    BY <1>1, <2>1, <2>5 DEF r
  <2>7. p \in Below(b2 * F)
    BY <1>1, <2>1, <2>3, StrideBelow
  <2>8. p % F = r /\ p \div F = q
    BY <1>1, <2>1, <2>4, Strides
  <2> HIDE DEF p
  <2>9. E(p) = At(xs[u * F + r], q)
    BY <2>8 DEF E
  <2>10. CASE p \in D
    <3>1. l[p] = c[p]
      BY <1>10, <2>2, <2>7, <2>10
    <3>2. (F * c[p]) % Prime = E(p)
      BY <1>8, <2>10
    <3>3. QED
      BY <2>6, <2>9, <3>1, <3>2 DEF q, r
  <2>11. CASE p \notin D
    <3>1. q \notin Below(B + 1)
      <4> SUFFICES ASSUME q \in Below(b1) PROVE FALSE
        BY DEF b1
      <4>1. q * F + r \in Below(b1 * F)
        BY <1>1, <2>1, StrideBelow
      <4>2. QED
        BY <2>11, <4>1 DEF p, D, b1
    <3>2. u * F + r \in Below(K)
      BY <1>5, <2>1
    <3>3. At(xs[u * F + r], q) = 0
      BY <2>4, <3>1, <3>2 DEF Small
    <3>4. l[p] = 0
      BY <1>10, <2>2, <2>7, <2>11
    <3>5. F * 0 = 0 /\ 0 % Prime = 0
      BY <1>1, FieldSize, FpInt, SameIs
    <3>6. QED
      BY <2>6, <3>3, <3>4, <3>5 DEF q, r
  <2>12. QED
    BY <2>10, <2>11
<1>13. ASSUME NEW i \in 1 .. F PROVE Part(l, F, i) = Spread(xs[u * F + (i - 1)])
  BY <1>12 DEF Part, Spread
<1>14. QED
  BY <1>11, <1>13 DEF l, c, u

(* unzip_vec undoes interleave: the host has the guest's polynomials, in   *)
(* the guest's order.                                                      *)
LEMMA PowersIs ==
    ASSUME batch \in Batches, NEW xs, \A j \in Below(K) : Small(xs[j])
    PROVE  /\ unzip_vec([v \in DOMAIN interleave(xs) |-> Lift(interleave(xs)[v])])
                = [j \in 1 .. K |-> Spread(xs[j - 1])]
           /\ \A j \in Below(K) : Spread(xs[j]) \in [Ring -> Fp]
<1> DEFINE F == factor
           n == K \div F
           D == [Ring -> Fp]
           ps == [v \in DOMAIN interleave(xs) |-> Lift(interleave(xs)[v])]
           seqs == [v \in DOMAIN ps |-> unzip(ps[v])]
<1>1. F \in Nat \ {0} /\ n \in Nat \ {0} /\ K = n * F /\ K \in Nat
  BY SizesIs
<1>2. DOMAIN interleave(xs) = 1 .. n
  BY DEF interleave
<1>3. PICK m \in 0 .. 30 : N = Two(m) /\ \E i \in 0 .. m - 1 : factor = Two(i)
  BY SizesIs
<1>4. PICK i0 \in 0 .. m - 1 : factor = Two(i0)
  BY <1>3
<1>5. seqs = [v \in 1 .. n |-> unzip(Lift(Plain(xs, v)))]
  BY <1>2 DEF Plain
<1> HIDE DEF n, seqs
<1>6. \A j \in Below(K) : Spread(xs[j]) \in D
  <2> TAKE j \in Below(K)
  <2>1. \A k \in Ring : k \div F \in Int
    <3> TAKE k \in Ring
    <3> HIDE DEF F
    <3>1. k \in Int
      BY RingIs
    <3>2. QED
      BY <1>1, <3>1, DivMod
  <2>2. \A k \in Ring : At(xs[j], k \div F) \in Fp
    BY <2>1 DEF Small
  <2>3. QED
    BY <2>2, FpInt DEF Spread
<1>7. ASSUME NEW v \in 1 .. n PROVE unzip(Lift(Plain(xs, v))) = [i \in 1 .. F |-> Spread(xs[(v - 1) * F + (i - 1)])]
  <2> DEFINE l == Lift(Plain(xs, v))
  <2>1. v \in 1 .. K \div factor
    BY DEF n
  <2>2. l \in [Ring -> Fp] /\ \A i \in 1 .. factor : Part(l, factor, i) = Spread(xs[(v - 1) * factor + (i - 1)])
    BY <2>1, PlainIs
  <2>3. l \in [Ring -> Fp]
    BY <2>2
  <2> HIDE DEF l
  <2>4. unzip(l) = [i \in 1 .. factor |-> Part(l, factor, i)]
    BY <1>3, <1>4, <2>3, UnzipIs
  <2>5. QED
    BY <2>2, <2>4 DEF l
<1>8. \A v \in 1 .. n : \A i \in 1 .. F : seqs[v][i] = Spread(xs[(v - 1) * F + (i - 1)])
  BY <1>5, <1>7
<1>9. ASSUME NEW v \in 1 .. n, NEW i \in 1 .. F PROVE (v - 1) * F + (i - 1) \in Below(K)
  <2> DEFINE u == v - 1
             r == i - 1
  <2>1. u \in Below(n) /\ r \in Below(F)
    BY <1>1 DEF Below
  <2> HIDE DEF u, r, F
  <2>2. u * F + r \in Below(n * F)
    BY <1>1, <2>1, StrideBelow
  <2>3. QED
    BY <1>1, <2>2 DEF u, r
<1>10. EqualLists(seqs, n, F, D)
  <2>1. \A v \in 1 .. n : unzip(Lift(Plain(xs, v))) \in [1 .. F -> D]
    BY <1>6, <1>7, <1>9
  <2>2. QED
    BY <1>5, <2>1 DEF EqualLists
<1>11. FlattenSeq(seqs) = [k \in 1 .. n * F |-> Flattening(seqs, F, k)]
  <2> HIDE DEF F, D
  <2>1. QED
    BY <1>1, <1>10, FlatIs
<1>12. ASSUME NEW j \in 1 .. K PROVE Flattening(seqs, F, j) = Spread(xs[j - 1])
  <2> DEFINE x == j - 1
             q == x \div F
             r == x % F
  <2>1. x \in Below(n * F) /\ x \in Int
    BY <1>1 DEF Below
  <2> HIDE DEF x, F
  <2>2. q \in Below(n) /\ r \in Below(F) /\ x = q * F + r
    BY <1>1, <2>1, StrideIndex
  <2>3. Flattening(seqs, F, j) = seqs[1 + q][1 + r]
    BY DEF Flattening, x
  <2> HIDE DEF q, r
  <2>4. 1 + q \in 1 .. n /\ 1 + r \in 1 .. F /\ (1 + q) - 1 = q /\ (1 + r) - 1 = r
    BY <1>1, <2>2 DEF Below
  <2>5. seqs[1 + q][1 + r] = Spread(xs[q * F + r])
    BY <1>8, <2>4
  <2>6. QED
    BY <2>2, <2>3, <2>5 DEF x
<1>13. unzip_vec(ps) = FlattenSeq(seqs)
  BY DEF unzip_vec, seqs
<1>14. unzip_vec(ps) = [j \in 1 .. K |-> Spread(xs[j - 1])]
  BY <1>1, <1>11, <1>12, <1>13
<1>15. QED
  BY <1>6, <1>14

-----------------------------------------------------------------------------
(* The characteristic polynomial of a query, and what the host answers.    *)

(* The rows of a query, and the point of the k-th.                         *)
IdsFit(ids) == ids \in Seq(Below(Points)) /\ Len(ids) = batch
At1(ids, k) == Power(Xi, ids[k])

(* The points of a query's rows.                                           *)
LEMMA PointsOfIs ==
    ASSUME NEW ids, IdsFit(ids)
    PROVE  /\ DOMAIN PointsOf(ids) = 1 .. batch
           /\ \A k \in 1 .. batch : /\ ids[k] \in Below(Points) /\ ids[k] \in Nat
                                    /\ PointsOf(ids)[k] = At1(ids, k)
                                    /\ At1(ids, k) \in Int /\ At1(ids, k) \in Fp
<1>1. DOMAIN ids = 1 .. batch /\ \A k \in 1 .. batch : ids[k] \in Below(Points)
  BY DEF IdsFit
<1>2. \A k \in Below(Points) : k \in Nat
  BY FieldSize, BelowIs
<1>3. \A k \in 1 .. batch : xi_powers[ids[k]] = At1(ids, k)
  BY <1>1 DEF xi_powers, At1
<1>4. DOMAIN PointsOf(ids) = 1 .. batch /\ \A k \in 1 .. batch : PointsOf(ids)[k] = xi_powers[ids[k]]
  BY <1>1 DEF PointsOf
<1>5. \A k \in Nat : Power(Xi, k) \in Int /\ Power(Xi, k) \in Fp
  BY XiInt, PowerIs
<1>6. \A k \in 1 .. batch : At1(ids, k) \in Int /\ At1(ids, k) \in Fp
  BY <1>1, <1>2, <1>5 DEF At1
<1>7. QED
  BY <1>1, <1>2, <1>3, <1>4, <1>6

(* The characteristic polynomial of a query.                               *)
Chara(ids) == BuildFromRoots(PointsOf(ids))

(* It is monic, of degree batch, and zero at every row's point.            *)
LEMMA CharaIs ==
    ASSUME batch \in Batches, NEW ids, IdsFit(ids)
    PROVE  /\ Chara(ids) \in [Below(batch + 1) -> Fp] /\ Chara(ids)[batch] = 1
           /\ \A k \in 1 .. batch : Same(ValueOf(Chara(ids), At1(ids, k)), 0)
<1> DEFINE s == PointsOf(ids)
           c == Chara(ids)
<1>1. batch \in Nat
  BY SizesIs
<1>2. DOMAIN s = 1 .. batch /\ (\A i \in 1 .. batch : s[i] \in Int) /\ \A i \in 1 .. batch : s[i] = At1(ids, i)
  BY PointsOfIs
<1>3. DOMAIN s = 1 .. batch
  BY <1>2
<1>4. \A i \in 1 .. batch : s[i] \in Int
  BY <1>2
<1> HIDE DEF s
<1>5. /\ BuildFromRoots(s) \in [Below(batch + 1) -> Fp]
      /\ BuildFromRoots(s)[batch] = 1
      /\ \A x \in Int : Same(ValueOf(BuildFromRoots(s), x), 0)
                           <=> \E i \in 1 .. batch : Same(x - s[i], 0)
  BY <1>1, <1>3, <1>4, RootsIs
<1>6. ASSUME NEW k \in 1 .. batch PROVE Same(ValueOf(BuildFromRoots(s), s[k]), 0)
  <2> DEFINE x == s[k]
  <2>1. x \in Int /\ x - s[k] = 0
    BY <1>4
  <2>2. Same(x - s[k], 0)
    BY <2>1 DEF Same, Congruent
  <2> HIDE DEF x
  <2>3. QED
    BY <1>5, <2>1, <2>2 DEF x
<1>7. QED
  BY <1>2, <1>5, <1>6 DEF s, Chara

(* A polynomial that fits a plaintext.                                     *)
LEMMA SmallIs ==
    ASSUME batch \in Batches, NEW n \in Nat, n <= batch + 1, NEW f \in [Below(n) -> Fp]
    PROVE  Small(f)
<1>1. batch \in Nat
  BY SizesIs
<1>2. \A q \in Int : q \in Below(n) => q \in Below(batch + 1)
  BY <1>1 DEF Below
<1>3. QED
  BY <1>2, FpInt DEF Small, At

(* The lane of a spread polynomial is the polynomial.                      *)
LEMMA SpreadLane ==
    ASSUME batch \in Batches, NEW n \in Nat, n <= batch + 1, NEW f \in [Below(n) -> Fp], NEW x \in Int
    PROVE  /\ Spread(f) \in [Ring -> Int]
           /\ \A p \in Ring : Spread(f)[p] # 0 => p % factor = 0 /\ p \div factor <= batch
           /\ Same(ValueOf(Lane(Spread(f), factor, 0, batch + 1), x), ValueOf(f, x))
<1> DEFINE F == factor
           B == batch
           g == Spread(f)
           l == Lane(g, F, 0, B + 1)
           m == B + 1
<1>1. F \in Nat \ {0} /\ B \in Nat \ {0} /\ N = (2 * B) * F /\ m \in Nat /\ n <= m
  BY SizesIs
<1>2. Small(f)
  BY SmallIs
<1>3. \A k \in Ring : k \in Int /\ k \div F \in Int
  <2> TAKE k \in Ring
  <2>1. k \in Int
    BY RingIs
  <2> HIDE DEF F
  <2>2. QED
    BY <1>1, <2>1, DivMod
<1>4. \A k \in Ring : g[k] \in Int /\ (g[k] # 0 => k % F = 0 /\ k \div F \in Below(m))
  <2> TAKE k \in Ring
  <2>1. g[k] = IF k % F = 0 THEN At(f, k \div F) ELSE 0
    BY DEF Spread
  <2>2. At(f, k \div F) \in Fp /\ (~ (k \div F \in Below(m)) => At(f, k \div F) = 0)
    BY <1>2, <1>3 DEF Small
  <2>3. QED
    BY <2>1, <2>2, FpInt
<1>5. \A k \in Ring : g[k] # 0 => k % F = 0 /\ k \div F <= B
  BY <1>1, <1>4 DEF Below
<1>6. g \in [Ring -> Int]
  BY <1>4 DEF Spread
<1>7. \A q \in Below(m) : l[q] = At(f, q) /\ l[q] \in Int
  <2> TAKE q \in Below(m)
  <2> DEFINE p == q * F + 0
             b2 == 2 * B
             z == 0
  <2>1. q \in Int /\ q \in Below(b2) /\ z \in Below(F)
    BY <1>1 DEF Below
  <2>2. Ring = Below(b2 * F) /\ b2 \in Nat
    BY <1>1 DEF Ring
  <2> HIDE DEF F, b2, z
  <2>3. q * F + z \in Below(b2 * F)
    BY <1>1, <2>1, <2>2, StrideBelow
  <2>4. (q * F + z) % F = z /\ (q * F + z) \div F = q
    BY <1>1, <2>1, Strides
  <2>5. g[q * F + z] = At(f, q)
    BY <2>2, <2>3, <2>4 DEF Spread, F, z
  <2>6. l[q] = g[q * F + z]
    BY DEF Lane, z
  <2>7. At(f, q) \in Fp
    BY <1>2, <2>1 DEF Small
  <2>8. QED
    BY <2>5, <2>6, <2>7, FpInt
<1>8. DOMAIN l = Below(m) /\ l = [q \in Below(m) |-> l[q]]
  BY DEF Lane
<1> HIDE DEF l, g, m, F
<1>9. l \in Polys(m)
  BY <1>7, <1>8 DEF Polys
<1>10. f \in Polys(n)
  BY FpPoly
<1>11. Same(ValueOf(l, x), ValueOf(f, x))
  BY <1>1, <1>7, <1>9, <1>10, ValuePadded
<1>12. QED
  BY <1>5, <1>6, <1>11 DEF l, g, m, F

(* chara and the powers of x modulo it.                                    *)
LEMMA PowerOfX ==
    ASSUME NEW n \in Nat, NEW x \in Int
    PROVE  /\ [i \in 0 .. n |-> IF i = n THEN 1 ELSE 0] \in Polys(n + 1)
           /\ ValueOf([i \in 0 .. n |-> IF i = n THEN 1 ELSE 0], x) = Power(x, n)
<1> DEFINE f == [i \in 0 .. n |-> IF i = n THEN 1 ELSE 0]
           S == 0 .. n
           W == [i \in S |-> f[i] * Power(x, i)]
<1>1. S = Below(n + 1) /\ n \in S
  BY DEF Below
<1>2. f \in Polys(n + 1)
  BY <1>1 DEF Polys
<1>3. \A i \in S : Power(x, i) \in Int
  BY PowerIs
<1>4. \A i \in S : W[i] \in Int /\ (n # i => W[i] = 0)
  <2> TAKE i \in S
  <2> DEFINE p == Power(x, i)
  <2>1. p \in Int /\ W[i] = f[i] * p
    BY <1>3
  <2> HIDE DEF p
  <2>2. f[i] \in Int /\ (n # i => f[i] = 0)
    OBVIOUS
  <2>3. QED
    BY <2>1, <2>2
<1>5. W[n] = Power(x, n)
  <2> DEFINE p == Power(x, n)
  <2>1. p \in Int
    BY <1>1, <1>3
  <2> HIDE DEF p
  <2>2. f[n] = 1 /\ 1 * p = p
    BY <1>1, <2>1
  <2>3. W[n] = f[n] * p
    BY <1>1 DEF p
  <2>4. QED
    BY <2>2, <2>3 DEF p
<1>6. IsFiniteSet(S)
  <2>1. n + 1 \in Nat
    OBVIOUS
  <2>2. QED
    BY <1>1, <2>1, BelowIs
<1>7. ValueOf(f, x) = SumOn(S, W)
  BY DEF ValueOf
<1>8. SumOn(S, W) = W[n]
  <2>1. \A i \in S : W[i] \in Int
    BY <1>4
  <2>2. \A i \in S : n # i => W[i] = 0
    BY <1>4
  <2> HIDE DEF S, W
  <2>3. QED
    BY <1>1, <1>6, <2>1, <2>2, SumOne
<1>9. QED
  BY <1>2, <1>5, <1>7, <1>8

(* set_chara_and_Xpowers_mod_chara: the j-th of them has, at every row's   *)
(* point, the value of x^(j * batch).                                      *)
LEMMA CharaPowersAre ==
    ASSUME batch \in Batches, NEW ids, IdsFit(ids), NEW j \in Below(K)
    PROVE  /\ \E n \in Nat : n <= batch + 1 /\ CharaAndPowers(Chara(ids))[j] \in [Below(n) -> Fp]
           /\ \A k \in 1 .. batch :
                 Same(ValueOf(CharaAndPowers(Chara(ids))[j], At1(ids, k)),
                      IF j = 0 THEN 0 ELSE Power(At1(ids, k), j * batch))
<1> DEFINE c == Chara(ids)
           B == batch
           m == j * B
           f == [i \in 0 .. m |-> IF i = m THEN 1 ELSE 0]
           e == CharaAndPowers(c)[j]
<1>1. B \in Nat \ {0} /\ K \in Nat
  BY SizesIs
<1>2. c \in [Below(B + 1) -> Fp] /\ c[B] = 1 /\ \A k \in 1 .. B : Same(ValueOf(c, At1(ids, k)), 0)
  BY CharaIs
<1>3. e = IF j = 0 THEN c ELSE Rem(f, c)
  BY DEF CharaAndPowers
<1>4. j \in Nat
  BY <1>1, BelowIs
<1> HIDE DEF c, e
<1>5. CASE j = 0
  <2>1. B + 1 \in Nat /\ B + 1 <= B + 1
    BY <1>1
  <2>2. QED
    BY <1>2, <1>3, <1>5, <2>1 DEF c, e
<1>6. CASE j # 0
  <2>1. m \in Nat /\ m + 1 \in Nat /\ B < m + 1 /\ B \in Nat /\ B <= B + 1
    BY <1>1, <1>4, <1>6
  <2> DEFINE L == m + 1
  <2> HIDE DEF m
  <2>2. \A x \in Int : f \in Polys(L) /\ ValueOf(f, x) = Power(x, m)
    BY <2>1, PowerOfX
  <2>3. f \in Polys(L)
    <3>1. 0 \in Int
      OBVIOUS
    <3>2. QED
      BY <2>2, <3>1
  <2> HIDE DEF f, L
  <2>4. L \in Nat /\ B < L
    BY <2>1 DEF L
  <2>5. c \in [Below(B + 1) -> Fp] /\ c[B] = 1
    BY <1>2
  <2> HIDE DEF B
  <2>6. /\ Rem(f, c) \in [Below(B) -> Fp]
        /\ \A x \in Int : Same(ValueOf(c, x), 0) => Same(ValueOf(Rem(f, c), x), ValueOf(f, x))
    BY <2>1, <2>3, <2>4, <2>5, RemainderPoly
  <2>7. \A k \in 1 .. batch : At1(ids, k) \in Int
    BY PointsOfIs
  <2>8. \A k \in 1 .. batch : Same(ValueOf(e, At1(ids, k)), Power(At1(ids, k), m))
    BY <1>2, <1>3, <1>6, <2>2, <2>6, <2>7 DEF B
  <2>9. \E n \in Nat : n <= batch + 1 /\ e \in [Below(n) -> Fp]
    BY <1>3, <1>6, <2>1, <2>6 DEF B
  <2>10. QED
    BY <1>6, <2>8, <2>9 DEF e, c, m, B
<1>7. QED
  BY <1>5, <1>6

(* What the host holds after set_chara_and_Xpowers_mod_chara.              *)
PowersOf(ids) == [j \in 1 .. K |-> Spread(CharaAndPowers(Chara(ids))[j - 1])]

\* A plaintext whose lane is a polynomial, times a power.
LEMMA TermLane ==
    ASSUME batch \in Batches, NEW ids, IdsFit(ids), NEW j \in Below(K), NEW f \in [Below(Half) -> Fp],
           NEW r \in Below(factor), NEW k \in 1 .. batch, NEW g, g = Spread(CharaAndPowers(Chara(ids))[j])
    PROVE  /\ RingMul(f, g) \in [Ring -> Fp]
           /\ ValueOf(Lane(f, factor, r, batch), At1(ids, k)) \in Int
           /\ Same(ValueOf(Lane(RingMul(f, g), factor, r, 2 * batch), At1(ids, k)),
                   IF j = 0 THEN 0
                   ELSE Power(At1(ids, k), j * batch) * ValueOf(Lane(f, factor, r, batch), At1(ids, k)))
<1> DEFINE B == batch
           F == factor
           e == CharaAndPowers(Chara(ids))[j]
           x == At1(ids, k)
           lf == Lane(f, F, r, B)
           lg == Lane(g, F, 0, B + 1)
           p == ValueOf(Lane(RingMul(f, g), F, r, 2 * B), x)
           vf == ValueOf(lf, x)
           vg == ValueOf(lg, x)
           ve == ValueOf(e, x)
           w == IF j = 0 THEN 0 ELSE Power(x, j * batch)
<1>1. F \in Nat \ {0} /\ B \in Nat \ {0} /\ N = (2 * B) * F /\ Half = B * F /\ Half \in Nat
  BY SizesIs
<1>2. x \in Int
  BY PointsOfIs
<1>3. PICK n \in Nat : n <= batch + 1 /\ e \in [Below(n) -> Fp]
  BY CharaPowersAre
<1>4. Same(ve, w)
  BY CharaPowersAre
<1>5. w \in Int
  <2>1. j * B \in Nat
    BY <1>1, BelowIs, SizesIs
  <2> DEFINE jb == j * B
  <2> HIDE DEF jb
  <2>2. Power(x, jb) \in Int
    BY <1>2, <2>1, PowerIs DEF jb
  <2>3. QED
    BY <2>2 DEF jb
<1>6. f \in Polys(B * F)
  <2>1. f \in Polys(Half)
    BY <1>1, FpPoly
  <2>2. QED
    BY <1>1, <2>1
<1> HIDE DEF e, x
<1>7. /\ g \in [Ring -> Int]
      /\ \A q \in Ring : g[q] # 0 => q % F = 0 /\ q \div F <= B
      /\ Same(vg, ve)
  BY <1>2, <1>3, SpreadLane DEF e
<1>8. g \in [Ring -> Int]
  BY <1>7
<1>9. \A q \in Ring : g[q] # 0 => q % F = 0 /\ q \div F <= B
  BY <1>7
<1>10. Same(p, vf * vg)
  <2> HIDE DEF F, B
  <2>1. r \in Below(F)
    BY DEF F
  <2>2. QED
    BY <1>1, <1>2, <1>6, <1>8, <1>9, <2>1, StridedProduct
<1>11. RingMul(f, g) \in [Ring -> Fp]
  <2>1. IsFiniteSet(DOMAIN f) /\ (\A i \in DOMAIN f : f[i] \in Int)
    BY <1>1, BelowIs, FpInt
  <2>2. \A i \in DOMAIN g : g[i] \in Int
    BY <1>8
  <2>3. QED
    BY <2>1, <2>2, RingMulType
<1>12. vf \in Int /\ vg \in Int /\ ve \in Int
  <2>1. lf \in Polys(B)
    <3>1. \A q \in Below(B) : f[q * F + r] \in Int
      <4> TAKE q \in Below(B)
      <4>1. q * F + r \in Below(B * F)
        <5> HIDE DEF F, B
        <5>1. r \in Below(F)
          BY DEF F
        <5>2. QED
          BY <1>1, <5>1, StrideBelow
      <4>2. QED
        BY <1>6, <4>1 DEF Polys
    <3>2. QED
      BY <3>1 DEF Lane, Polys
  <2>2. lg \in Polys(B + 1)
    <3>1. \A q \in Below(B + 1) : g[q * F + 0] \in Int
      <4> TAKE q \in Below(B + 1)
      <4> DEFINE b2 == 2 * B
                 z == 0
      <4>1. q \in Below(b2) /\ z \in Below(F) /\ b2 \in Nat /\ Ring = Below(b2 * F)
        BY <1>1 DEF Below, Ring
      <4> HIDE DEF F, b2, z
      <4>2. q * F + z \in Below(b2 * F)
        BY <1>1, <4>1, StrideBelow
      <4>3. QED
        BY <1>8, <4>1, <4>2 DEF z
    <3>2. QED
      BY <3>1 DEF Lane, Polys
  <2>3. e \in Polys(n)
    BY <1>3, FpPoly
  <2>4. B \in Nat /\ B + 1 \in Nat
    BY <1>1
  <2> DEFINE b1 == B + 1
  <2> HIDE DEF lf, lg, B, b1
  <2>5. vf \in Int
    BY <1>2, <2>1, <2>4, ValueInt
  <2>6. vg \in Int
    <3>1. lg \in Polys(b1) /\ b1 \in Nat
      BY <2>2, <2>4 DEF b1
    <3>2. QED
      BY <1>2, <3>1, ValueInt
  <2>7. ve \in Int
    BY <1>2, <1>3, <2>3, ValueInt
  <2>8. QED
    BY <2>5, <2>6, <2>7
<1> DEFINE u == vf * vg
           v == vf * w
<1> HIDE DEF p, vf, vg, ve, w
<1>13. Same(vg, w)
  BY <1>4, <1>7 DEF Same, Congruent
<1>14. Same(u, v)
  BY <1>5, <1>12, <1>13, SameScaled
<1>15. Same(p, v)
  BY <1>10, <1>14 DEF Same, Congruent
<1>16. v = IF j = 0 THEN 0 ELSE Power(x, j * batch) * vf
  <2>1. CASE j = 0
    <3>1. w = 0 /\ vf * 0 = 0
      BY <1>12, <2>1 DEF w
    <3>2. QED
      BY <2>1, <3>1
  <2>2. CASE j # 0
    <3>1. w = Power(x, j * batch) /\ vf * w = w * vf
      BY <1>5, <1>12, <2>2 DEF w
    <3>2. QED
      BY <2>2, <3>1
  <2>3. QED
    BY <2>1, <2>2
<1>17. QED
  BY <1>11, <1>12, <1>15, <1>16 DEF p, vf, x

(* A plaintext of half the ring as an element of the ring.                 *)
LEMMA HalfLane ==
    ASSUME batch \in Batches, NEW f \in [Below(Half) -> Fp], NEW r \in Below(factor), NEW x \in Int
    PROVE  /\ Lane(f, factor, r, batch) \in Polys(batch)
           /\ Same(ValueOf(ShortLane(f, factor, r, 2 * batch), x), ValueOf(Lane(f, factor, r, batch), x))
<1> DEFINE F == factor
           B == batch
           m == 2 * B
           l == Lane(f, F, r, B)
           s == ShortLane(f, F, r, m)
<1>1. F \in Nat \ {0} /\ B \in Nat \ {0} /\ N = m * F /\ Half = B * F /\ m \in Nat /\ B <= m /\ B \in Nat
  BY SizesIs
<1>2. r \in Below(F)
  OBVIOUS
<1>3. DOMAIN f = Below(B * F) /\ \A i \in Below(B * F) : f[i] \in Int
  BY <1>1, FpInt
<1> HIDE DEF F, B, m
<1>4. \A q \in Below(B) : q * F + r \in Below(B * F)
  BY <1>1, <1>2, StrideBelow
<1>5. l \in Polys(B)
  BY <1>3, <1>4 DEF Lane, Polys
<1>6. s \in Polys(m)
  <2>1. \A k \in DOMAIN f : f[k] \in Int
    BY <1>3
  <2>2. QED
    BY <1>1, <1>2, <2>1, ShortLaneIs
<1>7. \A q \in Below(m) : s[q] = At(l, q)
  <2> TAKE q \in Below(m)
  <2>1. s[q] = At(f, q * F + r)
    BY DEF ShortLane
  <2>2. CASE q \in Below(B)
    <3>1. q * F + r \in DOMAIN f
      BY <1>3, <1>4, <2>2
    <3>2. QED
      BY <2>1, <2>2, <3>1 DEF At, Lane
  <2>3. CASE q \notin Below(B)
    <3>1. q * F + r \notin Below(B * F)
      <4> SUFFICES ASSUME q * F + r \in Below(B * F) PROVE FALSE
        OBVIOUS
      <4> DEFINE p == q * F + r
      <4>1. p \in Below(B * F)
        OBVIOUS
      <4>2. q \in Int
        BY <1>1, BelowIs
      <4> HIDE DEF p
      <4>3. p \div F \in Below(B)
        BY <1>1, <4>1, StrideIndex
      <4>4. p \div F = q
        BY <1>1, <1>2, <4>2, Strides DEF p
      <4>5. QED
        BY <2>3, <4>3, <4>4
    <3>2. QED
      BY <1>3, <2>1, <2>3, <3>1 DEF At, Lane
  <2>4. QED
    BY <2>2, <2>3
<1> HIDE DEF l, s
<1>8. Same(ValueOf(s, x), ValueOf(l, x))
  BY <1>1, <1>5, <1>6, <1>7, ValuePadded
<1>9. QED
  BY <1>5, <1>8 DEF l, s, F, B, m

(* The plaintexts of one column.                                           *)
PlainsFit(plains) == plains \in [1 .. K -> [Below(Half) -> Fp]]

\* The values of the pieces of a plaintext, put together.
PieceValues(plains, r, x) ==
    [j \in Below(K) |-> Power(x, j * batch) * ValueOf(Lane(plains[j + 1], factor, r, batch), x)]

(* poly_reduce: at a row's point every lane of the result has the value of *)
(* its column's polynomial.                                                *)
LEMMA ReducedLane ==
    ASSUME batch \in Batches, NEW ids, IdsFit(ids), powers = PowersOf(ids),
           NEW plains, PlainsFit(plains), NEW mask \in [Below(Half) -> Fp],
           NEW r \in Below(factor), NEW k \in 1 .. batch
    PROVE  /\ poly_reduce(plains, mask) \in [Ring -> Fp]
           /\ \A j \in Below(K) : PieceValues(plains, r, At1(ids, k))[j] \in Int
           /\ Same(ValueOf(Lane(poly_reduce(plains, mask), factor, r, 2 * batch), At1(ids, k)),
                   SumOn(Below(K), PieceValues(plains, r, At1(ids, k))))
<1> DEFINE B == batch
           F == factor
           m == 2 * B
           x == At1(ids, k)
           V == PieceValues(plains, r, x)
           n == K - 1
           A == RingMul(mask, powers[1])
           T == [i \in 1 .. n |-> RingMul(plains[i + 1], powers[i + 1])]
           RS == RingSum(T)
           C == RingAdd(plains[1], RS)
           R == RingAdd(A, C)
           Val(f) == ValueOf(Lane(f, F, r, m), x)
           Short(f) == ValueOf(ShortLane(f, F, r, m), x)
<1>1. /\ F \in Nat \ {0} /\ B \in Nat \ {0} /\ N = m * F /\ m \in Nat /\ K \in Nat \ {0} /\ n \in Nat
      /\ r \in Below(F) /\ Half \in Nat
  BY SizesIs
<1>2. x \in Int
  BY PointsOfIs
<1>3. R = poly_reduce(plains, mask)
  BY DEF poly_reduce
<1>4. \A j \in Below(K) : j + 1 \in 1 .. K /\ powers[j + 1] = Spread(CharaAndPowers(Chara(ids))[j])
  <2> TAKE j \in Below(K)
  <2>1. j + 1 \in 1 .. K /\ (j + 1) - 1 = j
    BY <1>1 DEF Below
  <2>2. QED
    BY <2>1 DEF PowersOf
<1>5. \A j \in Below(K) : plains[j + 1] \in [Below(Half) -> Fp]
  BY <1>4 DEF PlainsFit
<1>6. 0 \in Below(K) /\ (\A i \in 1 .. n : i \in Below(K) /\ i # 0) /\ Below(K) = 1 .. n \cup {0}
  BY <1>1 DEF Below
<1>7. A \in [Ring -> Fp] /\ Same(Val(A), 0)
  <2> DEFINE z == 0
  <2>1. powers[1] = Spread(CharaAndPowers(Chara(ids))[z]) /\ z \in Below(K)
    <3>1. 0 + 1 = 1
      OBVIOUS
    <3>2. QED
      BY <1>4, <1>6, <3>1
  <2> DEFINE g == powers[1]
  <2> HIDE DEF z, g
  <2>2. /\ RingMul(mask, g) \in [Ring -> Fp]
        /\ Same(ValueOf(Lane(RingMul(mask, g), factor, r, 2 * batch), At1(ids, k)),
                   IF z = 0 THEN 0
                   ELSE Power(At1(ids, k), z * batch) * ValueOf(Lane(mask, factor, r, batch), At1(ids, k)))
    BY <2>1, TermLane DEF g
  <2>3. z = 0
    BY DEF z
  <2>4. QED
    BY <2>2, <2>3 DEF g
<1>8. \A j \in Below(K) : V[j] = Power(x, j * B) * ValueOf(Lane(plains[j + 1], F, r, B), x)
  BY DEF PieceValues
<1>9. \A j \in Below(K) : ValueOf(Lane(plains[j + 1], F, r, B), x) \in Int /\ V[j] \in Int
  <2> TAKE j \in Below(K)
  <2> DEFINE f == plains[j + 1]
             l == Lane(f, F, r, B)
             jb == j * B
             p == Power(x, jb)
             v == ValueOf(l, x)
  <2>1. f \in [Below(Half) -> Fp]
    BY <1>5
  <2>2. V[j] = p * v
    BY <1>8
  <2> HIDE DEF f, x
  <2>3. l \in Polys(B)
    BY <1>2, <2>1, HalfLane
  <2> HIDE DEF l
  <2>4. v \in Int
    BY <1>1, <1>2, <2>3, ValueInt
  <2>5. jb \in Nat
    BY <1>1, BelowIs
  <2> HIDE DEF jb
  <2>6. p \in Int
    BY <1>2, <2>5, PowerIs
  <2> HIDE DEF p, v
  <2>7. p * v \in Int
    BY <2>4, <2>6
  <2>8. QED
    BY <2>2, <2>4, <2>7 DEF v, l, f
<1>10. \A i \in 1 .. n : T[i] \in [Ring -> Fp] /\ Same(Val(T[i]), V[i])
  <2> TAKE i \in 1 .. n
  <2> DEFINE g == powers[i + 1]
             f == plains[i + 1]
  <2>1. i \in Below(K) /\ i # 0 /\ g = Spread(CharaAndPowers(Chara(ids))[i]) /\ f \in [Below(Half) -> Fp]
    BY <1>4, <1>5, <1>6
  <2>2. T[i] = RingMul(f, g)
    OBVIOUS
  <2>3. V[i] = Power(x, i * B) * ValueOf(Lane(f, F, r, B), x)
    BY <1>8, <2>1
  <2> HIDE DEF g, f
  <2>4. /\ RingMul(f, g) \in [Ring -> Fp]
        /\ Same(ValueOf(Lane(RingMul(f, g), factor, r, 2 * batch), At1(ids, k)),
                   IF i = 0 THEN 0
                   ELSE Power(At1(ids, k), i * batch) * ValueOf(Lane(f, factor, r, batch), At1(ids, k)))
    BY <2>1, TermLane
  <2>5. QED
    BY <2>1, <2>2, <2>3, <2>4
<1> HIDE DEF V, x
<1>11. RS \in [Ring -> Fp] /\ Same(Val(RS), SumOn(1 .. n, V))
  <2>1. DOMAIN T = 1 .. n
    OBVIOUS
  <2>2. \A i \in 1 .. n : T[i] \in [Ring -> Fp]
    BY <1>10
  <2>3. \A i \in 1 .. n : V[i] \in Int /\ Same(ValueOf(Lane(T[i], F, r, m), x), V[i])
    BY <1>6, <1>9, <1>10
  <2> HIDE DEF T, n, m, F
  <2>4. QED
    BY <1>1, <1>2, <2>1, <2>2, <2>3, RingSumLane
<1> HIDE DEF A, T, RS
<1>12. \A f : f \in [Ring -> Fp] => (\A i \in DOMAIN f : f[i] \in Int) /\ Short(f) = Val(f) /\ Val(f) \in Int
  <2> TAKE f
  <2> HAVE f \in [Ring -> Fp]
  <2>1. (\A i \in DOMAIN f : f[i] \in Int) /\ DOMAIN f = Ring
    BY FpInt
  <2> HIDE DEF m, F
  <2>2. ShortLane(f, F, r, m) = Lane(f, F, r, m) /\ ShortLane(f, F, r, m) \in Polys(m)
    BY <1>1, <2>1, ShortLaneIs
  <2> DEFINE l == Lane(f, F, r, m)
  <2>3. l \in Polys(m)
    BY <2>2
  <2> HIDE DEF l
  <2>4. ValueOf(l, x) \in Int
    BY <1>1, <1>2, <2>3, ValueInt
  <2>5. QED
    BY <2>1, <2>2, <2>4 DEF l
<1>13. plains[1] \in [Below(Half) -> Fp] /\ (\A i \in DOMAIN plains[1] : plains[1][i] \in Int)
  <2>1. 0 + 1 = 1
    OBVIOUS
  <2>2. plains[1] \in [Below(Half) -> Fp]
    BY <1>5, <1>6, <2>1
  <2>3. QED
    BY <2>2, FpInt
<1> DEFINE f0 == plains[1]
           v0 == ValueOf(Lane(f0, F, r, B), x)
           s0 == Short(f0)
<1>14. Same(s0, v0) /\ v0 \in Int /\ s0 \in Int /\ V[0] = v0
  <2>1. Same(s0, v0)
    <3> HIDE DEF f0
    <3>1. f0 \in [Below(Half) -> Fp]
      BY <1>13 DEF f0
    <3>2. QED
      BY <1>1, <1>2, <3>1, HalfLane
  <2>2. v0 \in Int /\ V[0] = Power(x, 0 * B) * v0
    <3>1. 0 + 1 = 1
      OBVIOUS
    <3>2. QED
      BY <1>6, <1>8, <1>9, <3>1
  <2>3. s0 \in Int
    <3> DEFINE l == ShortLane(f0, F, r, m)
    <3>1. l \in Polys(m)
      <4>1. \A i \in DOMAIN f0 : f0[i] \in Int
        BY <1>13
      <4> HIDE DEF f0, m, F
      <4>2. QED
        BY <1>1, <4>1, ShortLaneIs
    <3> HIDE DEF l, m
    <3>2. ValueOf(l, x) \in Int
      BY <1>1, <1>2, <3>1, ValueInt
    <3>3. QED
      BY <3>2 DEF l, m
  <2>4. Power(x, 0 * B) = 1
    <3>1. 0 * B = 0
      BY <1>1
    <3>2. QED
      BY <1>2, <3>1, PowerIs
  <2>5. 1 * v0 = v0
    <3> HIDE DEF v0
    <3>1. v0 \in Int
      BY <2>2
    <3>2. QED
      BY <3>1
  <2>6. QED
    BY <2>1, <2>2, <2>3, <2>4, <2>5
<1>15. C \in [Ring -> Fp] /\ Same(Val(C), s0 + Val(RS))
  <2>1. \A i \in DOMAIN f0 : f0[i] \in Int
    BY <1>13
  <2>2. \A i \in DOMAIN RS : RS[i] \in Int
    BY <1>11, FpInt
  <2> HIDE DEF f0, m, F
  <2>3. RingAdd(f0, RS) \in [Ring -> Fp]
    BY <1>1, <1>2, <2>1, <2>2, RingSumsLane
  <2>4. Same(ValueOf(Lane(RingAdd(f0, RS), F, r, m), x),
             ValueOf(ShortLane(f0, F, r, m), x) + ValueOf(ShortLane(RS, F, r, m), x))
    BY <1>1, <1>2, <2>1, <2>2, RingSumsLane
  <2>5. Short(RS) = Val(RS)
    BY <1>11, <1>12
  <2>6. C = RingAdd(f0, RS)
    BY DEF f0
  <2>7. QED
    BY <2>3, <2>4, <2>5, <2>6 DEF f0
<1> HIDE DEF C
<1>16. R \in [Ring -> Fp] /\ Same(Val(R), Val(A) + Val(C))
  <2>1. \A i \in DOMAIN A : A[i] \in Int
    BY <1>7, FpInt
  <2>2. \A i \in DOMAIN C : C[i] \in Int
    BY <1>15, FpInt
  <2> HIDE DEF m, F
  <2>3. RingAdd(A, C) \in [Ring -> Fp]
    BY <1>1, <1>2, <2>1, <2>2, RingSumsLane
  <2>4. Same(ValueOf(Lane(RingAdd(A, C), F, r, m), x),
             ValueOf(ShortLane(A, F, r, m), x) + ValueOf(ShortLane(C, F, r, m), x))
    BY <1>1, <1>2, <2>1, <2>2, RingSumsLane
  <2>5. Short(C) = Val(C) /\ Short(A) = Val(A)
    BY <1>7, <1>12, <1>15
  <2>6. QED
    BY <2>3, <2>4, <2>5
<1> HIDE DEF R
<1> DEFINE a == Val(A)
           c == Val(C)
           d == Val(RS)
           sv == SumOn(1 .. n, V)
           z == 0
<1>17. a \in Int /\ c \in Int /\ d \in Int
  BY <1>7, <1>11, <1>12, <1>15
<1>18. IsFiniteSet(1 .. n) /\ (\A i \in 1 .. n : V[i] \in Int) /\ z \notin 1 .. n /\ V[z] \in Int
  <2>1. IsFiniteSet(1 .. n)
    BY <1>1, FS_Interval
  <2>2. V[z] \in Int
    BY <1>6, <1>9
  <2>3. QED
    BY <1>6, <1>9, <2>1, <2>2
<1>19. sv \in Int /\ SumOn(Below(K), V) = V[0] + sv
  <2> HIDE DEF n, z
  <2>1. SumOn(1 .. n \cup {z}, V) = V[z] + SumOn(1 .. n, V)
    BY <1>18, SumAdds
  <2>2. SumOn(1 .. n, V) \in Int
    BY <1>18, SumStep
  <2>3. QED
    BY <1>6, <2>1, <2>2 DEF z
<1>20. Same(a, z) /\ Same(c, s0 + d) /\ Same(d, sv)
  BY <1>7, <1>11, <1>15
<1> HIDE DEF a, c, d, sv, s0, v0
<1> DEFINE t == s0 + d
           u == v0 + sv
<1>21. Same(t, u) /\ t \in Int /\ u \in Int
  BY <1>14, <1>17, <1>19, <1>20, SameArithmetic
<1>22. Same(c, u)
  <2> HIDE DEF t, u
  <2>1. Same(c, t)
    BY <1>20 DEF t
  <2>2. QED
    BY <1>21, <2>1 DEF Same, Congruent
<1>23. Same(a + c, z + u)
  <2> HIDE DEF u, z
  <2>1. z \in Int
    BY DEF z
  <2>2. QED
    BY <1>17, <1>20, <1>21, <1>22, <2>1, SameArithmetic
<1>24. z + u = V[0] + sv
  BY <1>14, <1>19, <1>21
<1>25. Same(Val(R), a + c)
  BY <1>16 DEF a, c
<1>26. Same(Val(R), V[0] + sv)
  BY <1>23, <1>24, <1>25 DEF Same, Congruent
<1>27. Same(Val(R), SumOn(Below(K), V))
  BY <1>19, <1>26
<1>28. QED
  BY <1>3, <1>9, <1>16, <1>27 DEF V, x

(* The columns that one block encodes.                                     *)
ColumnsFit(columns) == columns \in [1 .. factor -> [Below(Points) -> Fp]]

(* encode: a lane of the j-th plaintext is the j-th run of the             *)
(* coefficients of its column's interpolation.                             *)
LEMMA EncodeIs ==
    ASSUME batch \in Batches, NEW columns, ColumnsFit(columns)
    PROVE  /\ PlainsFit(encode(columns))
           /\ \A r \in Below(factor) : \A j \in Below(K) :
                 Lane(encode(columns)[j + 1], factor, r, batch) = Run(fft_interpolate(columns[r + 1]), batch, j)
<1> DEFINE F == factor
           B == batch
           c == [j \in Below(F) |-> fft_interpolate(columns[j + 1])]
           e == encode(columns)
<1>1. /\ F \in Nat \ {0} /\ B \in Nat \ {0} /\ K \in Nat \ {0} /\ Half = B * F /\ Points = K * B
      /\ Half \in Nat /\ Points \in Nat
  BY SizesIs
<1>2. \A r \in Below(F) : r + 1 \in 1 .. F /\ columns[r + 1] \in [Below(Points) -> Fp]
  <2> TAKE r \in Below(F)
  <2>1. r + 1 \in 1 .. F
    BY <1>1 DEF Below
  <2>2. QED
    BY <2>1 DEF ColumnsFit
<1>3. \A r \in Below(F) : c[r] \in [Below(Points) -> Fp]
  <2> TAKE r \in Below(F)
  <2> DEFINE col == columns[r + 1]
             z == 0
  <2>1. col \in [Below(Points) -> Fp] /\ z \in Below(Points) /\ c[r] = fft_interpolate(col)
    BY <1>2, FieldSize DEF Below
  <2> HIDE DEF col, z
  <2>2. fft_interpolate(col) \in [Below(Points) -> Fp]
    BY <2>1, FftIs
  <2>3. QED
    BY <2>1, <2>2
<1>4. e = [k \in 1 .. K |-> [p \in Below(Half) |-> c[p % F][((k - 1) * B) + (p \div F)]]]
  BY DEF encode
<1>5. \A r \in Below(F) : c[r] = fft_interpolate(columns[r + 1])
  OBVIOUS
<1> HIDE DEF c, e
<1>6. ASSUME NEW k \in 1 .. K, NEW p \in Below(Half)
      PROVE  c[p % F][((k - 1) * B) + (p \div F)] \in Fp
  <2> DEFINE u == k - 1
             q == p \div F
             r == p % F
  <2>1. u \in Below(K)
    BY <1>1 DEF Below
  <2> HIDE DEF u, F, B
  <2>2. p \in Below(B * F)
    BY <1>1
  <2>3. q \in Below(B) /\ r \in Below(F)
    BY <1>1, <2>2, StrideIndex
  <2> HIDE DEF q, r
  <2>4. u * B + q \in Below(K * B)
    BY <1>1, <2>1, <2>3, StrideBelow
  <2>5. c[r] \in [Below(Points) -> Fp]
    BY <1>3, <2>3
  <2>6. c[r][u * B + q] \in Fp
    BY <1>1, <2>4, <2>5
  <2>7. QED
    BY <2>6 DEF u, q, r
<1>7. PlainsFit(e)
  BY <1>4, <1>6 DEF PlainsFit
<1>8. ASSUME NEW r \in Below(F), NEW j \in Below(K)
      PROVE  Lane(e[j + 1], F, r, B) = Run(fft_interpolate(columns[r + 1]), B, j)
  <2>1. j + 1 \in 1 .. K /\ (j + 1) - 1 = j
    BY <1>1 DEF Below
  <2> DEFINE d == e[j + 1]
  <2>2. \A p \in Below(Half) : d[p] = c[p % F][(j * B) + (p \div F)]
    BY <1>4, <2>1
  <2> HIDE DEF d
  <2>3. ASSUME NEW q \in Below(B) PROVE d[q * F + r] = c[r][j * B + q]
    <3> DEFINE p == q * F + r
    <3>1. q \in Int
      BY <1>1, BelowIs
    <3> HIDE DEF F, B
    <3>2. p \in Below(B * F)
      BY <1>1, StrideBelow
    <3>3. p % F = r /\ p \div F = q
      BY <1>1, <3>1, Strides
    <3> HIDE DEF p
    <3>4. d[p] = c[r][j * B + q]
      BY <1>1, <2>2, <3>2, <3>3 DEF B
    <3>5. QED
      BY <3>4 DEF p
  <2>4. Lane(d, F, r, B) = [q \in Below(B) |-> c[r][j * B + q]]
    BY <2>3 DEF Lane
  <2>5. Run(c[r], B, j) = [q \in Below(B) |-> c[r][j * B + q]]
    BY DEF Run
  <2>6. QED
    BY <1>5, <2>4, <2>5 DEF d
<1>9. QED
  BY <1>7, <1>8 DEF e

(* The runs of the interpolation, put together at a row's point, are the   *)
(* value in that row of the column.                                        *)
LEMMA PiecesRight ==
    ASSUME batch \in Batches, NEW ids, IdsFit(ids), NEW columns, ColumnsFit(columns),
           NEW r \in Below(factor), NEW k \in 1 .. batch
    PROVE  Same(SumOn(Below(K), PieceValues(encode(columns), r, At1(ids, k))), columns[r + 1][ids[k]])
<1> DEFINE B == batch
           x == At1(ids, k)
           t == ids[k]
           col == columns[r + 1]
           c == fft_interpolate(col)
           V == PieceValues(encode(columns), r, x)
<1>1. B \in Nat \ {0} /\ K \in Nat \ {0} /\ Points = K * B /\ factor \in Nat
  BY SizesIs
<1>2. x \in Int /\ t \in Below(Points) /\ x = Power(Xi, t)
  BY PointsOfIs DEF At1
<1>3. col \in [Below(Points) -> Fp]
  <2>1. r + 1 \in 1 .. factor
    BY <1>1 DEF Below
  <2>2. QED
    BY <2>1 DEF ColumnsFit
<1> HIDE DEF col, x, t
<1>4. c \in [Below(Points) -> Fp] /\ Same(ValueOf(c, x), col[t])
  BY <1>2, <1>3, FftIs
<1>5. \A j \in Below(K) : V[j] = Power(x, j * B) * ValueOf(Run(c, B, j), x)
  <2> TAKE j \in Below(K)
  <2>1. V[j] = Power(x, j * batch) * ValueOf(Lane(encode(columns)[j + 1], factor, r, batch), x)
    BY DEF PieceValues
  <2>2. Lane(encode(columns)[j + 1], factor, r, batch) = Run(c, B, j)
    BY EncodeIs DEF col
  <2>3. QED
    BY <2>1, <2>2
<1> HIDE DEF V, c, B
<1>6. c \in Polys(K * B)
  <2>1. c \in Polys(Points)
    BY <1>4, FpInt DEF Polys
  <2>2. QED
    BY <1>1, <2>1
<1>7. Same(ValueOf(c, x), SumOn(Below(K), V))
  <2>1. K \in Nat
    BY <1>1
  <2>2. QED
    BY <1>1, <1>2, <1>5, <1>6, <2>1, SplitValue
<1>8. Same(SumOn(Below(K), V), col[t])
  BY <1>4, <1>7 DEF Same, Congruent
<1>9. QED
  BY <1>8 DEF V, col, t, x

\* What the guest computes from a feature's place in the response.
LEMMA ValuesAre ==
    ASSUME batch \in Batches, IdsFit(newIds), chara = Chara(newIds),
           NEW f, response[1 + (f \div factor)] \in [Ring -> Fp], f % factor \in Below(factor),
           NEW k \in 1 .. batch
    PROVE  /\ Values(f)[k] \in Fp /\ Values(f)[k] \in Int
           /\ Same(Values(f)[k], ValueOf(Lane(response[1 + (f \div factor)], factor, f % factor, 2 * batch), At1(newIds, k)))
<1> DEFINE B == batch
           F == factor
           m == 2 * B
           x == At1(newIds, k)
           t == newIds[k]
           r == f % F
           c == response[1 + (f \div F)]
           l == Lane(c, F, r, m)
           rem == Rem(l, chara)
           V == [i \in Below(B) |-> rem[i] * Power(x, i)]
<1>1. F \in Nat \ {0} /\ B \in Nat \ {0} /\ N = m * F /\ m \in Nat /\ B < m /\ B \in Nat /\ r \in Below(F)
  BY SizesIs
<1>2. x \in Int /\ t \in Below(Points) /\ t \in Nat /\ x = Power(Xi, t)
  BY PointsOfIs DEF At1
<1>3. l \in Polys(m)
  <2> HIDE DEF m, F, r, c
  <2>1. \A q \in Below(m) : q * F + r \in Ring
    BY <1>1, StrideBelow DEF Ring
  <2>2. c \in [Ring -> Int]
    BY FpInt DEF c, F
  <2>3. QED
    BY <2>1, <2>2 DEF Lane, Polys
<1>4. chara \in [Below(B + 1) -> Fp] /\ chara[B] = 1
  BY CharaIs
<1>5. Same(ValueOf(chara, x), 0)
  BY CharaIs
<1>6. Decomposed(f) = l
  BY DEF Decomposed, Lane
<1>7. Values(f) = [i \in 1 .. B |-> SumOf([j \in Below(B) |-> rem[j] * xi_powers[(newIds[i] * j) % Points]])]
  BY <1>6 DEF Values
<1> HIDE DEF l, m, B, x, t
<1>8. rem \in [Below(B) -> Fp] /\ \A z \in Int : Same(ValueOf(chara, z), 0) => Same(ValueOf(rem, z), ValueOf(l, z))
  BY <1>1, <1>3, <1>4, RemainderPoly
<1>9. Same(ValueOf(rem, x), ValueOf(l, x))
  BY <1>2, <1>5, <1>8
<1> HIDE DEF rem
<1>10. \A j \in Below(B) : xi_powers[(t * j) % Points] = Power(x, j)
  <2> TAKE j \in Below(B)
  <2>1. j \in Nat /\ t * j \in Int
    BY <1>1, <1>2, BelowIs
  <2>2. xi_powers[(t * j) % Points] = Turn(t * j)
    BY <2>1, TurnIs
  <2>3. Power(Turn(t), j) = Turn(t * j)
    BY <1>2, <2>1, TurnPower
  <2>4. Turn(t) = x
    BY <1>2, TurnIs
  <2>5. QED
    BY <2>2, <2>3, <2>4
<1>11. Values(f)[k] = SumOf(V)
  <2>1. Values(f)[k] = SumOf([j \in Below(B) |-> rem[j] * xi_powers[(t * j) % Points]])
    BY <1>7 DEF t, B
  <2>2. [j \in Below(B) |-> rem[j] * xi_powers[(t * j) % Points]] = V
    BY <1>10
  <2>3. QED
    BY <2>1, <2>2
<1> DEFINE v == ValueOf(rem, x)
<1>12. SumOf(V) = v % Prime
  <2>1. DOMAIN rem = Below(B)
    BY <1>8
  <2>2. QED
    BY <2>1 DEF SumOf, ValueOf, SumOn
<1>13. v \in Int
  <2>1. rem \in Polys(B)
    BY <1>8, FpInt DEF Polys
  <2>2. QED
    BY <1>1, <1>2, <2>1, ValueInt
<1> HIDE DEF v
<1>14. v % Prime \in Fp /\ v % Prime \in Int /\ Same(v % Prime, v)
  BY <1>13, SameIs
<1>15. Same(Values(f)[k], ValueOf(l, x))
  BY <1>9, <1>11, <1>12, <1>14 DEF Same, Congruent, v
<1>16. QED
  BY <1>11, <1>12, <1>14, <1>15 DEF l, x, m, B

-----------------------------------------------------------------------------
(* The grid, the keepers and the basis.                                    *)

(* OffLine as a fold over any list of positions.                           *)
NoneYet(line) == << >>
OffOrNot(line, off, p) == IF p \in Range(line) THEN off ELSE Append(off, p)
OffFold(line, s) == FoldLeft(LAMBDA off, p : IF p \in Range(line) THEN off ELSE Append(off, p), << >>, s)

(* The positions of a list that are not on a line, one by one.            *)
LEMMA OffFolds ==
    ASSUME NEW n \in Nat, NEW s, DOMAIN s = 1 .. n, NEW line
    PROVE  \E P : /\ P[0] = NoneYet(line)
                  /\ \A k \in 0 .. n - 1 : P[k + 1] = OffOrNot(line, P[k], s[k + 1])
                  /\ OffFold(line, s) = P[n]
<1> DEFINE Folds(D, iter) == iter = [x \in SUBSET D |->
                          IF x = {} THEN NoneYet(line)
                          ELSE OffOrNot(line, iter[x \ {Max(x)}], s[Max(x)])]
           S == {k \in 0 .. n : \E iter : Folds(1 .. k, iter)}
<1>1. OffFold(line, s) = (CHOOSE iter : Folds(1 .. n, iter))[1 .. n]
  BY DEF OffFold, NoneYet, OffOrNot, FoldLeft, MapThenFoldSet
<1>2. 0 \in S
  <2> DEFINE none == [x \in SUBSET (1 .. 0) |-> NoneYet(line)]
  <2>1. \A x \in SUBSET (1 .. 0) : x = {}
    OBVIOUS
  <2>2. Folds(1 .. 0, none)
    BY <2>1
  <2>3. QED
    BY <2>2
<1>3. ASSUME NEW k \in 0 .. n - 1, k \in S
      PROVE  k + 1 \in S
  <2>1. PICK iter : Folds(1 .. k, iter)
    BY <1>3
  <2> DEFINE more == [x \in SUBSET (1 .. k + 1) |->
                        IF k + 1 \in x THEN OffOrNot(line, iter[x \ {k + 1}], s[k + 1]) ELSE iter[x]]
  <2>2. ASSUME NEW x \in SUBSET (1 .. k + 1)
        PROVE  more[x] = IF x = {} THEN NoneYet(line) ELSE OffOrNot(line, more[x \ {Max(x)}], s[Max(x)])
    <3>1. CASE k + 1 \in x
      <4>1. Max(x) = k + 1 /\ x \ {k + 1} \in SUBSET (1 .. k)
        <5>1. k \in Nat
          OBVIOUS
        <5>2. QED
          BY <3>1, <5>1, LastOfAny
      <4>2. more[x \ {k + 1}] = iter[x \ {k + 1}]
        OBVIOUS
      <4>3. QED
        BY <3>1, <4>1, <4>2
    <3>2. CASE k + 1 \notin x
      <4>1. x \in SUBSET (1 .. k)
        BY <3>2
      <4>2. more[x] = iter[x]
        BY <3>2
      <4>3. x \ {Max(x)} \in SUBSET (1 .. k) /\ more[x \ {Max(x)}] = iter[x \ {Max(x)}]
        BY <3>2, <4>1
      <4>4. iter[x] = IF x = {} THEN NoneYet(line) ELSE OffOrNot(line, iter[x \ {Max(x)}], s[Max(x)])
        BY <2>1, <4>1
      <4>5. QED
        BY <4>2, <4>3, <4>4
    <3>3. QED
      BY <3>1, <3>2
  <2>3. Folds(1 .. k + 1, more)
    BY <2>2
  <2>4. k + 1 \in 0 .. n
    OBVIOUS
  <2>5. QED
    BY <2>3, <2>4
<1>4. n \in S
  <2> HIDE DEF S
  <2>1. \A k \in 0 .. n - 1 : k \in S => k + 1 \in S
    BY <1>3
  <2>2. \A k \in 0 .. n : k \in S
    BY <1>2, <2>1, InductionUpTo
  <2>3. QED
    BY <2>2
<1>5. PICK iter : Folds(1 .. n, iter) /\ OffFold(line, s) = iter[1 .. n]
  BY <1>1, <1>4
<1> DEFINE P == [k \in 0 .. n |-> iter[1 .. k]]
<1>6. P[0] = NoneYet(line)
  <2>1. iter[{}] = NoneYet(line)
    BY <1>5
  <2>2. 0 \in 0 .. n /\ 1 .. 0 = {}
    OBVIOUS
  <2> HIDE DEF Folds
  <2>3. QED
    BY <2>1, <2>2
<1>7. ASSUME NEW k \in 0 .. n - 1
      PROVE  P[k + 1] = OffOrNot(line, P[k], s[k + 1])
  <2>1. k \in Nat /\ k + 1 \in 1 .. k + 1 /\ \A x \in 1 .. k + 1 : x \in 1 .. n
    OBVIOUS
  <2>2. Max(1 .. k + 1) = k + 1 /\ (1 .. k + 1) \ {k + 1} = 1 .. k
    BY <2>1, LastOfPrefix
  <2>3. iter[1 .. k + 1] = OffOrNot(line, iter[1 .. k], s[k + 1])
    BY <1>5, <2>1, <2>2
  <2>4. QED
    BY <2>3
<1> HIDE DEF Folds
<1>8. OffFold(line, s) = P[n]
  BY <1>5
<1> HIDE DEF P
<1>9. QED
  BY <1>6, <1>7, <1>8

(* The positions off a line, each once.                                    *)
LEMMA OffLineIs ==
    ASSUME batch \in Nat, NEW line, NEW L, L = Range(line), L \subseteq 1 .. batch
    PROVE  /\ OffLine(line) \in Seq(1 .. batch)
           /\ Len(OffLine(line)) + Cardinality(L) = batch
           /\ \A p : (\E i \in 1 .. Len(OffLine(line)) : OffLine(line)[i] = p)
                         <=> p \in 1 .. batch /\ p \notin L
<1> DEFINE s == [p \in 1 .. batch |-> p]
<1>1. PICK P : /\ P[0] = NoneYet(line)
               /\ \A k \in 0 .. batch - 1 : P[k + 1] = OffOrNot(line, P[k], s[k + 1])
               /\ OffFold(line, s) = P[batch]
  <2>1. DOMAIN s = 1 .. batch
    OBVIOUS
  <2> DEFINE n == batch
  <2>2. n \in Nat /\ DOMAIN s = 1 .. n
    BY <2>1
  <2> HIDE DEF s, n
  <2>3. \E P : /\ P[0] = NoneYet(line)
               /\ \A k \in 0 .. n - 1 : P[k + 1] = OffOrNot(line, P[k], s[k + 1])
               /\ OffFold(line, s) = P[n]
    BY <2>2, OffFolds
  <2>4. QED
    BY <2>3 DEF n
<1>2. OffLine(line) = P[batch]
  BY <1>1 DEF OffLine, OffFold
<1>3. \A k \in 0 .. batch - 1 : P[k + 1] = IF k + 1 \in L THEN P[k] ELSE Append(P[k], k + 1)
  BY <1>1 DEF OffOrNot
<1>4. P[0] = << >>
  BY <1>1 DEF NoneYet
<1>5. IsFiniteSet(L)
  <2>1. IsFiniteSet(1 .. batch)
    BY FS_Interval
  <2>2. QED
    BY <2>1, FS_Subset
<1> DEFINE Upto(k) == L \cap (1 .. k)
           Good(k) == /\ P[k] \in Seq(1 .. batch)
                      /\ Len(P[k]) + Cardinality(Upto(k)) = k
                      /\ \A p : (\E i \in 1 .. Len(P[k]) : P[k][i] = p) <=> p \in 1 .. k /\ p \notin L
           S == {k \in 0 .. batch : Good(k)}
<1> HIDE DEF s
<1>6. Good(0)
  <2>1. Upto(0) = {} /\ Len(P[0]) = 0 /\ P[0] \in Seq(1 .. batch) /\ 1 .. 0 = {}
    BY <1>4
  <2>2. Cardinality({}) = 0
    BY FS_EmptySet
  <2>3. QED
    BY <2>1, <2>2
<1>7. ASSUME NEW k \in 0 .. batch - 1, Good(k)
      PROVE  Good(k + 1)
  <2>1. k \in Nat /\ k + 1 \in 1 .. batch
    OBVIOUS
  <2> DEFINE a == P[k]
             u == Upto(k)
  <2>2. a \in Seq(1 .. batch) /\ Len(a) + Cardinality(u) = k
        /\ \A p : (\E i \in 1 .. Len(a) : a[i] = p) <=> p \in 1 .. k /\ p \notin L
    BY <1>7
  <2>3. IsFiniteSet(u)
    BY <1>5, FS_Subset
  <2>4. \A p : p \in 1 .. k + 1 <=> p \in 1 .. k \/ p = k + 1
    BY <2>1
  <2>5. Cardinality(u) \in Nat
    BY <2>3, FS_CardinalityType
  <2>6. CASE k + 1 \in L
    <3>1. P[k + 1] = a
      BY <1>3, <2>6
    <3>2. Upto(k + 1) = u \cup {k + 1} /\ k + 1 \notin u
      BY <2>4, <2>6
    <3> HIDE DEF u, a
    <3>3. Cardinality(u \cup {k + 1}) = Cardinality(u) + 1
      BY <2>3, <3>2, FS_AddElement
    <3>4. Len(a) + Cardinality(Upto(k + 1)) = k + 1
      <4>1. Len(a) \in Nat
        BY <2>2
      <4> DEFINE y == Len(a)
                 z == Cardinality(u)
      <4>2. Cardinality(Upto(k + 1)) = z + 1
        BY <3>2, <3>3
      <4>3. y \in Nat /\ z \in Nat /\ y + z = k
        BY <2>2, <2>5, <4>1
      <4> HIDE DEF y, z
      <4>4. y + (z + 1) = k + 1
        BY <4>3
      <4>5. QED
        BY <4>2, <4>4 DEF y
    <3> HIDE DEF Upto
    <3>5. \A p : (\E i \in 1 .. Len(a) : a[i] = p) <=> p \in 1 .. k + 1 /\ p \notin L
      BY <2>2, <2>4, <2>6
    <3>6. QED
      BY <2>2, <3>1, <3>4, <3>5
  <2>7. CASE k + 1 \notin L
    <3>1. P[k + 1] = Append(a, k + 1)
      BY <1>3, <2>7
    <3>2. Upto(k + 1) = u
      BY <2>4, <2>7
    <3> DEFINE b == P[k + 1]
               c == k + 1
    <3> HIDE DEF a, u, Upto
    <3>3. b \in Seq(1 .. batch) /\ Len(b) = Len(a) + 1 /\ b[Len(a) + 1] = c
          /\ \A i \in 1 .. Len(a) : b[i] = a[i]
      <4>1. c \in 1 .. batch /\ b = Append(a, c)
        BY <2>1, <3>1
      <4> HIDE DEF b, c
      <4>2. QED
        BY <2>2, <4>1
    <3>4. Len(a) \in Nat
      BY <2>2
    <3> HIDE DEF b
    <3>5. Len(b) + Cardinality(Upto(c)) = c
      <4> DEFINE y == Len(a)
                 z == Cardinality(u)
      <4>1. Cardinality(Upto(c)) = z
        BY <3>2
      <4>2. y \in Nat /\ z \in Nat /\ y + z = k /\ Len(b) = y + 1
        BY <2>2, <2>5, <3>3, <3>4
      <4> HIDE DEF y, z
      <4>3. y + 1 + z = k + 1
        BY <4>2
      <4>4. QED
        BY <4>1, <4>2, <4>3
    <3>6. \A i : i \in 1 .. Len(b) <=> i \in 1 .. Len(a) \/ i = Len(a) + 1
      BY <3>3, <3>4
    <3>7. ASSUME NEW p
          PROVE  (\E i \in 1 .. Len(b) : b[i] = p) <=> p \in 1 .. c /\ p \notin L
      <4>1. (\E i \in 1 .. Len(b) : b[i] = p) <=> (\E i \in 1 .. Len(a) : a[i] = p) \/ p = c
        BY <3>3, <3>6
      <4>2. p \in 1 .. c <=> p \in 1 .. k \/ p = c
        BY <2>4
      <4> HIDE DEF c
      <4>3. c \notin L
        BY <2>7 DEF c
      <4>4. QED
        BY <2>2, <4>1, <4>2, <4>3
    <3>8. QED
      BY <3>3, <3>5, <3>7 DEF b
  <2>8. QED
    BY <2>6, <2>7
<1>8. Good(batch)
  <2> HIDE DEF Good
  <2>1. 0 \in S /\ \A k \in 0 .. batch - 1 : k \in S => k + 1 \in S
    BY <1>6, <1>7
  <2> HIDE DEF S
  <2>2. \A k \in 0 .. batch : k \in S
    BY <2>1, InductionUpTo
  <2>3. batch \in 0 .. batch
    OBVIOUS
  <2>4. QED
    BY <2>2, <2>3 DEF S
<1>9. Upto(batch) = L
  OBVIOUS
<1>10. QED
  BY <1>2, <1>8, <1>9

(* Elements that are equal in the field are equal.                         *)
LEMMA FieldDistinct ==
    ASSUME NEW a \in Fp, NEW b \in Fp, Same(a - b, 0)
    PROVE  a = b
<1> DEFINE d == a - b
           zero == 0
<1>1. a \in Int /\ b \in Int
  BY FpInt
<1>2. d \in Int /\ zero \in Int /\ Same(d, zero) /\ Same(b, b)
  BY <1>1 DEF Same, Congruent
<1>3. d + b = a /\ zero + b = b
  BY <1>1
<1> HIDE DEF d, zero
<1>4. Same(d + b, zero + b)
  BY <1>1, <1>2, SameArithmetic
<1>5. a % Prime = b % Prime
  BY <1>3, <1>4 DEF Same, Congruent
<1>6. a % Prime = a /\ b % Prime = b
  BY <1>1, SameIs
<1>7. QED
  BY <1>5, <1>6

(* c different positions.                                                  *)
LineFits(line, c) ==
    /\ c \in Nat /\ line \in [1 .. c -> 1 .. batch]
    /\ \A i, j \in 1 .. c : line[i] = line[j] => i = j
(* The points of the batch are elements of the field.                      *)
PointsFit(points) ==
    /\ batch \in Nat
    /\ points \in [1 .. batch -> Fp]

(* A line of the grid has as many positions as it is long.                 *)
LEMMA LineIs ==
    ASSUME batch \in Nat, NEW line, NEW c, LineFits(line, c)
    PROVE  /\ DOMAIN line = 1 .. c /\ Range(line) \subseteq 1 .. batch
           /\ Cardinality(Range(line)) = c
           /\ \A p : p \in Range(line) <=> \E i \in 1 .. c : line[i] = p
<1> DEFINE L == Range(line)
           S == 1 .. c
<1>1. c \in Nat /\ line \in [S -> 1 .. batch] /\ \A i, j \in S : line[i] = line[j] => i = j
  BY DEF LineFits
<1>2. L = {line[i] : i \in S} /\ DOMAIN line = S
  BY <1>1 DEF Range
<1>3. IsFiniteSet(S) /\ Cardinality(S) = c
  BY <1>1, FS_Interval
<1>4. line \in [S -> L]
  BY <1>1, <1>2
<1>5. ExistsBijection(S, L)
  <2>1. line \in Bijection(S, L)
    BY <1>1, <1>2, <1>4 DEF Bijection, Injection, Surjection, IsInjective
  <2>2. QED
    BY <2>1 DEF ExistsBijection
<1>6. Cardinality(L) = c
  <2> HIDE DEF S, L
  <2>1. QED
    BY <1>3, <1>5, FS_Bijection
<1>7. QED
  BY <1>1, <1>2, <1>6

(* The polynomial that vanishes off a line, and only there.                *)
LEMMA KillerIs ==
    ASSUME NEW points, PointsFit(points), NEW line, NEW c, LineFits(line, c)
    PROVE  \E m \in Nat :
             /\ m + c = batch /\ Killer(points, line) \in [Below(m + 1) -> Fp]
             /\ \A x \in Int : Same(ValueOf(Killer(points, line), x), 0)
                   <=> \E p \in 1 .. batch : p \notin Range(line) /\ Same(x - points[p], 0)
<1> DEFINE L == Range(line)
           off == OffLine(line)
           m == Len(off)
           s == Select(points, off)
           f == Killer(points, line)
<1>1. batch \in Nat /\ points \in [1 .. batch -> Fp] /\ \A p \in 1 .. batch : points[p] \in Int
  BY FpInt DEF PointsFit
<1>2. L \subseteq 1 .. batch /\ Cardinality(L) = c
  BY <1>1, LineIs
<1>3. /\ off \in Seq(1 .. batch) /\ m + Cardinality(L) = batch
      /\ \A p : (\E i \in 1 .. m : off[i] = p) <=> p \in 1 .. batch /\ p \notin L
  <2> HIDE DEF L
  <2>1. QED
    BY <1>1, <1>2, OffLineIs DEF L
<1>4. m \in Nat /\ DOMAIN off = 1 .. m /\ \A i \in 1 .. m : off[i] \in 1 .. batch
  <2> HIDE DEF off
  <2>1. QED
    BY <1>3
<1>5. s = [i \in 1 .. m |-> points[off[i]]]
  BY <1>4 DEF Select
<1>6. f = BuildFromRoots(s)
  BY DEF Killer
<1> HIDE DEF m, off, L
<1>7. DOMAIN s = 1 .. m /\ \A i \in 1 .. m : s[i] \in Int /\ s[i] = points[off[i]]
  BY <1>1, <1>4, <1>5
<1> HIDE DEF s, f
<1>8. /\ f \in [Below(m + 1) -> Fp]
      /\ \A x \in Int : Same(ValueOf(f, x), 0) <=> \E i \in 1 .. m : Same(x - s[i], 0)
  BY <1>4, <1>6, <1>7, RootsIs
<1>9. ASSUME NEW x \in Int
      PROVE  (\E i \in 1 .. m : Same(x - s[i], 0))
                <=> \E p \in 1 .. batch : p \notin L /\ Same(x - points[p], 0)
  <2>1. ASSUME NEW i \in 1 .. m, Same(x - s[i], 0)
        PROVE  \E p \in 1 .. batch : p \notin L /\ Same(x - points[p], 0)
    BY <1>3, <1>4, <1>7, <2>1
  <2>2. ASSUME NEW p \in 1 .. batch, p \notin L, Same(x - points[p], 0)
        PROVE  \E i \in 1 .. m : Same(x - s[i], 0)
    BY <1>3, <1>7, <2>2
  <2>3. QED
    BY <2>1, <2>2
<1>10. m + c = batch
  BY <1>2, <1>3
<1>11. QED
  BY <1>4, <1>8, <1>9, <1>10 DEF f, L

(* Different points have every inverse the keepers need.                   *)
LEMMA DistinctInvertible ==
    ASSUME NEW points, PointsFit(points), NEW line, NEW c, LineFits(line, c),
           \A p, q \in 1 .. batch : points[p] = points[q] => p = q
    PROVE  Invertible(points, line)
<1>1. batch \in Nat /\ points \in [1 .. batch -> Fp] /\ \A p \in 1 .. batch : points[p] \in Int
  BY FpInt DEF PointsFit
<1>2. c \in Nat /\ line \in [1 .. c -> 1 .. batch] /\ \A i, j \in 1 .. c : line[i] = line[j] => i = j
  BY DEF LineFits
<1>3. Range(line) \subseteq 1 .. batch
  BY <1>1, LineIs
<1>4. IsInjective(Select(points, line))
  BY <1>2 DEF IsInjective, Select
<1>5. ASSUME NEW p \in Range(line) PROVE Eval(Killer(points, line), points[p]) # 0
  <2> DEFINE f == Killer(points, line)
             x == points[p]
             e == Eval(f, x)
  <2>1. PICK m \in Nat :
             /\ m + c = batch /\ f \in [Below(m + 1) -> Fp]
             /\ \A z \in Int : Same(ValueOf(f, z), 0)
                   <=> \E q \in 1 .. batch : q \notin Range(line) /\ Same(z - points[q], 0)
    BY KillerIs
  <2>2. x \in Int /\ x \in Fp
    BY <1>1, <1>3
  <2>3. ~ Same(ValueOf(f, x), 0)
    <3> SUFFICES ASSUME Same(ValueOf(f, x), 0) PROVE FALSE
      OBVIOUS
    <3>1. PICK q \in 1 .. batch : q \notin Range(line) /\ Same(x - points[q], 0)
      BY <2>1, <2>2
    <3> DEFINE y == points[q]
    <3>2. y \in Fp /\ Same(x - y, 0)
      BY <1>1, <3>1
    <3> HIDE DEF x, y
    <3>3. x = y
      BY <2>2, <3>2, FieldDistinct
    <3>4. p \in 1 .. batch
      BY <1>3
    <3>5. p = q
      BY <3>3, <3>4 DEF x, y
    <3>6. QED
      BY <3>1, <3>5
  <2> DEFINE n == m + 1
  <2>4. n \in Nat /\ f \in [Below(n) -> Fp]
    BY <2>1
  <2> HIDE DEF f, n, x
  <2>5. f \in Polys(n)
    BY <2>4, FpPoly
  <2>6. Same(e, ValueOf(f, x))
    BY <2>2, <2>4, <2>5, EvalIs
  <2> HIDE DEF e
  <2>7. e # 0
    BY <2>3, <2>6 DEF Same, Congruent
  <2>8. QED
    BY <2>7 DEF e, f, x
<1>6. QED
  BY <1>4, <1>5 DEF Invertible

(* The points that a line keeps.                                           *)
LEMMA KeptIs ==
    ASSUME NEW points, PointsFit(points), NEW line, NEW c, LineFits(line, c), Invertible(points, line)
    PROVE  /\ Select(points, line) = [i \in 1 .. c |-> points[line[i]]]
           /\ Select(points, line) \in Seq(Int) /\ Len(Select(points, line)) = c
           /\ Apart(c, Select(points, line))
<1> DEFINE s == Select(points, line)
<1>1. batch \in Nat /\ points \in [1 .. batch -> Fp]
  BY DEF PointsFit
<1>2. c \in Nat /\ line \in [1 .. c -> 1 .. batch]
  BY DEF LineFits
<1>3. s = [i \in 1 .. c |-> points[line[i]]]
  BY <1>2 DEF Select
<1>4. s \in [1 .. c -> Fp]
  BY <1>1, <1>2, <1>3
<1>5. s \in Seq(Int) /\ Len(s) = c
  <2> HIDE DEF s
  <2>1. s \in [1 .. c -> Int]
    BY <1>4, FpInt
  <2>2. QED
    BY <1>2, <2>1
<1>6. IsInjective(s)
  BY DEF Invertible
<1>7. Apart(c, s)
  <2> HIDE DEF s
  <2> SUFFICES ASSUME NEW i \in 1 .. c, NEW k \in 1 .. c, i # k, Same(s[i] - s[k], 0) PROVE FALSE
    BY DEF Apart
  <2> DEFINE a == s[i]
             b == s[k]
  <2>1. a \in Fp /\ b \in Fp /\ Same(a - b, 0)
    BY <1>4
  <2> HIDE DEF a, b
  <2>2. a = b
    BY <2>1, FieldDistinct
  <2>3. DOMAIN s = 1 .. c
    BY <1>4
  <2>4. s[i] = s[k]
    BY <2>2 DEF a, b
  <2>5. QED
    BY <1>6, <2>3, <2>4 DEF IsInjective
<1>8. QED
  BY <1>3, <1>5, <1>7

(* A keeper has at most batch coefficients; it is 1 at the points of its   *)
(* line and 0 at the others.                                               *)
LEMMA KeeperIs ==
    ASSUME NEW points, PointsFit(points), NEW line, NEW c, LineFits(line, c), Invertible(points, line)
    PROVE  /\ \E l \in Nat : l <= batch /\ Keeper(points, line) \in [Below(l) -> Fp]
           /\ \A p \in 1 .. batch : Same(ValueOf(Keeper(points, line), points[p]),
                                         IF p \in Range(line) THEN 1 ELSE 0)
<1> DEFINE L == Range(line)
           s == Select(points, line)
           f == Killer(points, line)
           w == [i \in DOMAIN s |-> Inv(Eval(f, s[i]))]
           g == Interpolate(s, w)
           h == Mul(f, g)
           z == Keeper(points, line)
<1>1. batch \in Nat /\ points \in [1 .. batch -> Fp] /\ \A p \in 1 .. batch : points[p] \in Int
  BY FpInt DEF PointsFit
<1>2. c \in Nat /\ line \in [1 .. c -> 1 .. batch]
  BY DEF LineFits
<1>3. /\ s = [i \in 1 .. c |-> points[line[i]]] /\ s \in Seq(Int) /\ Len(s) = c /\ Apart(c, s)
  BY KeptIs
<1>4. PICK m \in Nat :
           /\ m + c = batch /\ f \in [Below(m + 1) -> Fp]
           /\ \A x \in Int : Same(ValueOf(f, x), 0)
                 <=> \E q \in 1 .. batch : q \notin L /\ Same(x - points[q], 0)
  BY KillerIs
<1>5. z = Normal(h)
  BY DEF Keeper
<1>6. \A p : p \in L <=> \E i \in 1 .. c : line[i] = p
  BY <1>1, LineIs
<1> DEFINE n == m + 1
<1>7. n \in Nat \ {0} /\ n \in Nat /\ f \in [Below(n) -> Fp] /\ n + c - 1 = batch
  BY <1>1, <1>2, <1>4
<1>8. f \in Polys(n)
  <2> HIDE DEF f, n
  <2>1. QED
    BY <1>7, FpPoly
<1> HIDE DEF n, f
<1>9. ASSUME NEW i \in 1 .. c
      PROVE  /\ s[i] = points[line[i]] /\ s[i] \in Int /\ w[i] \in Int
             /\ Same(ValueOf(f, s[i]) * w[i], 1)
  <2> DEFINE x == s[i]
             e == Eval(f, x)
             v == ValueOf(f, x)
             y == Inv(e)
  <2>1. x = points[line[i]] /\ line[i] \in L
    BY <1>3, <1>6
  <2>2. x \in Int
    BY <1>1, <1>2, <2>1
  <2>3. e # 0
    BY <2>1 DEF Invertible, f
  <2>6. w[i] = y
    BY <1>3
  <2> HIDE DEF x, s, w
  <2>4. e \in Fp /\ e \in Int /\ Same(e, v) /\ v \in Int
    BY <1>7, <1>8, <2>2, EvalIs, ValueInt
  <2> HIDE DEF e, v
  <2>5. ~ Same(e, 0)
    <3> SUFFICES ASSUME Same(e, 0) PROVE FALSE
      OBVIOUS
    <3> DEFINE zero == 0
    <3>1. zero \in Fp /\ e - zero = e /\ zero = 0
      BY <2>4, FpInt
    <3> HIDE DEF zero
    <3>2. Same(e - zero, 0)
      BY <3>1
    <3>3. e = zero
      BY <2>4, <3>1, <3>2, FieldDistinct
    <3>4. QED
      BY <2>3, <3>1, <3>3
  <2>7. y \in Int /\ Same(e * y, 1)
    BY <2>4, <2>5, InverseIs
  <2> HIDE DEF y
  <2>8. Same(v, e)
    BY <2>4 DEF Same, Congruent
  <2>9. Same(v * y, e * y)
    BY <2>4, <2>7, <2>8, SameScaled
  <2>10. Same(v * y, 1)
    BY <2>7, <2>9 DEF Same, Congruent
  <2>11. QED
    BY <2>1, <2>2, <2>6, <2>7, <2>10 DEF v, x
<1>10. /\ g \in [Below(c) -> Fp]
       /\ \A i \in 1 .. c : Same(ValueOf(g, s[i]), w[i])
  <2>1. \A i \in 1 .. c : w[i] \in Int
    BY <1>9
  <2> HIDE DEF s, w
  <2>2. QED
    BY <1>2, <1>3, <2>1, InterpolateIs
<1> HIDE DEF g, w
<1>11. g \in Polys(c)
  BY <1>10, FpPoly
<1>12. /\ h \in [Below(batch) -> Fp]
       /\ \A x \in Int : Same(ValueOf(h, x), ValueOf(f, x) * ValueOf(g, x))
  <2>1. /\ h \in [Below(n + c - 1) -> Fp]
        /\ \A x \in Int : Same(ValueOf(h, x), ValueOf(f, x) * ValueOf(g, x))
    BY <1>2, <1>7, <1>8, <1>11, MulIs
  <2>2. QED
    BY <1>7, <2>1
<1> HIDE DEF h, z, s
<1>13. PICK l \in Nat : /\ l <= batch /\ z \in [Below(l) -> Fp]
                        /\ \A k \in Int : At(z, k) = At(h, k)
  BY <1>1, <1>5, <1>12, NormalIs
<1>14. h \in Polys(batch) /\ z \in Polys(l)
  BY <1>12, <1>13, FpPoly
<1>15. \A x \in Int : Same(ValueOf(z, x), ValueOf(f, x) * ValueOf(g, x))
  <2> TAKE x \in Int
  <2>1. \A k \in Below(batch) : h[k] = At(z, k)
    <3> TAKE k \in Below(batch)
    <3>1. k \in Int /\ At(h, k) = h[k]
      BY <1>1, <1>12, BelowIs DEF At
    <3>2. QED
      BY <1>13, <3>1
  <2>2. Same(ValueOf(h, x), ValueOf(z, x))
    BY <1>1, <1>13, <1>14, <2>1, ValuePadded
  <2>3. QED
    BY <1>12, <2>2 DEF Same, Congruent
<1>16. ASSUME NEW p \in 1 .. batch
       PROVE  Same(ValueOf(z, points[p]), IF p \in L THEN 1 ELSE 0)
  <2> DEFINE x == points[p]
             u == ValueOf(f, x)
             v == ValueOf(g, x)
  <2>1. x \in Int
    BY <1>1
  <2>2. u \in Int /\ v \in Int
    <3> HIDE DEF x
    <3>1. u \in Int
      BY <1>7, <1>8, <2>1, ValueInt
    <3>2. v \in Int
      BY <1>2, <1>11, <2>1, ValueInt
    <3>3. QED
      BY <3>1, <3>2
  <2>3. Same(ValueOf(z, x), u * v)
    BY <1>15, <2>1
  <2>4. CASE p \in L
    <3>1. PICK i \in 1 .. c : line[i] = p
      BY <1>6, <2>4
    <3> DEFINE y == w[i]
    <3>2. s[i] = x /\ y \in Int /\ Same(ValueOf(f, s[i]) * y, 1) /\ Same(ValueOf(g, s[i]), y)
      BY <1>9, <1>10, <3>1
    <3>3. Same(u * y, 1) /\ Same(v, y)
      BY <3>2
    <3> HIDE DEF u, v, y
    <3>4. Same(u * v, u * y)
      BY <2>2, <3>2, <3>3, SameScaled
    <3>5. QED
      BY <2>3, <2>4, <3>3, <3>4 DEF Same, Congruent
  <2>5. CASE p \notin L
    <3>1. Same(x - points[p], 0)
      <4>1. x = points[p]
        OBVIOUS
      <4> HIDE DEF x
      <4>2. x - points[p] = 0
        BY <2>1, <4>1
      <4>3. QED
        BY <4>2 DEF Same, Congruent
    <3>2. Same(u, 0)
      <4>1. \A r \in Int : Same(ValueOf(f, r), 0)
                 <=> \E q \in 1 .. batch : q \notin L /\ Same(r - points[q], 0)
        BY <1>4 DEF f
      <4> HIDE DEF x
      <4>2. QED
        BY <2>1, <2>5, <3>1, <4>1
    <3> DEFINE zero == 0
    <3>3. zero \in Int /\ Same(u, zero)
      BY <3>2
    <3> HIDE DEF u, v, zero
    <3>4. Same(u * v, zero * v)
      BY <2>2, <3>3, SameScaled
    <3>5. zero * v = 0
      BY <2>2 DEF zero
    <3>6. QED
      BY <2>3, <2>5, <3>4, <3>5 DEF Same, Congruent
  <2>6. QED
    BY <2>4, <2>5 DEF x
<1>17. QED
  BY <1>13, <1>16 DEF z, L

(* The batch as a grid of R rows and C columns.                            *)
Grid(R, C) == R \in Nat /\ C \in Nat \ {0} /\ batch = R * C /\ GuestCols = C

(* Position p is on row (p - 1) \div C and on column (p - 1) % C.          *)
LEMMA Position ==
    ASSUME NEW R, NEW C, Grid(R, C), NEW r \in 1 .. R, NEW c \in 1 .. C
    PROVE  /\ ((r - 1) * C) + c \in 1 .. batch
           /\ ((((r - 1) * C) + c) - 1) \div C = r - 1
           /\ ((((r - 1) * C) + c) - 1) % C = c - 1
<1> DEFINE a == r - 1
           b == c - 1
           t == a * C
<1>1. R \in Nat /\ C \in Nat \ {0} /\ C \in Nat /\ batch = R * C
  BY DEF Grid
<1>2. a \in Below(R) /\ b \in Below(C) /\ a \in Int /\ b \in Int /\ b + 1 = c
  BY <1>1 DEF Below
<1> HIDE DEF a, b
<1>3. t + b \in Below(R * C) /\ t \in Nat
  BY <1>1, <1>2, StrideBelow
<1>4. (t + b) % C = b /\ (t + b) \div C = a
  BY <1>1, <1>2, Strides
<1>5. R * C \in Nat
  BY <1>1
<1> HIDE DEF t
<1>6. t + b \in Nat /\ t + b < R * C
  BY <1>3, <1>5, BelowIs
<1>7. (t + c) - 1 = t + b
  BY <1>2, <1>3
<1>8. t + c \in 1 .. batch
  <2> DEFINE m == R * C
  <2>1. m \in Nat /\ t + b \in Nat /\ t + b < m
    BY <1>5, <1>6
  <2> HIDE DEF m
  <2>2. t + c = t + b + 1
    BY <1>2, <1>3
  <2>3. t + c \in 1 .. m
    <3> DEFINE d == t + b
    <3>1. d \in Nat /\ d < m /\ t + c = d + 1
      BY <2>1, <2>2
    <3> HIDE DEF d
    <3>2. d + 1 \in 1 .. m
      BY <2>1, <3>1
    <3>3. QED
      BY <3>1, <3>2
  <2>4. QED
    BY <1>1, <2>3 DEF m
<1>9. QED
  BY <1>4, <1>7, <1>8 DEF t, a, b

(* Every position has its row and its column.                              *)
LEMMA PlaceOf ==
    ASSUME NEW R, NEW C, Grid(R, C), NEW p \in 1 .. batch
    PROVE  \E r \in 1 .. R, c \in 1 .. C :
              r = 1 + ((p - 1) \div C) /\ c = 1 + ((p - 1) % C) /\ p = ((r - 1) * C) + c
<1> DEFINE i == p - 1
           a == i \div C
           b == i % C
<1>1. R \in Nat /\ C \in Nat \ {0} /\ C \in Nat /\ batch = R * C /\ R * C \in Nat
  BY DEF Grid
<1>2. i \in Below(R * C) /\ p = i + 1
  <2> DEFINE m == R * C
  <2>1. m \in Nat /\ p \in 1 .. m
    BY <1>1
  <2> HIDE DEF m
  <2>2. i \in Below(m) /\ p = i + 1
    BY <2>1 DEF Below
  <2>3. QED
    BY <2>2 DEF m
<1>3. a \in Below(R) /\ b \in Below(C) /\ i = a * C + b
  <2> HIDE DEF i
  <2>1. QED
    BY <1>1, <1>2, StrideIndex
<1>4. a \in Nat /\ a < R /\ b \in Nat /\ b < C
  BY <1>1, <1>3, BelowIs
<1> HIDE DEF a, b, i
<1> DEFINE r == 1 + a
           c == 1 + b
<1>5. r \in 1 .. R /\ c \in 1 .. C /\ r - 1 = a
  BY <1>1, <1>4
<1>6. a * C \in Int
  BY <1>1, <1>4
<1> DEFINE t == a * C
<1>7. t \in Int /\ p = t + b + 1
  BY <1>2, <1>3, <1>6
<1> HIDE DEF t
<1>8. p = t + c
  BY <1>4, <1>7
<1>9. p = ((r - 1) * C) + c
  BY <1>5, <1>8 DEF t
<1> HIDE DEF r, c
<1>10. r = 1 + ((p - 1) \div C) /\ c = 1 + ((p - 1) % C)
  BY DEF r, c, a, b, i
<1>11. QED
  BY <1>5, <1>9, <1>10

(* A row of the grid is a line and holds the positions with its quotient.  *)
LEMMA RowIs ==
    ASSUME NEW R, NEW C, Grid(R, C), NEW r \in 1 .. R
    PROVE  /\ LineFits(RowLines[r], C)
           /\ \A p \in 1 .. batch : p \in Range(RowLines[r]) <=> 1 + ((p - 1) \div C) = r
<1> DEFINE line == RowLines[r]
<1>1. R \in Nat /\ C \in Nat \ {0} /\ C \in Nat /\ GuestCols = C
  BY DEF Grid
<1>2. batch \div C = R
  <2>1. batch = R * C
    BY DEF Grid
  <2> DEFINE zero == 0
  <2>2. zero \in Below(C) /\ R * C + zero = R * C
    BY <1>1 DEF Below
  <2> HIDE DEF zero
  <2>3. (R * C + zero) \div C = R
    BY <1>1, <2>2, Strides
  <2>4. QED
    BY <2>1, <2>2, <2>3
<1>3. line = [c \in 1 .. C |-> ((r - 1) * C) + c]
  BY <1>1, <1>2 DEF RowLines
<1>4. \A c \in 1 .. C : line[c] = ((r - 1) * C) + c
  BY <1>3
<1>5. DOMAIN line = 1 .. C
  BY <1>3
<1> HIDE DEF line
<1>6. \A c \in 1 .. C : /\ line[c] \in 1 .. batch /\ (line[c] - 1) \div C = r - 1
                        /\ (line[c] - 1) % C = c - 1
  BY <1>4, Position
<1>7. line \in [1 .. C -> 1 .. batch]
  <2>1. line = [c \in 1 .. C |-> line[c]]
    BY <1>3, <1>4
  <2>2. QED
    BY <1>6, <2>1
<1>8. \A c, d \in 1 .. C : line[c] = line[d] => c = d
  <2> TAKE c, d \in 1 .. C
  <2> HAVE line[c] = line[d]
  <2>1. c - 1 = d - 1
    BY <1>6
  <2>2. QED
    BY <1>1, <2>1
<1>9. ASSUME NEW p \in 1 .. batch
      PROVE  p \in Range(line) <=> 1 + ((p - 1) \div C) = r
  <2>1. p \in Range(line) <=> \E c \in 1 .. C : line[c] = p
    BY <1>5 DEF Range
  <2>2. ASSUME NEW c \in 1 .. C, line[c] = p PROVE 1 + ((p - 1) \div C) = r
    <3>1. (p - 1) \div C = r - 1
      BY <1>6, <2>2
    <3>2. QED
      BY <1>1, <3>1
  <2>3. ASSUME 1 + ((p - 1) \div C) = r PROVE \E c \in 1 .. C : line[c] = p
    <3>1. PICK q \in 1 .. R, c \in 1 .. C : q = 1 + ((p - 1) \div C) /\ p = ((q - 1) * C) + c
      BY PlaceOf
    <3>2. q = r
      BY <2>3, <3>1
    <3>3. QED
      BY <1>4, <3>1, <3>2
  <2>4. QED
    BY <2>1, <2>2, <2>3
<1>10. QED
  BY <1>1, <1>7, <1>8, <1>9 DEF LineFits, line

(* A column is a line and holds the positions with its remainder.          *)
LEMMA ColIs ==
    ASSUME NEW R, NEW C, Grid(R, C), NEW c \in 1 .. C
    PROVE  /\ LineFits(ColLines[c], R)
           /\ \A p \in 1 .. batch : p \in Range(ColLines[c]) <=> 1 + ((p - 1) % C) = c
<1> DEFINE line == ColLines[c]
<1>1. R \in Nat /\ C \in Nat \ {0} /\ C \in Nat /\ GuestCols = C
  BY DEF Grid
<1>2. batch \div C = R
  <2>1. batch = R * C
    BY DEF Grid
  <2> DEFINE zero == 0
  <2>2. zero \in Below(C) /\ R * C + zero = R * C
    BY <1>1 DEF Below
  <2> HIDE DEF zero
  <2>3. (R * C + zero) \div C = R
    BY <1>1, <2>2, Strides
  <2>4. QED
    BY <2>1, <2>2, <2>3
<1>3. line = [r \in 1 .. R |-> ((r - 1) * C) + c]
  BY <1>1, <1>2 DEF ColLines
<1>4. \A r \in 1 .. R : line[r] = ((r - 1) * C) + c
  BY <1>3
<1>5. DOMAIN line = 1 .. R
  BY <1>3
<1> HIDE DEF line
<1>6. \A r \in 1 .. R : /\ line[r] \in 1 .. batch /\ (line[r] - 1) \div C = r - 1
                        /\ (line[r] - 1) % C = c - 1
  BY <1>4, Position
<1>7. line \in [1 .. R -> 1 .. batch]
  <2>1. line = [r \in 1 .. R |-> line[r]]
    BY <1>3, <1>4
  <2>2. QED
    BY <1>6, <2>1
<1>8. \A r, d \in 1 .. R : line[r] = line[d] => r = d
  <2> TAKE r, d \in 1 .. R
  <2> HAVE line[r] = line[d]
  <2>1. r - 1 = d - 1
    BY <1>6
  <2>2. QED
    BY <1>1, <2>1
<1>9. ASSUME NEW p \in 1 .. batch
      PROVE  p \in Range(line) <=> 1 + ((p - 1) % C) = c
  <2>1. p \in Range(line) <=> \E r \in 1 .. R : line[r] = p
    BY <1>5 DEF Range
  <2>2. ASSUME NEW r \in 1 .. R, line[r] = p PROVE 1 + ((p - 1) % C) = c
    <3>1. (p - 1) % C = c - 1
      BY <1>6, <2>2
    <3>2. QED
      BY <1>1, <3>1
  <2>3. ASSUME 1 + ((p - 1) % C) = c PROVE \E r \in 1 .. R : line[r] = p
    <3>1. PICK r \in 1 .. R, q \in 1 .. C : q = 1 + ((p - 1) % C) /\ p = ((r - 1) * C) + q
      BY PlaceOf
    <3>2. q = c
      BY <2>3, <3>1
    <3>3. QED
      BY <1>4, <3>1, <3>2
  <2>4. QED
    BY <2>1, <2>2, <2>3
<1>10. QED
  BY <1>1, <1>7, <1>8, <1>9 DEF LineFits, line

(* All rows and columns are lines.                                         *)
LEMMA LinesAre ==
    ASSUME NEW R, NEW C, Grid(R, C)
    PROVE  /\ DOMAIN RowLines = 1 .. R /\ DOMAIN ColLines = 1 .. C /\ batch \div C = R
           /\ \A line \in AllLines : \E n : LineFits(line, n)
           /\ \A r \in 1 .. R : RowLines[r] \in AllLines
           /\ \A c \in 1 .. C : ColLines[c] \in AllLines
<1>1. R \in Nat /\ C \in Nat \ {0} /\ C \in Nat /\ GuestCols = C
  BY DEF Grid
<1>2. batch \div C = R
  <2>1. batch = R * C
    BY DEF Grid
  <2> DEFINE zero == 0
  <2>2. zero \in Below(C) /\ R * C + zero = R * C
    BY <1>1 DEF Below
  <2> HIDE DEF zero
  <2>3. (R * C + zero) \div C = R
    BY <1>1, <2>2, Strides
  <2>4. QED
    BY <2>1, <2>2, <2>3
<1>3. DOMAIN RowLines = 1 .. R /\ DOMAIN ColLines = 1 .. C
  BY <1>1, <1>2 DEF RowLines, ColLines
<1>4. \A line : line \in AllLines <=> \/ \E r \in 1 .. R : line = RowLines[r]
                                      \/ \E c \in 1 .. C : line = ColLines[c]
  BY <1>3 DEF AllLines, Range
<1>5. ASSUME NEW line \in AllLines PROVE \E n : LineFits(line, n)
  BY <1>4, RowIs, ColIs
<1>6. QED
  BY <1>2, <1>3, <1>4, <1>5

(* The two roots that the grid is made from.                               *)
LEMMA SqrtIs ==
    ASSUME NEW b \in Nat
    PROVE  /\ FloorSqrt(b) \in 0 .. b /\ FloorSqrt(b) * FloorSqrt(b) <= b
           /\ CeilSqrt(b) \in 0 .. b /\ CeilSqrt(b) * CeilSqrt(b) >= b
           /\ FloorSqrt(b) <= CeilSqrt(b)
           /\ b # 0 => FloorSqrt(b) # 0
<1> DEFINE low == {r \in 0 .. b : r * r <= b}
           high == {r \in 0 .. b : r * r >= b}
           f == FloorSqrt(b)
           c == CeilSqrt(b)
<1>1. IsFiniteSet(low) /\ IsFiniteSet(high) /\ low \in SUBSET Nat /\ high \in SUBSET Nat
  <2>1. IsFiniteSet(0 .. b)
    <3> DEFINE zero == 0
    <3>1. zero \in Int /\ b \in Int
      OBVIOUS
    <3> HIDE DEF zero
    <3>2. IsFiniteSet(zero .. b)
      BY <3>1, FS_Interval
    <3>3. QED
      BY <3>2 DEF zero
  <2>2. low \subseteq 0 .. b /\ high \subseteq 0 .. b
    OBVIOUS
  <2>3. IsFiniteSet(low)
    BY <2>1, <2>2, FS_Subset
  <2>4. IsFiniteSet(high)
    BY <2>1, <2>2, FS_Subset
  <2>5. QED
    BY <2>3, <2>4
<1>2. 0 \in low
  OBVIOUS
<1>3. b \in high
  <2>1. b * b >= b
    <3>1. CASE b = 0
      BY <3>1
    <3>2. CASE b # 0
      <4>1. b >= 1
        BY <3>2
      <4>2. b * b >= b * 1
        BY <4>1
      <4>3. QED
        BY <4>2
    <3>3. QED
      BY <3>1, <3>2
  <2>2. QED
    BY <2>1
<1>4. f = Max(low) /\ c = Min(high)
  BY DEF FloorSqrt, CeilSqrt
<1> HIDE DEF f, c
<1>5. f \in low /\ \A r \in low : r <= f
  <2>1. low # {}
    BY <1>2
  <2> HIDE DEF low
  <2>2. QED
    BY <1>1, <1>4, <2>1, MaxIn
<1>6. c \in high
  <2>1. high # {}
    BY <1>3
  <2> HIDE DEF high
  <2>2. QED
    BY <1>1, <1>4, <2>1, MinIn
<1>7. f \in Nat /\ f <= b /\ f * f <= b /\ c \in Nat /\ c <= b /\ c * c >= b
  BY <1>5, <1>6
<1>8. b # 0 => f # 0
  <2> SUFFICES ASSUME b # 0 PROVE f # 0
    OBVIOUS
  <2>1. 1 \in low
    OBVIOUS
  <2> HIDE DEF low
  <2>2. 1 <= f
    BY <1>5, <2>1
  <2>3. QED
    BY <1>7, <2>2
<1> HIDE DEF low, high
<1>9. f <= c
  <2> SUFFICES ASSUME c < f PROVE FALSE
    BY <1>7
  <2>1. c * c <= c * f
    BY <1>7
  <2>2. c * f < f * f
    <3>1. f > 0 /\ f - c > 0
      BY <1>7
    <3> DEFINE d == f - c
    <3>2. d \in Nat /\ d > 0 /\ f = c + d
      BY <1>7, <3>1
    <3> HIDE DEF d
    <3>3. f * f = (c * f) + (d * f)
      BY <1>7, <3>2
    <3>4. d * f > 0
      BY <1>7, <3>1, <3>2
    <3>5. c * f \in Int /\ d * f \in Int
      BY <1>7, <3>2
    <3>6. QED
      BY <3>3, <3>4, <3>5
  <2>3. c * c \in Int /\ c * f \in Int /\ f * f \in Int
    BY <1>7
  <2>4. QED
    BY <1>7, <2>1, <2>2, <2>3
<1>10. QED
  BY <1>7, <1>8, <1>9 DEF f, c

(* The guest's grid fills the batch where the check allows it, and it is   *)
(* the host's for a square and for the size with a grid of its own.        *)
LEMMA GridIs ==
    ASSUME batch \in Batches
    PROVE  /\ GuestCols \in Nat \ {0} /\ HostCols \in Nat \ {0} /\ GuestCols <= HostCols
           /\ GridFits => Grid(batch \div GuestCols, GuestCols)
           /\ batch = OddBatch \/ FloorSqrt(batch) = CeilSqrt(batch)
                => GridFits /\ HostCols = GuestCols
<1> DEFINE f == FloorSqrt(batch)
           c == CeilSqrt(batch)
<1>1. batch \in Nat \ {0} /\ batch \in Nat
  BY SizesIs
<1>2. /\ f \in 0 .. batch /\ f * f <= batch
      /\ c \in 0 .. batch /\ c * c >= batch
      /\ f <= c /\ f # 0
  BY <1>1, SqrtIs
<1> HIDE DEF f, c
<1>3. OddCols \in Nat \ {0} /\ OddBatch % OddCols = 0
  BY PolyPirAssumption
<1>4. GuestCols = (IF batch = OddBatch THEN OddCols ELSE f) /\ HostCols = IF batch = OddBatch THEN OddCols ELSE c
  BY DEF GuestCols, HostCols, f, c
<1>5. GuestCols \in Nat \ {0} /\ HostCols \in Nat \ {0} /\ GuestCols <= HostCols
  BY <1>2, <1>3, <1>4
<1>6. ASSUME GridFits PROVE Grid(batch \div GuestCols, GuestCols)
  <2> DEFINE C == GuestCols
             R == batch \div C
  <2>1. C \in Nat \ {0} /\ batch % C = 0
    BY <1>5, <1>6 DEF GridFits
  <2> HIDE DEF C
  <2>2. batch = R * C /\ R \in Nat
    BY <1>1, <2>1
  <2>3. QED
    BY <2>1, <2>2 DEF Grid, C
<1>7. ASSUME batch = OddBatch \/ f = c
      PROVE  GridFits /\ HostCols = GuestCols
  <2>1. CASE batch = OddBatch
    BY <1>3, <1>4, <2>1 DEF GridFits
  <2>2. CASE batch # OddBatch
    <3>1. f = c /\ GuestCols = f /\ HostCols = f
      BY <1>4, <1>7, <2>2
    <3>2. f * f = batch /\ f \in Nat \ {0}
      <4>1. f * f >= batch
        BY <1>2, <3>1
      <4>2. f * f \in Int
        BY <1>2
      <4>3. QED
        BY <1>1, <1>2, <4>1, <4>2
    <3>3. batch % f = 0
      <4> DEFINE zero == 0
      <4>1. zero \in Below(f) /\ f * f + zero = f * f /\ f \in Int
        BY <3>2 DEF Below
      <4> HIDE DEF zero
      <4>2. (f * f + zero) % f = zero
        BY <3>2, <4>1, Strides
      <4>3. QED
        BY <3>2, <4>1, <4>2 DEF zero
    <3>4. QED
      BY <3>1, <3>3 DEF GridFits
  <2>3. QED
    BY <2>1, <2>2
<1>8. QED
  BY <1>5, <1>6, <1>7 DEF f, c

(* A factor may have fewer coefficients than the ring.                     *)
LEMMA RingMulLift ==
    ASSUME NEW f, DOMAIN f \subseteq Int, NEW g
    PROVE  RingMul(f, g) = RingMul(f, Lift(g))
<1>1. N \in Nat \ {0}
  BY RingIs
<1>2. ASSUME NEW k \in Ring, NEW i \in DOMAIN f
      PROVE  At(Lift(g), (k - i) % N) = At(g, (k - i) % N)
  <2>1. k \in Int /\ i \in Int
    BY DEF Ring, Below
  <2> DEFINE p == (k - i) % N
  <2>2. p \in Ring
    BY <1>1, <2>1 DEF Ring, Below
  <2> HIDE DEF p
  <2>3. At(Lift(g), p) = At(g, p)
    BY <2>2 DEF Lift, At
  <2>4. QED
    BY <2>3 DEF p
<1> DEFINE A(k) == [i \in DOMAIN f |-> Signed(f[i] * At(g, (k - i) % N), i > k)]
           B(k) == [i \in DOMAIN f |-> Signed(f[i] * At(Lift(g), (k - i) % N), i > k)]
<1>3. \A k \in Ring : A(k) = B(k)
  BY <1>2
<1>4. RingMul(f, g) = [k \in Ring |-> SumOf(A(k))]
  BY DEF RingMul
<1>5. RingMul(f, Lift(g)) = [k \in Ring |-> SumOf(B(k))]
  BY DEF RingMul
<1> HIDE DEF A, B
<1>6. QED
  BY <1>3, <1>4, <1>5

(* Nothing stands between the multiples of F in a product of two such      *)
(* polynomials.                                                            *)
OnStride(f, F) == \A i \in DOMAIN f : i \in Int /\ f[i] \in Int /\ (f[i] # 0 => i % F = 0)

(* The product of polynomials in x^F is one.                               *)
LEMMA StridedSupport ==
    ASSUME NEW F \in Nat \ {0}, NEW m \in Nat \ {0}, N = m * F,
           NEW f, IsFiniteSet(DOMAIN f), OnStride(f, F), NEW g, OnStride(g, F)
    PROVE  OnStride(RingMul(f, g), F)
<1> DEFINE T == DOMAIN f
           A(k) == [i \in T |-> Signed(f[i] * At(g, (k - i) % N), i > k)]
           h == RingMul(f, g)
<1>1. N \in Nat \ {0}
  BY RingIs
<1>2. h \in [Ring -> Fp]
  <2>1. (\A i \in DOMAIN f : f[i] \in Int) /\ \A k \in DOMAIN g : g[k] \in Int
    BY DEF OnStride
  <2>2. QED
    BY <2>1, RingMulType
<1>3. h = [k \in Ring |-> SumOf(A(k))]
  BY DEF RingMul
<1>4. ASSUME NEW k \in Ring, k % F # 0 PROVE h[k] = 0
  <2> DEFINE S == A(k)
  <2>1. k \in Int
    BY DEF Ring, Below
  <2>2. ASSUME NEW i \in T PROVE S[i] = 0
    <3> DEFINE a == f[i]
               p == (k - i) % N
               b == At(g, p)
    <3>1. a \in Int /\ i \in Int /\ (a # 0 => i % F = 0)
      BY DEF OnStride
    <3>2. b \in Int /\ (b # 0 => p % F = 0)
      BY DEF OnStride, At
    <3>3. S[i] = Signed(a * b, i > k)
      OBVIOUS
    <3>4. a = 0 \/ b = 0
      <4> SUFFICES ASSUME a # 0, b # 0 PROVE FALSE
        OBVIOUS
      <4> DEFINE d == k - i
      <4>1. i % F = 0 /\ p % F = 0 /\ d \in Int
        BY <2>1, <3>1, <3>2
      <4>2. p % F = d % F
        <5> HIDE DEF d
        <5>1. (d % N) % F = d % F
          BY <4>1, InnerModulus
        <5>2. QED
          BY <5>1 DEF d
      <4>3. \E q \in Int : i = F * q
        <5> DEFINE q == i \div F
        <5>1. q \in Int /\ i = F * q + (i % F)
          BY <3>1
        <5> HIDE DEF q
        <5>2. F * q \in Int
          BY <5>1
        <5>3. i = F * q
          BY <4>1, <5>1, <5>2
        <5>4. QED
          BY <5>1, <5>3
      <4>8. PICK q \in Int : i = F * q
        BY <4>3
      <4> DEFINE r == -q
                 z == F * r
      <4>4. r \in Int /\ z = -(F * q) /\ F * q \in Int
        BY <4>8
      <4> HIDE DEF z
      <4>5. z \in Int /\ d = k + z
        BY <2>1, <3>1, <4>8, <4>4
      <4> HIDE DEF r, d
      <4>6. d % F = k % F
        <5>1. z = F * r
          BY DEF z
        <5>2. \A q1, x1 : q1 \in Int /\ x1 = F * q1 /\ d = k + x1 => d % F = k % F
          BY <2>1, <4>1, SameRemainder
        <5>3. QED
          BY <4>4, <4>5, <5>1, <5>2
      <4>7. QED
        BY <1>4, <4>1, <4>2, <4>6
    <3> HIDE DEF a, b, S
    <3>5. a * b = 0
      BY <3>1, <3>2, <3>4
    <3>6. QED
      BY <3>3, <3>5 DEF Signed
  <2>3. h[k] = SumOf(S) /\ S = [i \in T |-> S[i]]
    BY <1>3
  <2> HIDE DEF S, T, h
  <2>4. SumOn(T, S) = 0
    BY <2>2, SumZero DEF T
  <2>5. SumOf(S) = SumOn(T, S) % Prime
    BY <2>3 DEF SumOf, SumOn
  <2>6. 0 % Prime = 0
    BY FpInt, SameIs
  <2>7. QED
    BY <2>3, <2>4, <2>5, <2>6
<1>5. \A k \in Ring : k \in Int /\ h[k] \in Int
  <2> HIDE DEF h
  <2>1. \A k \in Ring : h[k] \in Fp
    BY <1>2
  <2>2. \A k \in Ring : k \in Int
    BY RingIs
  <2>3. QED
    BY <2>1, <2>2, FpInt
<1>6. QED
  BY <1>2, <1>4, <1>5 DEF OnStride

(* A keeper of l coefficients.                                             *)
Keeps(a, l) == l \in Nat /\ l <= batch /\ a \in [Below(l) -> Fp]

(* The keeper in the plaintext that the guest sends: on the stride, and    *)
(* complete unless it is too short (line 1038).                            *)
LEMMA PlacedIs ==
    ASSUME batch \in Batches, NEW a, NEW l, Keeps(a, l), NEW g \in Nat
    PROVE  /\ Placed(a, g) \in [Below(Half) -> Int] /\ OnStride(Placed(a, g), factor)
           /\ factor = 1 \/ l = batch => \A q \in Below(batch) : Placed(a, g)[q * factor] = At(a, q)
<1> DEFINE f == Placed(a, g)
           F == factor
           B == batch
           H == B * F
<1>1. B \in Nat \ {0} /\ F \in Nat \ {0} /\ Half = H /\ B \in Nat
  BY SizesIs
<1>2. l \in Nat /\ l <= B /\ DOMAIN a = Below(l) /\ \A q \in Below(l) : a[q] \in Int
  BY FpPoly DEF Keeps
<1>3. f = [p \in Below(H) |->
              IF p % F # 0 THEN 0
              ELSE IF p \div F \in DOMAIN a THEN a[p \div F]
              ELSE IF F = 1 THEN 0 ELSE g]
  BY <1>1 DEF Placed
<1>4. H \in Nat
  BY <1>1
<1> HIDE DEF F, B, H, f
<1>5. \A p \in Below(H) : p \in Int /\ f[p] \in Int /\ (f[p] # 0 => p % F = 0)
  <2> TAKE p \in Below(H)
  <2>1. p \in Int
    BY <1>4, BelowIs
  <2> DEFINE q == p \div F
  <2>2. f[p] = IF p % F # 0 THEN 0 ELSE IF q \in Below(l) THEN a[q] ELSE IF F = 1 THEN 0 ELSE g
    BY <1>2, <1>3
  <2>3. g \in Int /\ (q \in Below(l) => a[q] \in Int)
    BY <1>2
  <2>4. f[p] \in Int
    <3> HIDE DEF q
    <3>1. CASE p % F # 0
      BY <2>2, <3>1
    <3>2. CASE p % F = 0 /\ q \in Below(l)
      BY <2>2, <2>3, <3>2
    <3>3. CASE p % F = 0 /\ q \notin Below(l)
      BY <2>2, <2>3, <3>3
    <3>4. QED
      BY <3>1, <3>2, <3>3
  <2>5. p % F # 0 => f[p] = 0
    BY <2>2
  <2>6. QED
    BY <2>1, <2>4, <2>5
<1>6. f \in [Below(H) -> Int] /\ DOMAIN f = Below(H)
  <2>1. DOMAIN f = Below(H) /\ f = [p \in Below(H) |-> f[p]]
    BY <1>3
  <2>2. QED
    BY <1>5, <2>1
<1>7. OnStride(f, F)
  BY <1>5, <1>6 DEF OnStride
<1>8. ASSUME F = 1 \/ l = B, NEW q \in Below(B)
      PROVE  f[q * F] = At(a, q)
  <2> DEFINE zero == 0
             p == q * F + zero
  <2>1. zero \in Below(F) /\ q \in Int /\ q \in Nat /\ q < B
    BY <1>1, BelowIs DEF Below
  <2> HIDE DEF zero
  <2>2. p \in Below(H) /\ p % F = zero /\ p \div F = q
    <3>1. p \in Below(H)
      BY <1>1, <2>1, StrideBelow DEF H
    <3>2. p % F = zero /\ p \div F = q
      BY <1>1, <2>1, Strides
    <3>3. QED
      BY <3>1, <3>2
  <2>3. p = q * F
    <3> DEFINE t == q * F
    <3>1. t \in Int
      BY <1>1, <2>1
    <3> HIDE DEF t
    <3>2. t + zero = t
      BY <3>1 DEF zero
    <3>3. QED
      BY <3>2 DEF t
  <2> HIDE DEF p
  <2>4. f[p] = IF q \in Below(l) THEN a[q] ELSE IF F = 1 THEN 0 ELSE g
    <3>1. p % F = 0
      BY <2>2 DEF zero
    <3>2. QED
      BY <1>2, <1>3, <2>2, <3>1
  <2>5. CASE q \in Below(l)
    BY <1>2, <2>3, <2>4, <2>5 DEF At
  <2>6. CASE q \notin Below(l)
    <3>1. l # B
      BY <1>2, <2>1, <2>6, BelowIs
    <3>2. f[p] = 0
      BY <1>8, <2>4, <2>6, <3>1
    <3>3. QED
      BY <1>2, <2>3, <2>6, <3>2 DEF At
  <2>7. QED
    BY <2>5, <2>6
<1>9. QED
  <2>1. F = 1 \/ l = B => \A q \in Below(B) : f[q * F] = At(a, q)
    BY <1>8
  <2>2. QED
    BY <1>1, <1>6, <1>7, <2>1 DEF f, F, B

(* A product of a row's and a column's keeper as the host computes it.     *)
LEMMA BasisTerm ==
    ASSUME batch \in Batches, NEW a, NEW l, Keeps(a, l), NEW b, NEW m, Keeps(b, m), NEW g \in Nat
    PROVE  /\ RingMul(Placed(a, g), Placed(b, g)) \in [Ring -> Fp]
           /\ OnStride(RingMul(Placed(a, g), Placed(b, g)), factor)
           /\ factor = 1 \/ (l = batch /\ m = batch) =>
                \A x \in Int : Same(ValueOf(Lane(RingMul(Placed(a, g), Placed(b, g)), factor, 0, 2 * batch), x),
                                    ValueOf(a, x) * ValueOf(b, x))
<1> DEFINE f == Placed(a, g)
           d == Placed(b, g)
           e == Lift(d)
           h == RingMul(f, d)
           F == factor
           B == batch
           H == B * F
<1>1. /\ B \in Nat \ {0} /\ F \in Nat \ {0} /\ Half = H /\ B \in Nat /\ N = (2 * B) * F
      /\ N = 2 * Half /\ Half \in Nat
  BY SizesIs
<1>2. f \in [Below(Half) -> Int] /\ d \in [Below(Half) -> Int] /\ OnStride(f, F) /\ OnStride(d, F)
  BY PlacedIs
<1>3. F = 1 \/ (l = B /\ m = B) =>
         \A q \in Below(B) : f[q * F] = At(a, q) /\ d[q * F] = At(b, q)
  BY PlacedIs
<1>4. /\ l \in Nat /\ l <= B /\ a \in Polys(l) /\ DOMAIN a = Below(l)
      /\ m \in Nat /\ m <= B /\ b \in Polys(m) /\ DOMAIN b = Below(m)
  BY FpPoly DEF Keeps
<1>5. DOMAIN f = Below(Half) /\ DOMAIN d = Below(Half)
  BY <1>2
<1>6. IsFiniteSet(Below(Half)) /\ \A p \in Below(Half) : p \in Int
  BY <1>1, BelowIs
<1>16. N \in Nat \ {0}
  BY RingIs
<1> HIDE DEF f, d, F, B, H
<1>7. h \in [Ring -> Fp]
  <2>1. IsFiniteSet(DOMAIN f) /\ (\A i \in DOMAIN f : f[i] \in Int) /\ \A k \in DOMAIN d : d[k] \in Int
    BY <1>2, <1>5, <1>6
  <2>2. QED
    BY <2>1, RingMulType
<1>8. OnStride(h, F)
  <2> DEFINE n == 2 * B
  <2>1. n \in Nat \ {0} /\ N = n * F
    BY <1>1
  <2> HIDE DEF n
  <2>2. IsFiniteSet(DOMAIN f)
    BY <1>5, <1>6
  <2>3. QED
    BY <1>1, <1>2, <2>1, <2>2, StridedSupport
<1>9. h = RingMul(f, e)
  <2>1. DOMAIN f \subseteq Int
    BY <1>5, <1>6
  <2>2. QED
    BY <2>1, RingMulLift
<1>10. e \in [Ring -> Int] /\ \A p \in Ring : e[p] = At(d, p)
  <2>1. \A p : At(d, p) \in Int
    BY <1>2, <1>5 DEF At
  <2>2. QED
    BY <2>1 DEF Lift
<1>11. \A p \in Ring : e[p] # 0 => p % F = 0 /\ p \div F <= B
  <2> SUFFICES ASSUME NEW p \in Ring, e[p] # 0 PROVE p % F = 0 /\ p \div F <= B
    OBVIOUS
  <2>1. p \in Below(Half) /\ d[p] # 0
    BY <1>5, <1>10 DEF At
  <2>2. p % F = 0
    BY <1>2, <1>5, <2>1 DEF OnStride
  <2>3. p \in Below(B * F)
    BY <1>1, <2>1 DEF H
  <2> DEFINE q == p \div F
  <2>4. q \in Below(B)
    BY <1>1, <2>3, StrideIndex
  <2> HIDE DEF q
  <2>5. q <= B
    BY <1>1, <2>4, BelowIs
  <2>6. QED
    BY <2>2, <2>5 DEF q
<1> HIDE DEF e, h
<1>12. ASSUME F = 1 \/ (l = B /\ m = B), NEW x \in Int
       PROVE  Same(ValueOf(Lane(h, F, 0, 2 * B), x), ValueOf(a, x) * ValueOf(b, x))
  <2> DEFINE zero == 0
             n == B + 1
             u == Lane(f, F, zero, B)
             v == Lane(e, F, zero, n)
             w == ValueOf(Lane(h, F, zero, 2 * B), x)
             va == ValueOf(a, x)
             vb == ValueOf(b, x)
             vu == ValueOf(u, x)
             vv == ValueOf(v, x)
  <2>1. zero \in Below(F) /\ n \in Nat /\ m <= n /\ B <= n
    BY <1>1, <1>4 DEF Below
  <2> HIDE DEF zero
  <2>2. Same(w, vu * vv)
    <3>1. f \in Polys(B * F)
      BY <1>1, <1>2 DEF Polys, H
    <3>2. Same(ValueOf(Lane(RingMul(f, e), F, zero, 2 * B), x),
               ValueOf(Lane(f, F, zero, B), x) * ValueOf(Lane(e, F, zero, B + 1), x))
      <4>1. Same(ValueOf(Lane(RingMul(f, e), F, zero, 2 * B), x),
               ValueOf(Lane(f, F, zero, B), x) * ValueOf(Lane(e, F, 0, B + 1), x))
        BY <1>1, <1>10, <1>11, <2>1, <3>1, StridedProduct
      <4>2. QED
        BY <4>1 DEF zero
    <3>3. QED
      BY <1>9, <3>2
  <2>3. \A q \in Below(B) : q * F + zero = q * F /\ q * F \in Below(Half) /\ f[q * F] = At(a, q) /\ d[q * F] = At(b, q)
    <3> TAKE q \in Below(B)
    <3> DEFINE t == q * F
    <3>1. q \in Int /\ t \in Int
      BY <1>1, BelowIs
    <3>2. t + zero \in Below(B * F)
      BY <1>1, <2>1, StrideBelow
    <3>4. f[t] = At(a, q) /\ d[t] = At(b, q)
      BY <1>3, <1>12
    <3> HIDE DEF t
    <3>3. t + zero = t
      BY <3>1 DEF zero
    <3>5. t \in Below(Half)
      BY <1>1, <3>2, <3>3 DEF H
    <3>6. QED
      BY <3>3, <3>4, <3>5 DEF t
  <2>4. u \in Polys(B) /\ \A q \in Below(B) : u[q] = At(a, q)
    <3>1. \A q \in Below(B) : u[q] = At(a, q) /\ u[q] \in Int
      <4> TAKE q \in Below(B)
      <4>1. u[q] = f[q * F] /\ q * F \in Below(Half)
        <5>1. u[q] = f[q * F + zero]
          BY DEF Lane
        <5>2. QED
          BY <2>3, <5>1
      <4>2. QED
        BY <1>2, <2>3, <4>1
    <3>2. u = [q \in Below(B) |-> f[q * F + zero]]
      BY DEF Lane
    <3> HIDE DEF u
    <3>3. u = [q \in Below(B) |-> u[q]]
      BY <3>2
    <3>4. QED
      BY <3>1, <3>3 DEF Polys
  <2>5. v \in Polys(n) /\ \A q \in Below(n) : v[q] = At(b, q)
    <3>1. ASSUME NEW q \in Below(n) PROVE v[q] = At(b, q) /\ v[q] \in Int
      <4> DEFINE t == q * F + zero
      <4>1. v[q] = e[t]
        BY DEF Lane
      <4>2. q \in Nat /\ q < n
        BY <2>1, BelowIs
      <4>3. CASE q \in Below(B)
        <5>1. t = q * F /\ q * F \in Below(Half) /\ d[q * F] = At(b, q)
          BY <2>3, <4>3
        <5> HIDE DEF t
        <5>2. t \in Ring
          <6>1. t \in Nat /\ t < Half
            BY <1>1, <5>1, BelowIs
          <6>2. t < N
            BY <1>1, <6>1
          <6>3. QED
            BY <6>1, <6>2, RingIs
        <5>3. e[t] = d[t] /\ e[t] \in Int
          BY <1>5, <1>10, <5>1, <5>2 DEF At
        <5>4. QED
          BY <4>1, <5>1, <5>3
      <4>4. CASE q \notin Below(B)
        <5>1. q = B
          BY <1>1, <4>2, <4>4, BelowIs
        <5>2. t = Half
          <6> DEFINE y == B * F
          <6>1. y \in Nat /\ y = Half
            BY <1>1 DEF H
          <6> HIDE DEF y
          <6>2. y + zero = y
            BY <6>1 DEF zero
          <6>3. QED
            BY <5>1, <6>1, <6>2 DEF y
        <5> HIDE DEF t
        <5>3. t \in Ring /\ t \notin Below(Half)
          <6>1. Half < N /\ ~ (Half < Half)
            BY <1>1, <1>16
          <6>2. QED
            BY <1>1, <5>2, <6>1, BelowIs, RingIs
        <5>4. e[t] = 0
          BY <1>5, <1>10, <5>3 DEF At
        <5>5. q \notin Below(m)
          BY <1>1, <1>4, <5>1, BelowIs
        <5>6. At(b, q) = 0
          BY <1>4, <5>5 DEF At
        <5>7. QED
          BY <4>1, <5>4, <5>6
      <4>5. QED
        BY <4>3, <4>4
    <3>2. v = [q \in Below(n) |-> e[q * F + zero]]
      BY DEF Lane
    <3> HIDE DEF v
    <3>3. v = [q \in Below(n) |-> v[q]]
      BY <3>2
    <3>4. QED
      BY <3>1, <3>3 DEF Polys
  <2> HIDE DEF u, v, n
  <2>6. Same(vu, va)
    BY <1>1, <1>4, <2>4, ValuePadded
  <2>7. Same(vv, vb)
    BY <2>1, <1>4, <2>5, ValuePadded
  <2>8. vu \in Int /\ va \in Int
    BY <1>1, <1>4, <2>4, ValueInt
  <2>9. vv \in Int /\ vb \in Int
    BY <2>1, <1>4, <2>5, ValueInt
  <2> HIDE DEF vu, va, vv, vb, w
  <2>10. Same(vu * vv, va * vb)
    BY <2>6, <2>7, <2>8, <2>9, SameArithmetic
  <2>11. Same(w, va * vb)
    BY <2>2, <2>10 DEF Same, Congruent
  <2>12. QED
    BY <2>11 DEF w, va, vb, zero
<1>13. QED
  <2>1. F = 1 \/ (l = B /\ m = B) =>
           \A x \in Int : Same(ValueOf(Lane(h, F, 0, 2 * B), x), ValueOf(a, x) * ValueOf(b, x))
    BY <1>12
  <2>2. QED
    BY <1>7, <1>8, <2>1 DEF F, B, h, f, d

-----------------------------------------------------------------------------
(* poly_cipher_toShare.                                                    *)

(* A short polynomial times one on a stride scales every lane by its own   *)
(* coefficient.                                                            *)
LEMMA ShareLane ==
    ASSUME NEW F \in Nat \ {0}, NEW M \in Nat \ {0}, N = M * F,
           NEW s \in [Below(F) -> Fp], NEW b \in [Ring -> Fp], OnStride(b, F),
           NEW r \in Below(F), NEW x \in Int
    PROVE  /\ RingMul(s, b) \in [Ring -> Fp]
           /\ Same(ValueOf(Lane(RingMul(s, b), F, r, M), x), s[r] * ValueOf(Lane(b, F, 0, M), x))
<1> DEFINE T == Below(F)
           zero == 0
           h == RingMul(s, b)
           u == Lane(h, F, r, M)
           v == Lane(b, F, zero, M)
           c == s[r]
           A(k) == [i \in T |-> Signed(s[i] * At(b, (k - i) % N), i > k)]
<1>1. /\ N \in Nat \ {0} /\ IsFiniteSet(T) /\ r \in Nat /\ r < F /\ c \in Int
      /\ \A i \in T : i \in Nat /\ i < F /\ s[i] \in Int
  <2>1. \A i \in T : s[i] \in Int
    BY FpInt
  <2>2. N \in Nat \ {0} /\ IsFiniteSet(T) /\ r \in Nat /\ r < F
    BY BelowIs, RingIs
  <2>3. \A i \in T : i \in Nat /\ i < F
    BY BelowIs
  <2>4. QED
    BY <2>1, <2>2, <2>3
<1>2. \A p \in Ring : b[p] \in Int /\ (b[p] # 0 => p % F = 0)
  BY FpInt DEF OnStride
<1>3. h \in [Ring -> Fp]
  <2>1. DOMAIN s = T /\ DOMAIN b = Ring
    OBVIOUS
  <2>2. (\A i \in DOMAIN s : s[i] \in Int) /\ \A p \in DOMAIN b : b[p] \in Int
    BY <1>1, <1>2, <2>1
  <2>3. IsFiniteSet(DOMAIN s)
    BY <1>1, <2>1
  <2> HIDE DEF h
  <2>4. RingMul(s, b) \in [Ring -> Fp]
    BY <2>2, <2>3, RingMulType
  <2>5. QED
    BY <2>4 DEF h
<1>4. h = [k \in Ring |-> SumOf(A(k))]
  BY DEF RingMul
<1>5. ASSUME NEW q \in Below(M)
      PROVE  h[q * F + r] = (c * b[q * F + zero]) % Prime /\ b[q * F + zero] \in Int
  <2> DEFINE t == q * F
             k == t + r
             S == A(k)
             d == b[t]
             e == t + zero
  <2>1. q \in Nat /\ t \in Nat /\ k \in Below(M * F) /\ e \in Below(M * F)
    <3>1. q \in Nat /\ q \in Int /\ F \in Nat /\ zero \in Below(F)
      BY BelowIs DEF Below
    <3>2. t \in Nat
      BY <3>1
    <3>3. k \in Below(M * F)
      BY <3>1, StrideBelow
    <3> HIDE DEF zero
    <3>4. e \in Below(M * F)
      BY <3>1, StrideBelow
    <3>5. QED
      BY <3>1, <3>2, <3>3, <3>4
  <2> HIDE DEF t
  <2>2. e = t
    BY <2>1
  <2>3. k \in Ring /\ t \in Ring /\ t < N
    <3>1. k \in Ring /\ t \in Ring
      BY <2>1, <2>2 DEF Ring
    <3>2. QED
      BY <3>1, RingIs
  <2>4. d \in Int
    BY <1>2, <2>3
  <2>5. S[r] = c * d
    <3>1. k - r = t /\ ~ (r > k)
      BY <1>1, <2>1
    <3>2. t % N = t
      BY <1>1, <2>1, <2>3
    <3>3. At(b, t) = d
      BY <2>3 DEF At
    <3>4. S[r] = Signed(c * At(b, (k - r) % N), r > k)
      OBVIOUS
    <3> HIDE DEF S, k, c, d
    <3>5. QED
      BY <3>1, <3>2, <3>3, <3>4 DEF Signed
  <2>6. ASSUME NEW i \in T, i # r PROVE S[i] = 0
    <3> DEFINE y == k - i
               p == y % N
               a == s[i]
    <3>1. i \in Nat /\ i < F /\ y \in Int /\ a \in Int
      BY <1>1, <2>1
    <3>2. y % F # 0
      <4>1. CASE i < r
        <5> DEFINE w == r - i
        <5>1. w \in Below(F) /\ w # 0 /\ y = t + w
          BY <1>1, <2>1, <3>1, <4>1 DEF Below
        <5> HIDE DEF w, y
        <5>2. (q * F + w) % F = w
          BY <2>1, <5>1, Strides
        <5>3. QED
          BY <5>1, <5>2 DEF t
      <4>2. CASE i > r
        <5> DEFINE w == F + r - i
                   z == q - 1
        <5>1. w \in Below(F) /\ w # 0 /\ z \in Int
          BY <1>1, <2>1, <3>1, <4>2 DEF Below
        <5>2. z * F = t - F
          <6>1. (q - 1) * F = q * F - F
            BY <2>1
          <6>2. QED
            BY <6>1 DEF t
        <5>3. y = (t - F) + w
          BY <1>1, <2>1, <3>1
        <5> HIDE DEF w, z, y
        <5>4. (z * F + w) % F = w
          BY <5>1, Strides
        <5>5. QED
          BY <5>1, <5>2, <5>3, <5>4
      <4>3. QED
        BY <1>1, <2>6, <3>1, <4>1, <4>2
    <3>3. p % F = y % F /\ p \in Below(N)
      <4> HIDE DEF y
      <4>1. (y % N) % F = y % F /\ y % N \in Below(N)
        BY <3>1, InnerModulus
      <4>2. QED
        BY <4>1
    <3>4. p \in Ring
      BY <3>3 DEF Ring
    <3>5. S[i] = Signed(a * At(b, p), i > k)
      OBVIOUS
    <3> HIDE DEF y, p, S, a, k
    <3>6. At(b, p) = 0
      BY <1>2, <3>2, <3>3, <3>4 DEF At
    <3>7. a * 0 = 0
      BY <3>1
    <3>8. QED
      BY <3>5, <3>6, <3>7 DEF Signed
  <2>7. h[k] = SumOf(S) /\ S = [i \in T |-> S[i]]
    BY <1>4, <2>3
  <2>8. c * d \in Int
    BY <1>1, <2>4
  <2> HIDE DEF S, T, h, k, d, c, e
  <2>9. (\A i \in T : S[i] \in Int) /\ r \in T
    BY <2>5, <2>6, <2>8 DEF T
  <2>10. SumOn(T, S) = S[r]
    BY <1>1, <2>6, <2>9, SumOne
  <2>11. SumOf(S) = SumOn(T, S) % Prime
    BY <2>7 DEF SumOf, SumOn
  <2>12. h[k] = (c * d) % Prime
    BY <2>5, <2>7, <2>10, <2>11
  <2>13. QED
    BY <2>2, <2>4, <2>12 DEF k, d, e, t
<1>6. v = [q \in Below(M) |-> b[q * F + zero]] /\ u = [q \in Below(M) |-> h[q * F + r]]
  BY DEF Lane
<1>7. v \in Polys(M)
  <2>1. \A q \in Below(M) : b[q * F + zero] \in Int
    BY <1>5
  <2> HIDE DEF v
  <2>2. QED
    BY <1>6, <2>1 DEF Polys
<1>8. u = Scale(c, v)
  <2>1. Scale(c, v) = [q \in Below(M) |-> (c * v[q]) % Prime]
    BY <1>6 DEF Scale
  <2>2. \A q \in Below(M) : h[q * F + r] = (c * v[q]) % Prime
    <3> TAKE q \in Below(M)
    <3>1. v[q] = b[q * F + zero]
      BY <1>6
    <3> HIDE DEF v, h, c
    <3>2. QED
      BY <1>5, <3>1
  <2> HIDE DEF u, v, h, c
  <2>3. QED
    BY <1>6, <2>1, <2>2
<1> HIDE DEF u, v, c, h
<1>9. \A z \in Int : Same(ValueOf(Scale(c, v), z), c * ValueOf(v, z))
  <2>1. M \in Nat
    OBVIOUS
  <2>2. QED
    BY <1>1, <1>7, <2>1, ScaleIs
<1>10. QED
  BY <1>3, <1>8, <1>9 DEF u, v, c, h

(* A lane of an element of the ring.                                       *)
LEMMA LaneType ==
    ASSUME NEW F \in Nat \ {0}, NEW M \in Nat, N = M * F, NEW f \in [Ring -> Fp], NEW r \in Below(F)
    PROVE  Lane(f, F, r, M) \in Polys(M) /\ Lane(f, F, r, M) \in [Below(M) -> Fp]
<1>1. ASSUME NEW q \in Below(M) PROVE f[q * F + r] \in Fp
  <2> DEFINE p == q * F + r
  <2>1. p \in Below(M * F)
    BY StrideBelow
  <2> HIDE DEF p
  <2>2. p \in Ring
    BY <2>1 DEF Ring
  <2>3. QED
    BY <2>2 DEF p
<1> DEFINE v == Lane(f, F, r, M)
<1>2. v \in [Below(M) -> Fp]
  BY <1>1 DEF Lane
<1> HIDE DEF v
<1>3. v \in Polys(M)
  BY <1>2, FpPoly
<1>4. QED
  BY <1>2, <1>3 DEF v

(* The host's own shares of the features of one response.                  *)
ShareFits(s) == s \in [Below(Half) -> [Below(Half) -> Fp]]
(* The random coefficients of one position, and a list of basis            *)
(* polynomials on the stride.                                              *)
Slice(s, i) == [j \in Below(factor) |-> s[j][i - 1]]
BasisFits(bs) == \A i \in 1 .. batch : bs[i] \in [Ring -> Fp] /\ OnStride(bs[i], factor)

(* A slice is made of elements of the field.                               *)
LEMMA SliceIs ==
    ASSUME batch \in Batches, NEW s, ShareFits(s), NEW i \in 1 .. batch
    PROVE  Slice(s, i) \in [Below(factor) -> Fp]
<1>1. batch \in Nat \ {0} /\ factor \in Nat \ {0} /\ Half = batch * factor /\ Half \in Nat
  BY SizesIs
<1> DEFINE F == factor
           B == batch
           H == Half
<1>2. F <= H /\ B <= H
  <2> HIDE DEF F, B, H
  <2>1. B \in Nat /\ F \in Nat /\ B >= 1 /\ F >= 1 /\ H = B * F
    BY <1>1 DEF B, F, H
  <2>2. B * F >= 1 * F /\ B * F >= B * 1
    BY <2>1
  <2>3. QED
    BY <2>1, <2>2
<1>3. i - 1 \in Below(H)
  <2> HIDE DEF H
  <2>1. i - 1 \in Nat /\ i - 1 < H
    BY <1>1, <1>2 DEF H
  <2>2. QED
    BY <1>1, <2>1, BelowIs DEF H
<1>4. \A j \in Below(F) : j \in Below(H)
  <2> HIDE DEF F, H
  <2> TAKE j \in Below(F)
  <2>1. j \in Nat /\ j < F
    BY <1>1, BelowIs DEF F
  <2>2. QED
    BY <1>1, <1>2, <2>1, BelowIs DEF H, F
<1> DEFINE y == i - 1
<1>5. \A j \in Below(F) : s[j][y] \in Fp
  <2> TAKE j \in Below(F)
  <2>1. j \in Below(H) /\ y \in Below(H)
    BY <1>3, <1>4
  <2> HIDE DEF y
  <2>3. QED
    BY <2>1 DEF ShareFits
<1>6. QED
  BY <1>5 DEF Slice

(* The unit the basis is at the point of row k.                            *)
UnitAt(bs, k, x) ==
    \A i \in 1 .. batch :
        Same(ValueOf(Lane(bs[i], factor, 0, 2 * batch), x), IF i = k THEN 1 ELSE 0)

(* poly_cipher_toShare: with a basis that is 1 at its own point and 0 at   *)
(* the others, the value of every lane at a row's point loses that row's   *)
(* random coefficient.                                                     *)
LEMMA ToShareIs ==
    ASSUME batch \in Batches, NEW s, ShareFits(s), BasisFits(basis),
           NEW reduced \in [Ring -> Fp]
    PROVE  /\ poly_cipher_toShare(reduced, s) \in [Ring -> Fp]
           /\ \A r \in Below(factor), k \in 1 .. batch, x \in Int : UnitAt(basis, k, x) =>
                Same(ValueOf(Lane(poly_cipher_toShare(reduced, s), factor, r, 2 * batch), x),
                     ValueOf(Lane(reduced, factor, r, 2 * batch), x) - s[r][k - 1])
<1> DEFINE F == factor
           B == batch
           M == 2 * batch
           T == 1 .. B
           list == [i \in T |-> RingMul(Slice(s, i), basis[i])]
           g == RingSum(list)
           h == poly_cipher_toShare(reduced, s)
<1>1. B \in Nat \ {0} /\ B \in Nat /\ F \in Nat \ {0} /\ M \in Nat \ {0} /\ M \in Nat /\ N = M * F
  BY SizesIs
<1>2. IsFiniteSet(T)
  BY <1>1, FS_Interval
<1>3. h = RingSub(reduced, g)
  BY DEF poly_cipher_toShare, Slice
<1>4. \A i \in T : /\ basis[i] \in [Ring -> Fp] /\ OnStride(basis[i], F)
                   /\ Slice(s, i) \in [Below(F) -> Fp]
  BY SliceIs DEF BasisFits
<1>5. DOMAIN list = T
  OBVIOUS
<1>6. 0 \in Below(F)
  BY <1>1 DEF Below
<1> HIDE DEF F, M, h
<1>7. ASSUME NEW i \in T, NEW r \in Below(F), NEW x \in Int
      PROVE  /\ list[i] \in [Ring -> Fp]
             /\ Same(ValueOf(Lane(list[i], F, r, M), x),
                     Slice(s, i)[r] * ValueOf(Lane(basis[i], F, 0, M), x))
  <2> DEFINE a == Slice(s, i)
             b == basis[i]
  <2>1. a \in [Below(F) -> Fp] /\ b \in [Ring -> Fp] /\ OnStride(b, F)
    BY <1>4
  <2>2. list[i] = RingMul(a, b)
    OBVIOUS
  <2> HIDE DEF a, b, list
  <2>3. /\ RingMul(a, b) \in [Ring -> Fp]
        /\ Same(ValueOf(Lane(RingMul(a, b), F, r, M), x), a[r] * ValueOf(Lane(b, F, 0, M), x))
    BY <1>1, <2>1, ShareLane
  <2>4. QED
    BY <2>2, <2>3 DEF a, b
<1>8. \A i \in T : list[i] \in [Ring -> Fp]
  <2> TAKE i \in T
  <2> DEFINE zero == 0
  <2>1. zero \in Below(F) /\ zero \in Int
    BY <1>6
  <2> HIDE DEF zero, list
  <2>2. QED
    BY <1>7, <2>1
<1> HIDE DEF list
<1>9. g \in [Ring -> Fp]
  <2> DEFINE zero == 0
             W == [i \in T |-> ValueOf(Lane(list[i], F, zero, M), zero)]
  <2>1. zero \in Below(F) /\ zero \in Int
    BY <1>6
  <2> HIDE DEF zero
  <2>2. \A i \in T : W[i] \in Int /\ Same(ValueOf(Lane(list[i], F, zero, M), zero), W[i])
    <3> TAKE i \in T
    <3> DEFINE w == Lane(list[i], F, zero, M)
    <3>1. w \in Polys(M)
      BY <1>1, <1>8, <2>1, LaneType
    <3>2. W[i] = ValueOf(w, zero)
      OBVIOUS
    <3> HIDE DEF w, W
    <3>3. W[i] \in Int
      BY <1>1, <2>1, <3>1, <3>2, ValueInt
    <3>4. QED
      BY <3>2, <3>3 DEF Same, Congruent, w
  <2> HIDE DEF W
  <2>3. QED
    BY <1>1, <1>5, <1>8, <2>1, <2>2, RingSumLane
<1>10. h \in [Ring -> Fp]
  <2>1. \A k \in DOMAIN reduced : reduced[k] \in Int
    BY FpInt
  <2>2. \A k \in DOMAIN g : g[k] \in Int
    BY <1>9, FpInt
  <2> DEFINE zero == 0
  <2>3. zero \in Below(F) /\ zero \in Int
    BY <1>6
  <2> HIDE DEF zero, g
  <2>4. RingSub(reduced, g) \in [Ring -> Fp]
    BY <1>1, <2>1, <2>2, <2>3, RingSumsLane
  <2>5. QED
    BY <1>3, <2>4
<1>11. ASSUME NEW r \in Below(F), NEW k \in T, NEW x \in Int, UnitAt(basis, k, x)
       PROVE  Same(ValueOf(Lane(h, F, r, M), x), ValueOf(Lane(reduced, F, r, M), x) - s[r][k - 1])
  <2> DEFINE W == [i \in T |-> Slice(s, i)[r] * ValueOf(Lane(basis[i], F, 0, M), x)]
             c == s[r][k - 1]
             V == [i \in T |-> IF i = k THEN c ELSE 0]
             v == ValueOf(Lane(g, F, r, M), x)
             w == ValueOf(Lane(reduced, F, r, M), x)
  <2>1. \A i \in T : Slice(s, i)[r] \in Int /\ Slice(s, i)[r] = s[r][i - 1]
    <3>1. \A i \in T : Slice(s, i)[r] \in Fp
      BY <1>4
    <3>2. \A i \in T : Slice(s, i)[r] = s[r][i - 1]
      BY DEF Slice, F
    <3>3. QED
      BY <3>1, <3>2, FpInt
  <2>2. c \in Int
    BY <2>1
  <2>3. ASSUME NEW i \in T
        PROVE  /\ W[i] \in Int /\ V[i] \in Int /\ W[i] % Prime = V[i] % Prime
               /\ Same(ValueOf(Lane(list[i], F, r, M), x), W[i])
    <3> DEFINE a == Slice(s, i)[r]
               b == Lane(basis[i], F, 0, M)
               y == ValueOf(b, x)
               e == IF i = k THEN 1 ELSE 0
    <3>1. a \in Int /\ W[i] = a * y
      BY <2>1
    <3>2. b \in Polys(M)
      <4>1. 0 \in Below(F) /\ basis[i] \in [Ring -> Fp]
        BY <1>4, <1>6
      <4>2. QED
        BY <1>1, <4>1, LaneType
    <3>3. Same(y, e) /\ e \in Int
      BY <1>11 DEF UnitAt, F, M
    <3>4. Same(ValueOf(Lane(list[i], F, r, M), x), a * y)
      BY <1>7
    <3>5. a * e = V[i]
      <4>1. CASE i = k
        BY <2>1, <4>1
      <4>2. CASE i # k
        BY <3>1, <4>2
      <4>3. QED
        BY <4>1, <4>2
    <3>6. V[i] \in Int
      BY <2>2
    <3> HIDE DEF a, b, e, W, V
    <3>7. y \in Int
      BY <1>1, <3>2, ValueInt
    <3> HIDE DEF y
    <3>8. Same(a * y, a * e)
      BY <3>1, <3>3, <3>7, SameScaled
    <3>9. a * y \in Int
      BY <3>1, <3>7
    <3>10. QED
      BY <3>1, <3>4, <3>5, <3>6, <3>8, <3>9 DEF Same, Congruent
  <2>4. k \in T /\ V[k] = c /\ \A i \in T : i # k => V[i] = 0
    OBVIOUS
  <2> HIDE DEF W, V, T
  <2>5. Same(v, SumOn(T, W))
    <3>1. \A i \in 1 .. B : W[i] \in Int /\ Same(ValueOf(Lane(list[i], F, r, M), x), W[i])
      BY <2>3 DEF T
    <3>2. DOMAIN list = 1 .. B /\ \A i \in 1 .. B : list[i] \in [Ring -> Fp]
      BY <1>5, <1>8 DEF T
    <3> HIDE DEF B
    <3>3. Same(ValueOf(Lane(RingSum(list), F, r, M), x), SumOn(1 .. B, W))
      BY <1>1, <3>1, <3>2, RingSumLane
    <3>4. QED
      BY <3>3 DEF T
  <2>6. SumOn(T, W) % Prime = SumOn(T, V) % Prime
    BY <1>2, <2>3, FieldSize, SumMod
  <2>7. SumOn(T, V) = c
    BY <1>2, <2>3, <2>4, SumOne
  <2>8. Same(v, c)
    BY <2>5, <2>6, <2>7 DEF Same, Congruent
  <2>9. Same(ValueOf(Lane(h, F, r, M), x), w - v)
    <3>1. DOMAIN reduced = Ring /\ DOMAIN g = Ring
      BY <1>9
    <3>2. (\A p \in DOMAIN reduced : reduced[p] \in Int) /\ \A p \in DOMAIN g : g[p] \in Int
      BY <1>9, <3>1, FpInt
    <3> HIDE DEF g
    <3>3. ShortLane(reduced, F, r, M) = Lane(reduced, F, r, M)
      BY <1>1, <3>1, <3>2, ShortLaneIs
    <3>4. ShortLane(g, F, r, M) = Lane(g, F, r, M)
      BY <1>1, <3>1, <3>2, ShortLaneIs
    <3>5. Same(ValueOf(Lane(RingSub(reduced, g), F, r, M), x),
               ValueOf(ShortLane(reduced, F, r, M), x) - ValueOf(ShortLane(g, F, r, M), x))
      BY <1>1, <3>2, RingSumsLane
    <3>6. QED
      BY <1>3, <3>3, <3>4, <3>5
  <2>10. v \in Int /\ w \in Int
    <3>1. Lane(g, F, r, M) \in Polys(M)
      BY <1>1, <1>9, LaneType
    <3>2. Lane(reduced, F, r, M) \in Polys(M)
      BY <1>1, LaneType
    <3>3. v \in Int
      BY <1>1, <3>1, ValueInt
    <3>4. w \in Int
      BY <1>1, <3>2, ValueInt
    <3>5. QED
      BY <3>3, <3>4
  <2> HIDE DEF v, w, c
  <2>11. Same(w - v, w - c)
    <3>1. Same(w, w)
      BY DEF Same, Congruent
    <3>2. QED
      BY <2>2, <2>8, <2>10, <3>1, SameArithmetic
  <2>12. QED
    BY <2>9, <2>11 DEF Same, Congruent, w, c
<1>12. QED
  BY <1>10, <1>11 DEF h, F, M

(* The keepers the guest sends, and the basis the host makes of them.      *)
SentLines(lines, g) == [l \in DOMAIN lines |-> Placed(Keeper(PointsOf(newIds), lines[l]), g)]
(* The products of a row's keeper and a column's.                          *)
SentBasis(g) ==
    [i \in 1 .. batch |-> RingMul(SentLines(RowLines, g)[1 + ((i - 1) \div GuestCols)],
                                  SentLines(ColLines, g)[1 + ((i - 1) % GuestCols)])]

(* The points of the query's rows are a batch.                             *)
LEMMA PointsFitIs ==
    ASSUME batch \in Batches, IdsFit(newIds)
    PROVE  /\ PointsFit(PointsOf(newIds))
           /\ \A k \in 1 .. batch : PointsOf(newIds)[k] = At1(newIds, k)
<1> DEFINE f == PointsOf(newIds)
<1>1. DOMAIN f = 1 .. batch /\ \A k \in 1 .. batch : f[k] = At1(newIds, k) /\ At1(newIds, k) \in Fp
  BY PointsOfIs
<1>2. batch \in Nat
  BY SizesIs
<1>3. f \in [1 .. batch -> Fp]
  <2>1. f = [k \in 1 .. batch |-> f[k]]
    BY <1>1 DEF PointsOf
  <2> HIDE DEF f
  <2>2. QED
    BY <1>1, <2>1
<1>4. QED
  BY <1>1, <1>2, <1>3 DEF PointsFit

(* A keeper is 1 at the points of its line and 0 at the others.            *)
LEMMA KeptLine ==
    ASSUME batch \in Batches, IdsFit(newIds), KeepersExist,
           NEW line \in AllLines, NEW c, LineFits(line, c)
    PROVE  /\ \E l : /\ Keeps(Keeper(PointsOf(newIds), line), l)
                     /\ KeepersFull => factor = 1 \/ l = batch
           /\ \A k \in 1 .. batch :
                Same(ValueOf(Keeper(PointsOf(newIds), line), At1(newIds, k)),
                     IF k \in Range(line) THEN 1 ELSE 0)
<1> DEFINE points == PointsOf(newIds)
           a == Keeper(points, line)
<1>1. PointsFit(points) /\ \A k \in 1 .. batch : points[k] = At1(newIds, k)
  BY PointsFitIs
<1>2. Invertible(points, line)
  BY DEF KeepersExist
<1>3. KeepersFull => factor = 1 \/ Length(a) = batch
  BY DEF KeepersFull
<1> HIDE DEF points
<1>4. /\ \E l \in Nat : l <= batch /\ a \in [Below(l) -> Fp]
      /\ \A p \in 1 .. batch : Same(ValueOf(a, points[p]), IF p \in Range(line) THEN 1 ELSE 0)
  BY <1>1, <1>2, KeeperIs
<1> HIDE DEF a
<1>5. PICK l \in Nat : l <= batch /\ a \in [Below(l) -> Fp]
  BY <1>4
<1>6. Length(a) = l
  BY <1>5, PolyLength
<1>7. Keeps(a, l) /\ (KeepersFull => factor = 1 \/ l = batch)
  BY <1>3, <1>5, <1>6 DEF Keeps
<1>8. \A k \in 1 .. batch : Same(ValueOf(a, At1(newIds, k)), IF k \in Range(line) THEN 1 ELSE 0)
  BY <1>1, <1>4
<1>9. QED
  BY <1>7, <1>8 DEF a, points

(* set_evaluate_basis: the product of row and column keeper is 1 at the    *)
(* point where they cross and 0 at all others.                             *)
LEMMA SentBasisIs ==
    ASSUME batch \in Batches, IdsFit(newIds), GridFits, KeepersExist, NEW g \in Nat
    PROVE  /\ BasisFits(SentBasis(g))
           /\ KeepersFull => \A k \in 1 .. batch : UnitAt(SentBasis(g), k, At1(newIds, k))
<1> DEFINE C == GuestCols
           R == batch \div GuestCols
           points == PointsOf(newIds)
           bs == SentBasis(g)
<1>1. Grid(R, C)
  BY GridIs
<1>2. /\ DOMAIN RowLines = 1 .. R /\ DOMAIN ColLines = 1 .. C
      /\ \A r \in 1 .. R : RowLines[r] \in AllLines
      /\ \A c \in 1 .. C : ColLines[c] \in AllLines
  BY <1>1, LinesAre
<1>3. ASSUME NEW i \in 1 .. batch
      PROVE  /\ bs[i] \in [Ring -> Fp] /\ OnStride(bs[i], factor)
             /\ KeepersFull => \A k \in 1 .. batch :
                   Same(ValueOf(Lane(bs[i], factor, 0, 2 * batch), At1(newIds, k)), IF i = k THEN 1 ELSE 0)
  <2> HIDE DEF C, R
  <2>1. PICK r \in 1 .. R, c \in 1 .. C :
              r = 1 + ((i - 1) \div C) /\ c = 1 + ((i - 1) % C) /\ i = ((r - 1) * C) + c
    BY <1>1, PlaceOf
  <2> DEFINE row == RowLines[r]
             col == ColLines[c]
             a == Keeper(points, row)
             b == Keeper(points, col)
  <2>2. /\ row \in AllLines /\ LineFits(row, C)
        /\ \A p \in 1 .. batch : p \in Range(row) <=> 1 + ((p - 1) \div C) = r
    BY <1>1, <1>2, RowIs
  <2>3. /\ col \in AllLines /\ LineFits(col, R)
        /\ \A p \in 1 .. batch : p \in Range(col) <=> 1 + ((p - 1) % C) = c
    BY <1>1, <1>2, ColIs
  <2>4. bs[i] = RingMul(Placed(a, g), Placed(b, g))
    BY <1>2, <2>1 DEF SentBasis, SentLines, C, R
  <2> HIDE DEF row, col, bs
  <2>5. PICK l : /\ Keeps(a, l)
                 /\ KeepersFull => factor = 1 \/ l = batch
    BY <2>2, KeptLine
  <2>6. PICK m : /\ Keeps(b, m)
                 /\ KeepersFull => factor = 1 \/ m = batch
    BY <2>3, KeptLine
  <2>7. \A k \in 1 .. batch : Same(ValueOf(a, At1(newIds, k)), IF k \in Range(row) THEN 1 ELSE 0)
    BY <2>2, KeptLine
  <2>8. \A k \in 1 .. batch : Same(ValueOf(b, At1(newIds, k)), IF k \in Range(col) THEN 1 ELSE 0)
    BY <2>3, KeptLine
  <2> HIDE DEF a, b
  <2>9. /\ bs[i] \in [Ring -> Fp] /\ OnStride(bs[i], factor)
        /\ factor = 1 \/ (l = batch /\ m = batch) =>
              \A x \in Int : Same(ValueOf(Lane(bs[i], factor, 0, 2 * batch), x), ValueOf(a, x) * ValueOf(b, x))
    <3>1. /\ RingMul(Placed(a, g), Placed(b, g)) \in [Ring -> Fp]
          /\ OnStride(RingMul(Placed(a, g), Placed(b, g)), factor)
          /\ factor = 1 \/ (l = batch /\ m = batch) =>
                \A x \in Int : Same(ValueOf(Lane(RingMul(Placed(a, g), Placed(b, g)), factor, 0, 2 * batch), x),
                                    ValueOf(a, x) * ValueOf(b, x))
      BY <2>5, <2>6, BasisTerm
    <3>2. QED
      BY <2>4, <3>1
  <2>10. ASSUME KeepersFull, NEW k \in 1 .. batch
         PROVE  Same(ValueOf(Lane(bs[i], factor, 0, 2 * batch), At1(newIds, k)), IF i = k THEN 1 ELSE 0)
    <3> DEFINE x == At1(newIds, k)
               u == ValueOf(a, x)
               v == ValueOf(b, x)
               ra == IF k \in Range(row) THEN 1 ELSE 0
               rb == IF k \in Range(col) THEN 1 ELSE 0
    <3>1. x \in Int
      BY PointsOfIs
    <3>2. Same(ValueOf(Lane(bs[i], factor, 0, 2 * batch), x), u * v)
      BY <2>5, <2>6, <2>9, <2>10, <3>1
    <3>3. Same(u, ra) /\ Same(v, rb)
      BY <2>7, <2>8
    <3>4. u \in Int /\ v \in Int
      <4>1. a \in Polys(l) /\ l \in Nat /\ b \in Polys(m) /\ m \in Nat
        BY <2>5, <2>6, FpPoly DEF Keeps
      <4> HIDE DEF x
      <4>2. u \in Int
        BY <3>1, <4>1, ValueInt
      <4>3. v \in Int
        BY <3>1, <4>1, ValueInt
      <4>4. QED
        BY <4>2, <4>3
    <3>5. ra \in Int /\ rb \in Int
      OBVIOUS
    <3>6. ra * rb = IF i = k THEN 1 ELSE 0
      <4>1. k \in Range(row) /\ k \in Range(col) <=> i = k
        <5>1. PICK r1 \in 1 .. R, c1 \in 1 .. C :
                r1 = 1 + ((k - 1) \div C) /\ c1 = 1 + ((k - 1) % C) /\ k = ((r1 - 1) * C) + c1
          BY <1>1, PlaceOf
        <5>2. k \in Range(row) <=> r1 = r
          BY <2>2, <5>1
        <5>3. k \in Range(col) <=> c1 = c
          BY <2>3, <5>1
        <5>4. r1 = r /\ c1 = c => i = k
          BY <2>1, <5>1
        <5>5. i = k => r1 = r /\ c1 = c
          BY <2>1, <5>1
        <5>6. QED
          BY <5>2, <5>3, <5>4, <5>5
      <4>2. QED
        BY <4>1
    <3> HIDE DEF u, v, ra, rb
    <3>7. Same(u * v, ra * rb)
      BY <3>3, <3>4, <3>5, SameArithmetic
    <3>8. QED
      BY <3>2, <3>6, <3>7 DEF Same, Congruent, x
  <2>11. QED
    BY <2>9, <2>10
<1> HIDE DEF bs
<1>4. BasisFits(bs)
  BY <1>3 DEF BasisFits
<1>5. ASSUME KeepersFull, NEW k \in 1 .. batch PROVE UnitAt(bs, k, At1(newIds, k))
  BY <1>3, <1>5 DEF UnitAt
<1>6. QED
  BY <1>4, <1>5 DEF bs

-----------------------------------------------------------------------------
(* What makes a query succeed.                                             *)

(* Nothing throws where the size is supported.                             *)
LEMMA KeysSufficeIs ==
    ASSUME batch \in Batches, factor <= 2^KeyLevels
    PROVE  KeysSuffice
<1>1. PICK m \in 0 .. 30 : N = Two(m) /\ \E n \in 0 .. m - 1 : factor = Two(n)
  BY SizesIs
<1>2. PICK n \in 0 .. m - 1 : factor = Two(n)
  BY <1>1
<1>3. n \in 0 .. 30 /\ n \in Nat
  BY <1>1, <1>2
<1>4. KeyLevels \in Nat \ {0}
  BY PolyPirAssumption
<1>5. n <= KeyLevels
  <2> SUFFICES ASSUME KeyLevels < n PROVE FALSE
    BY <1>3, <1>4
  <2>1. KeyLevels \in 0 .. 30
    BY <1>3, <1>4
  <2>2. Two(KeyLevels) < Two(n)
    BY <1>3, <2>1, TwoRises
  <2>3. Two(KeyLevels) \in Nat /\ Two(n) \in Nat
    BY <1>3, <2>1, TwoIs
  <2>4. Two(n) <= Two(KeyLevels)
    BY <1>2 DEF Two
  <2>5. QED
    BY <2>2, <2>3, <2>4
<1>6. Min({k \in 0 .. 30 : 2^k >= factor}) = n
  <2> DEFINE S == {k \in 0 .. 30 : Two(k) >= factor}
  <2>1. S \in SUBSET Nat /\ IsFiniteSet(S)
    <3>1. S \subseteq 0 .. 30
      OBVIOUS
    <3>2. IsFiniteSet(S)
      BY <3>1, SmallFinite, FS_Subset
    <3>3. QED
      BY <3>1, <3>2
  <2>2. n \in S
    <3>1. Two(n) \in Nat
      BY <1>3, TwoIs
    <3>2. QED
      BY <1>2, <1>3, <3>1
  <2>3. \A k \in S : n <= k
    <3> SUFFICES ASSUME NEW k \in 0 .. 30, Two(k) >= Two(n), k < n PROVE FALSE
      BY <1>2, <1>3
    <3>1. Two(k) < Two(n)
      BY <1>3, TwoRises
    <3>2. Two(k) \in Nat /\ Two(n) \in Nat
      BY <1>3, TwoIs
    <3>3. QED
      BY <3>1, <3>2
  <2>4. S = {k \in 0 .. 30 : 2^k >= factor}
    BY DEF Two
  <2> HIDE DEF S
  <2>5. Min(S) \in S /\ \A k \in S : Min(S) <= k
    BY <2>1, <2>2, MinIn
  <2>6. QED
    BY <1>3, <2>1, <2>2, <2>3, <2>4, <2>5
<1>7. Sparsities = [l \in 1 .. n |-> 2^(l - 1)]
  BY <1>6 DEF Sparsities
<1>8. ASSUME NEW s \in 1 .. n PROVE HasGaloisKey(1 + (N \div Sparsities[s]))
  <2>1. s - 1 \in Below(KeyLevels)
    BY <1>3, <1>4, <1>5 DEF Below
  <2>2. Sparsities[s] = 2^(s - 1)
    BY <1>7
  <2>3. QED
    BY <2>1, <2>2 DEF HasGaloisKey
<1>9. QED
  BY <1>7, <1>8 DEF KeysSuffice

(* A query without repeated rows has its keepers: nothing is divided by    *)
(* zero.                                                                   *)
LEMMA DistinctKeepersExist ==
    ASSUME batch \in Batches, IdsFit(newIds), Distinct(newIds), GridFits
    PROVE  KeepersExist
<1> DEFINE points == PointsOf(newIds)
<1>1. PointsFit(points) /\ \A k \in 1 .. batch : points[k] = At1(newIds, k)
  BY PointsFitIs
<1>2. \A line \in AllLines : \E n : LineFits(line, n)
  BY GridIs, LinesAre
<1>3. \A k \in 1 .. batch : newIds[k] \in Below(Points)
  BY PointsOfIs
<1>4. \A p, q \in 1 .. batch : newIds[p] = newIds[q] => p = q
  <2>1. DOMAIN newIds = 1 .. batch
    BY DEF IdsFit
  <2>2. QED
    BY <2>1 DEF Distinct, IsInjective
<1>5. \A p, q \in 1 .. batch : points[p] = points[q] => p = q
  <2> TAKE p, q \in 1 .. batch
  <2> HAVE points[p] = points[q]
  <2>1. Power(Xi, newIds[p]) = Power(Xi, newIds[q])
    BY <1>1 DEF At1
  <2> DEFINE i == newIds[p]
             j == newIds[q]
  <2>2. i \in Below(Points) /\ j \in Below(Points) /\ Power(Xi, i) = Power(Xi, j)
    BY <1>3, <2>1
  <2>3. i \in Int /\ j \in Int
    BY <2>2 DEF Below
  <2>4. i = j => p = q
    BY <1>4
  <2> HIDE DEF i, j
  <2>5. ~ (i < j) /\ ~ (j < i)
    BY <2>2, XiDistinct
  <2>6. i = j
    BY <2>3, <2>5
  <2>7. QED
    BY <2>4, <2>6
<1> HIDE DEF points
<1>6. \A line \in AllLines : Invertible(points, line)
  <2> TAKE line \in AllLines
  <2>1. PICK n : LineFits(line, n)
    BY <1>2
  <2>2. QED
    BY <1>1, <1>5, <2>1, DistinctInvertible
<1>7. QED
  BY <1>6 DEF KeepersExist, points

(* The length of a list.                                                   *)
LEMMA LenIs ==
    ASSUME NEW n \in Nat, NEW D, NEW s \in [1 .. n -> D]
    PROVE  Len(s) = n
<1>1. s \in Seq(D)
  OBVIOUS
<1>2. QED
  BY <1>1

(* What the guest's message holds, as the host takes it apart.             *)
LEMMA SentIs ==
    ASSUME batch \in Batches, GridFits, NEW g
    PROVE  /\ Len(SentLines(ColLines, g)) = GuestCols
           /\ Len(SentLines(RowLines, g)) = batch \div GuestCols
           /\ SentLines(RowLines, g) = [l \in DOMAIN RowLines |-> Placed(Keeper(PointsOf(newIds), RowLines[l]), g)]
           /\ SentLines(ColLines, g) = [l \in DOMAIN ColLines |-> Placed(Keeper(PointsOf(newIds), ColLines[l]), g)]
<1> DEFINE C == GuestCols
           R == batch \div GuestCols
           a == SentLines(RowLines, g)
           b == SentLines(ColLines, g)
<1>1. Grid(R, C)
  BY GridIs
<1>2. DOMAIN RowLines = 1 .. R /\ DOMAIN ColLines = 1 .. C
  BY <1>1, LinesAre
<1>3. R \in Nat /\ C \in Nat
  BY <1>1 DEF Grid
<1>4. DOMAIN a = 1 .. R /\ DOMAIN b = 1 .. C
  BY <1>2 DEF SentLines
<1>5. /\ a = [l \in DOMAIN RowLines |-> Placed(Keeper(PointsOf(newIds), RowLines[l]), g)]
      /\ b = [l \in DOMAIN ColLines |-> Placed(Keeper(PointsOf(newIds), ColLines[l]), g)]
  BY DEF SentLines
<1> HIDE DEF R, C, a, b
<1>6. Len(a) = R /\ Len(b) = C
  <2> DEFINE A == {a[l] : l \in 1 .. R}
             B == {b[l] : l \in 1 .. C}
  <2>1. a = [l \in 1 .. R |-> a[l]] /\ b = [l \in 1 .. C |-> b[l]]
    BY <1>2, <1>4, <1>5
  <2>2. a \in [1 .. R -> A] /\ b \in [1 .. C -> B]
    BY <2>1
  <2> HIDE DEF A, B
  <2>3. Len(a) = R
    BY <1>3, <2>2, LenIs
  <2>4. Len(b) = C
    BY <1>3, <2>2, LenIs
  <2>5. QED
    BY <2>3, <2>4
<1>7. QED
  BY <1>5, <1>6 DEF a, b, R, C

(* The host takes the keepers that a guest with its grid has sent.         *)
LEMMA BasisLoadsIs ==
    ASSUME batch \in Batches, NEW g, GridFits, HostCols = GuestCols,
           query.rows = SentLines(RowLines, g), query.cols = SentLines(ColLines, g)
    PROVE  BasisLoads
<1> DEFINE C == GuestCols
           R == batch \div GuestCols
<1>1. Grid(R, C)
  BY GridIs
<1>2. R \in Nat /\ C \in Nat \ {0} /\ batch = R * C
  BY <1>1 DEF Grid
<1>3. Len(query.cols) = C /\ Len(query.rows) = R
  BY SentIs
<1>4. (batch - 1) \div C < R
  <2>1. batch \in 1 .. batch
    BY SizesIs
  <2>2. PICK r \in 1 .. R, c \in 1 .. C : r = 1 + ((batch - 1) \div C)
    BY <1>1, <2>1, PlaceOf
  <2> DEFINE d == (batch - 1) \div C
  <2>3. r = 1 + d /\ d \in Int
    BY <1>2, <2>2, SizesIs
  <2> HIDE DEF d
  <2>4. d < R
    BY <1>2, <2>3
  <2>5. QED
    BY <2>4 DEF d
<1>5. QED
  BY <1>2, <1>3, <1>4 DEF BasisLoads

(* Whichever overload loads it, the host's basis is the one sent.          *)
LEMMA BasisIsSent ==
    ASSUME batch \in Batches, NEW g, GridFits, BasisLoads,
           query.rows = SentLines(RowLines, g), query.cols = SentLines(ColLines, g)
    PROVE  [i \in 1 .. batch |-> RingMul(query.rows[1 + ((i - 1) \div BasisCols)],
                                         query.cols[1 + ((i - 1) % BasisCols)])] = SentBasis(g)
<1>1. Len(query.cols) = GuestCols
  BY SentIs
<1>2. BasisCols = GuestCols
  <2>1. GuestCols \in Nat /\ HostCols \in Nat /\ GuestCols <= HostCols
    BY GridIs
  <2>2. query.form = "query" \/ HostCols <= Len(query.cols)
    BY DEF BasisLoads
  <2>3. QED
    BY <1>1, <2>1, <2>2 DEF BasisCols
<1>3. QED
  BY <1>2 DEF SentBasis

-----------------------------------------------------------------------------
(* What a step leaves alone.                                               *)

(* What depends on the arguments and on new_ids only.                      *)
LEMMA SizesStay ==
    ASSUME UNCHANGED arguments
    PROVE  /\ batch' = batch /\ data' = data /\ blocks' = blocks /\ share' = share
           /\ factor' = factor /\ K' = K /\ Slots' = Slots /\ Features' = Features
           /\ \A f : ColumnOf(f)' = ColumnOf(f)
           /\ SupportedSize' = SupportedSize /\ GridFits' = GridFits
           /\ GuestCols' = GuestCols /\ HostCols' = HostCols
<1>1. batch' = batch /\ data' = data /\ blocks' = blocks /\ share' = share
  BY DEF arguments
<1>2. factor' = factor /\ K' = K
  BY <1>1 DEF factor, K
<1>3. Slots' = Slots
  BY <1>1, <1>2 DEF Slots
<1>4. Features' = Features
  BY <1>1, <1>2 DEF Features
<1>5. \A f : ColumnOf(f)' = ColumnOf(f)
  BY <1>1, <1>2, <1>3 DEF ColumnOf
<1>6. GuestCols' = GuestCols /\ HostCols' = HostCols
  BY <1>1 DEF GuestCols, HostCols
<1>7. GridFits' = GridFits
  BY <1>1, <1>6 DEF GridFits
<1>8. SupportedSize' = SupportedSize
  BY <1>1, <1>2 DEF SupportedSize
<1>9. QED
  BY <1>1, <1>2, <1>3, <1>4, <1>5, <1>6, <1>7, <1>8

(* encode depends on the constructor's arguments only.                     *)
LEMMA EncodeStays ==
    ASSUME UNCHANGED arguments, NEW columns
    PROVE  encode(columns)' = encode(columns)
<1>1. batch' = batch /\ factor' = factor /\ K' = K
  BY SizesStay
<1>2. QED
  BY <1>1 DEF encode

(* OffLine is the fold over all positions, before and after a step.        *)
LEMMA OffLineFolds ==
    /\ \A line : OffLine(line) = OffFold(line, [p \in 1 .. batch |-> p])
    /\ (\A line : OffLine(line) = OffFold(line, [p \in 1 .. batch |-> p]))'
<1>1. \A line : OffLine(line) = OffFold(line, [p \in 1 .. batch |-> p])
  BY DEF OffLine, OffFold
<1>2. QED
  BY <1>1, PTL

(* The grid depends on the constructor's arguments only.                   *)
LEMMA LinesStay ==
    ASSUME UNCHANGED arguments
    PROVE  /\ RowLines' = RowLines /\ ColLines' = ColLines /\ AllLines' = AllLines
           /\ \A line : OffLine(line)' = OffLine(line)
<1>1. batch' = batch /\ GuestCols' = GuestCols
  BY SizesStay
<1>2. RowLines' = RowLines /\ ColLines' = ColLines
  BY <1>1 DEF RowLines, ColLines
<1>3. AllLines' = AllLines
  BY <1>2 DEF AllLines
<1>4. ASSUME NEW line PROVE OffLine(line)' = OffLine(line)
  <2>1. OffLine(line) = OffFold(line, [p \in 1 .. batch |-> p])
    BY OffLineFolds
  <2>2. OffLine(line)' = OffFold(line, [p \in 1 .. batch' |-> p])
    BY OffLineFolds
  <2>3. QED
    BY <1>1, <2>1, <2>2
<1>5. QED
  BY <1>2, <1>3, <1>4

(* Keepers depend on the arguments and on what they are made from.         *)
LEMMA KeepersStay ==
    ASSUME UNCHANGED arguments
    PROVE  \A points, line, g : /\ Killer(points, line)' = Killer(points, line)
                                /\ Invertible(points, line)' = Invertible(points, line)
                                /\ Keeper(points, line)' = Keeper(points, line)
                                /\ Placed(line, g)' = Placed(line, g)
<1> TAKE points, line, g
<1>1. factor' = factor /\ OffLine(line)' = OffLine(line)
  BY SizesStay, LinesStay
<1>2. Killer(points, line)' = Killer(points, line)
  BY <1>1 DEF Killer
<1>3. Invertible(points, line)' = Invertible(points, line)
  BY <1>2 DEF Invertible
<1>4. Keeper(points, line)' = Keeper(points, line)
  BY <1>2 DEF Keeper
<1>5. Placed(line, g)' = Placed(line, g)
  BY <1>1 DEF Placed
<1>6. QED
  BY <1>2, <1>3, <1>4, <1>5

(* What a query determines does not change with anything else.             *)
LEMMA IdsStay ==
    ASSUME UNCHANGED arguments, newIds' = newIds
    PROVE  /\ IdsFit(newIds)' = IdsFit(newIds) /\ Chara(newIds)' = Chara(newIds)
           /\ PowersOf(newIds)' = PowersOf(newIds)
           /\ KeepersFull' = KeepersFull /\ KeepersExist' = KeepersExist
           /\ Distinct(newIds)' = Distinct(newIds)
           /\ \A k : At1(newIds, k)' = At1(newIds, k)
           /\ \A g : /\ SentLines(RowLines, g)' = SentLines(RowLines, g)
                     /\ SentLines(ColLines, g)' = SentLines(ColLines, g)
           /\ \A bs : BasisFits(bs)' = BasisFits(bs)
           /\ \A bs, k, x : UnitAt(bs, k, x)' = UnitAt(bs, k, x)
<1>1. batch' = batch /\ factor' = factor /\ K' = K
  BY SizesStay
<1>2. RowLines' = RowLines /\ ColLines' = ColLines /\ AllLines' = AllLines
  BY LinesStay
<1>3. PointsOf(newIds)' = PointsOf(newIds)
  OBVIOUS
<1>4. IdsFit(newIds)' = IdsFit(newIds)
  BY <1>1 DEF IdsFit
<1>5. Chara(newIds)' = Chara(newIds)
  OBVIOUS
<1>6. PowersOf(newIds)' = PowersOf(newIds)
  <2>1. \A f : Spread(f)' = Spread(f)
    BY <1>1 DEF Spread
  <2>2. \A ch : CharaAndPowers(ch)' = CharaAndPowers(ch)
    BY <1>1 DEF CharaAndPowers
  <2>3. QED
    BY <1>1, <1>5, <2>1, <2>2 DEF PowersOf
<1>7. KeepersFull' = KeepersFull
  <2>1. \A points, line : Keeper(points, line)' = Keeper(points, line)
    BY KeepersStay
  <2>2. QED
    BY <1>1, <1>2, <1>3, <2>1 DEF KeepersFull
<1>8. KeepersExist' = KeepersExist
  <2>1. \A points, line : Invertible(points, line)' = Invertible(points, line)
    BY KeepersStay
  <2>2. QED
    BY <1>2, <1>3, <2>1 DEF KeepersExist
<1>9. \A g : /\ SentLines(RowLines, g)' = SentLines(RowLines, g)
             /\ SentLines(ColLines, g)' = SentLines(ColLines, g)
  <2>1. \A points, line : Keeper(points, line)' = Keeper(points, line)
    BY KeepersStay
  <2>2. \A k, g : Placed(k, g)' = Placed(k, g)
    BY KeepersStay
  <2>3. QED
    BY <1>2, <1>3, <2>1, <2>2 DEF SentLines
<1>10. \A bs : BasisFits(bs)' = BasisFits(bs)
  BY <1>1 DEF BasisFits
<1>11. \A bs, k, x : UnitAt(bs, k, x)' = UnitAt(bs, k, x)
  BY <1>1 DEF UnitAt
<1>12. Distinct(newIds)' = Distinct(newIds) /\ \A k : At1(newIds, k)' = At1(newIds, k)
  OBVIOUS
<1>13. QED
  BY <1>4, <1>5, <1>6, <1>7, <1>8, <1>9, <1>10, <1>11, <1>12

-----------------------------------------------------------------------------
(* The inductive invariant.                                                *)

(* The inductive invariant.                                                *)
ArgumentsFit ==
    /\ batch \in Batches /\ data \in Tables
    /\ Slots \in Nat \ {0} /\ Len(data) % factor = 0
    /\ blocks \in 1 .. MaxBlocks /\ share \in BOOLEAN

(* The phases of a query with shares, those in which there is a query, and *)
(* those in which the host has its powers.                                 *)
Sharing == {"keepers", "basis"}
Asked == {"keepers", "load", "basis", "respond", "extract", "done"}
Loaded == {"basis", "respond", "extract", "done"}

(* The columns of a slot.                                                  *)
ColumnsOf(s) == SubSeq(data, (s - 1) * factor + 1, s * factor)

(* The query of every phase is the one of newIds, and so are the powers    *)
(* that the host has unzipped.                                             *)
PhaseFits ==
    /\ queries \in 0 .. MaxQueries
    /\ phase \in {"encode", "query", "fault"} \cup Asked
    /\ phase \in Sharing => share
    /\ phase \in Asked => IdsFit(newIds) /\ chara = Chara(newIds)
    /\ phase \in {"keepers", "load"} => query.powers = interleave(CharaAndPowers(chara))
    /\ phase \in Loaded => powers = PowersOf(newIds)

(* Every slot of the host holds its own columns' plaintexts.               *)
PiecesFit ==
    IF phase = "encode" THEN pieces = << >>
    ELSE pieces = [s \in 1 .. Min({Slots, blocks}) |-> encode(ColumnsOf(s))]

\* The keepers are on their way to the host.
KeepersSent ==
    share /\ phase \in {"load", "basis"} =>
        /\ GridFits /\ KeepersExist
        /\ \E g \in Garbage : /\ query.rows = SentLines(RowLines, g)
                              /\ query.cols = SentLines(ColLines, g)

(* The basis tells the positions of the query apart.                       *)
BasisRight ==
    share /\ phase = "respond" =>
        /\ BasisFits(basis)
        /\ KeepersFull => \A k \in 1 .. batch : UnitAt(basis, k, At1(newIds, k))

(* The response has the blocks so far.                                     *)
ResponseFits ==
    /\ response \in Seq([Ring -> Fp]) /\ Len(response) <= blocks
    /\ phase \in {"encode", "keepers", "load", "basis"} => response = << >>
    /\ phase = "respond" => Len(response) < blocks
    /\ phase = "extract" => Len(response) = blocks

\* What the guest will read in lane r of a polynomial for its k-th row.
Read(f, r, k) == ValueOf(Lane(f, factor, r, 2 * batch), At1(newIds, k))

(* What the guest will read of a block that is answered is the value in    *)
(* the host's table, less the host's share of it.                          *)
ResponseRight ==
    phase \in {"respond", "extract"} =>
        \A b \in 1 .. Len(response), r \in Below(factor), k \in 1 .. batch :
            LET f == (b - 1) * factor + r
                value == ColumnOf(f)[newIds[k]]
            IN  IF share
                THEN /\ f \in DOMAIN result0 /\ result0[f][k] \in Int
                     /\ KeepersFull => Same(Read(response[b], r, k), value - result0[f][k])
                ELSE Same(Read(response[b], r, k), value)

(* A query fails because of its sizes or because a row is in it twice.     *)
FaultsRight == phase = "fault" => ~ SupportedSize \/ (share /\ ~ Distinct(newIds))

(* The inductive invariant.                                                *)
IInv ==
    /\ ArgumentsFit /\ PhaseFits /\ PiecesFit /\ KeepersSent /\ BasisRight
    /\ ResponseFits /\ ResponseRight /\ FaultsRight
    /\ SharesAddUp /\ RetrievalRight

(* The columns of a slot are those the features of a block name.           *)
LEMMA TableIs ==
    ASSUME ArgumentsFit
    PROVE  /\ data \in Seq([Below(Points) -> Fp]) /\ Len(data) = Slots * factor
           /\ \A f \in Nat : /\ 1 + (f % (Slots * factor)) \in 1 .. Len(data)
                             /\ ColumnOf(f) \in [Below(Points) -> Fp]
<1>1. batch \in Batches /\ data \in Tables /\ Slots \in Nat \ {0} /\ Len(data) % factor = 0
  BY DEF ArgumentsFit
<1>2. factor \in Nat \ {0} /\ data \in Seq([Below(Points) -> Fp])
  BY <1>1, SizesIs, PolyPirAssumption
<1>3. Len(data) = Slots * factor
  <2> DEFINE n == Len(data)
             q == n \div factor
  <2>1. n \in Int /\ n % factor = 0
    BY <1>1, <1>2
  <2> HIDE DEF n
  <2>2. n = factor * q + (n % factor) /\ q \in Int
    BY <1>2, <2>1, DivMod
  <2>3. q = Slots
    BY DEF Slots, n
  <2> HIDE DEF q
  <2>4. n = Slots * factor
    <3>1. factor * q = q * factor /\ factor * q \in Int
      BY <1>2, <2>2
    <3>2. n = factor * q
      BY <2>1, <2>2, <3>1
    <3>3. QED
      BY <2>3, <3>1, <3>2
  <2>5. QED
    BY <2>4 DEF n
<1>4. Slots * factor \in Nat \ {0}
  <2>1. Slots * factor > 0
    BY <1>1, <1>2
  <2>2. Slots * factor \in Int
    BY <1>1, <1>2
  <2>3. QED
    BY <2>1, <2>2
<1>5. ASSUME NEW f \in Nat
      PROVE  1 + (f % (Slots * factor)) \in 1 .. Len(data) /\ ColumnOf(f) \in [Below(Points) -> Fp]
  <2> DEFINE m == Slots * factor
             p == f % m
  <2>1. m \in Nat \ {0}
    BY <1>4
  <2> HIDE DEF m
  <2>2. p \in 0 .. m - 1
    BY <2>1, RemainderOf
  <2> HIDE DEF p
  <2>3. 1 + p \in 1 .. m
    BY <2>1, <2>2
  <2>4. 1 + p \in 1 .. Len(data)
    BY <1>3, <2>3 DEF m
  <2>5. data[1 + p] \in [Below(Points) -> Fp]
    BY <1>2, <2>4
  <2>6. QED
    BY <2>4, <2>5 DEF p, m, ColumnOf
<1>6. QED
  BY <1>2, <1>3, <1>5

(* Reading slots in a circle gives the columns that the features of a      *)
(* block name.                                                             *)
LEMMA SlotIs ==
    ASSUME ArgumentsFit, NEW b \in Nat
    PROVE  /\ 1 + (b % Slots) \in 1 .. Slots
           /\ ColumnsFit(ColumnsOf(1 + (b % Slots)))
           /\ \A r \in Below(factor) : ColumnsOf(1 + (b % Slots))[r + 1] = ColumnOf((b * factor) + r)
<1>1. batch \in Batches /\ Slots \in Nat \ {0} /\ factor \in Nat \ {0}
  BY SizesIs DEF ArgumentsFit
<1>2. data \in Seq([Below(Points) -> Fp]) /\ Len(data) = Slots * factor
  BY TableIs
<1> DEFINE S == Slots
           F == factor
           c == b % S
           q == b \div S
           D == [Below(Points) -> Fp]
           base == c * F
<1>3. S \in Nat \ {0} /\ F \in Nat \ {0} /\ S \in Nat /\ F \in Nat
  BY <1>1
<1> HIDE DEF S, F
<1>4. b = S * q + c /\ c \in 0 .. S - 1 /\ q \in Int
  BY <1>3, DivMod
<1> HIDE DEF c, q
<1>5. c \in Nat /\ c < S /\ c \in Below(S) /\ base \in Nat
  BY <1>3, <1>4 DEF Below
<1>6. base + F = (c + 1) * F /\ S * F \in Nat
  BY <1>3, <1>5
<1>7. base + F <= S * F
  <2>1. c + 1 <= S
    BY <1>3, <1>5
  <2>2. (c + 1) * F <= S * F
    BY <1>3, <1>5, <2>1
  <2>3. QED
    BY <1>6, <2>2
<1>8. ColumnsOf(1 + c) = SubSeq(data, base + 1, base + F)
  <2>1. ((1 + c) - 1) = c /\ (1 + c) * F = base + F
    BY <1>5, <1>6
  <2>2. QED
    BY <2>1 DEF ColumnsOf, F
<1> HIDE DEF base, D
<1>9. Len(data) \in Nat /\ base + F <= Len(data)
  BY <1>2, <1>6, <1>7 DEF S, F
<1>11. \A i \in 1 .. F : data[base + i] \in D
  <2>1. data \in Seq(D)
    BY <1>2 DEF D
  <2>2. \A i \in 1 .. F : base + i \in 1 .. Len(data)
    BY <1>3, <1>5, <1>9
  <2>3. QED
    BY <2>1, <2>2
<1>10. ColumnsOf(1 + c) = [i \in 1 .. F |-> data[base + i]]
  <2> DEFINE lo == base + 1
             hi == base + F
             w == SubSeq(data, lo, hi)
  <2>1. lo \in Int /\ hi \in Int /\ lo <= hi /\ hi - lo + 1 = F
    BY <1>3, <1>5
  <2>2. \A i \in 1 .. F : lo + i - 1 = base + i
    BY <1>3, <1>5
  <2>3. \A i \in lo .. hi : data[i] \in D
    <3>1. \A i \in lo .. hi : i - base \in 1 .. F /\ base + (i - base) = i
      BY <1>3, <1>5
    <3>2. QED
      BY <1>11, <3>1
  <2> HIDE DEF lo, hi
  <2>4. w \in Seq(D) /\ Len(w) = F /\ \A i \in 1 .. F : w[i] = data[lo + i - 1]
    BY <2>1, <2>3, SubSeqProperties
  <2>5. ColumnsOf(1 + c) = w
    BY <1>8 DEF lo, hi
  <2> HIDE DEF w
  <2>6. w = [i \in 1 .. F |-> w[i]]
    BY <2>4
  <2>7. QED
    BY <2>2, <2>4, <2>5, <2>6
<1>12. ColumnsFit(ColumnsOf(1 + c))
  BY <1>10, <1>11 DEF ColumnsFit, F, D
<1>13. ASSUME NEW r \in Below(F)
       PROVE  ColumnsOf(1 + c)[r + 1] = ColumnOf((b * F) + r)
  <2>1. r \in Nat /\ r + 1 \in 1 .. F
    BY <1>3, BelowIs
  <2>2. ColumnsOf(1 + c)[r + 1] = data[base + (r + 1)]
    BY <1>10, <2>1
  <2>3. ((b * F) + r) % (S * F) = base + r
    <3> DEFINE m == S * F
               y == base + r
    <3>1. m \in Nat \ {0}
      <4>1. S * F > 0
        BY <1>3
      <4>2. QED
        BY <1>6, <4>1
    <3>2. y \in Below(m)
      BY <1>3, <1>5, StrideBelow DEF base
    <3>3. (b * F) + r = q * m + y
      <4>1. b * F = q * (S * F) + c * F
        BY <1>3, <1>4, <1>5
      <4>2. q * (S * F) \in Int /\ c * F \in Int
        BY <1>3, <1>4, <1>5, <1>6
      <4>3. QED
        BY <2>1, <4>1, <4>2 DEF base
    <3> HIDE DEF m, y
    <3>4. (q * m + y) % m = y
      BY <1>4, <3>1, <3>2, Strides
    <3>5. QED
      BY <3>3, <3>4 DEF m, y
  <2>4. ColumnOf((b * F) + r) = data[1 + (((b * F) + r) % (S * F))]
    BY DEF ColumnOf, S, F
  <2>5. base + (r + 1) = 1 + (base + r)
    BY <1>5, <2>1
  <2>6. QED
    BY <2>2, <2>3, <2>4, <2>5
<1>14. 1 + c \in 1 .. S
  BY <1>3, <1>4
<1>15. QED
  BY <1>12, <1>13, <1>14 DEF c, S, F

(* The smaller of two numbers.                                             *)
LEMMA SmallerIs ==
    ASSUME NEW a \in Nat, NEW b \in Nat
    PROVE  Min({a, b}) = IF a <= b THEN a ELSE b
<1> DEFINE S == {a, b}
<1>1. S \in SUBSET Nat /\ S # {} /\ a \in S /\ b \in S
  OBVIOUS
<1>2. IsFiniteSet(S)
  <2>1. IsFiniteSet({a}) /\ IsFiniteSet({b})
    BY FS_Singleton
  <2>2. S = {a} \cup {b}
    OBVIOUS
  <2>3. QED
    BY <2>1, <2>2, FS_Union
<1>3. \A x \in S : x = a \/ x = b
  OBVIOUS
<1> HIDE DEF S
<1>4. Min(S) \in S /\ \A y \in S : Min(S) <= y
  BY <1>1, <1>2, MinIn
<1> DEFINE m == Min(S)
<1>5. (m = a \/ m = b) /\ m <= a /\ m <= b
  BY <1>1, <1>3, <1>4
<1> HIDE DEF m
<1>6. m = IF a <= b THEN a ELSE b
  BY <1>5
<1>7. QED
  BY <1>6 DEF m, S

(* The slot that a block reads is encoded, and holds the block's columns.  *)
LEMMA PiecesAre ==
    ASSUME ArgumentsFit, PiecesFit
    PROVE  /\ \A s \in DOMAIN pieces : PlainsFit(pieces[s])
           /\ phase # "encode" => \A b \in Nat : b < blocks =>
                 /\ 1 + (b % Slots) \in DOMAIN pieces
                 /\ pieces[1 + (b % Slots)] = encode(ColumnsOf(1 + (b % Slots)))
<1>1. batch \in Batches /\ Slots \in Nat \ {0} /\ Slots \in Nat /\ blocks \in Nat \ {0} /\ blocks \in Nat
  BY PolyPirAssumption DEF ArgumentsFit
<1> DEFINE S == Slots
           m == Min({S, blocks})
<1>2. S \in Nat \ {0} /\ S \in Nat
  BY <1>1
<1> HIDE DEF S
<1>3. m = IF S <= blocks THEN S ELSE blocks
  BY <1>1, <1>2, SmallerIs
<1> HIDE DEF m
<1>4. m \in Nat /\ m <= S /\ m <= blocks
  BY <1>1, <1>2, <1>3
<1>5. ASSUME NEW s \in 1 .. m PROVE PlainsFit(encode(ColumnsOf(s)))
  <2>1. s - 1 \in Nat /\ s - 1 < S
    BY <1>2, <1>4
  <2> DEFINE b == s - 1
  <2>2. b \in 0 .. S - 1 /\ b \in Nat
    BY <1>2, <2>1
  <2> HIDE DEF b
  <2>3. b % S = b
    BY <1>2, <2>2, ModOfSmall
  <2>4. ColumnsFit(ColumnsOf(1 + (b % S)))
    BY <2>2, SlotIs DEF S
  <2>5. 1 + (b % S) = s
    BY <2>3 DEF b
  <2>6. QED
    BY <1>1, <2>4, <2>5, EncodeIs
<1>6. CASE phase = "encode"
  <2>1. pieces = << >>
    BY <1>6 DEF PiecesFit
  <2>2. QED
    BY <1>6, <2>1
<1>7. CASE phase # "encode"
  <2>1. pieces = [s \in 1 .. m |-> encode(ColumnsOf(s))]
    BY <1>7 DEF PiecesFit, m, S
  <2>2. ASSUME NEW b \in Nat, b < blocks PROVE 1 + (b % S) \in 1 .. m
    <3> DEFINE c == b % S
    <3>1. c \in 0 .. S - 1 /\ c \in Int
      BY <1>2, RemainderOf
    <3>2. S <= blocks \/ c = b
      <4>1. CASE S > blocks
        <5>1. b \in 0 .. S - 1
          BY <1>1, <1>2, <2>2, <4>1
        <5>2. QED
          BY <1>2, <5>1, ModOfSmall
      <4>2. QED
        BY <1>1, <1>2, <4>1
    <3> HIDE DEF c
    <3>3. 1 + c \in 1 .. m
      BY <1>1, <1>2, <1>3, <2>2, <3>1, <3>2
    <3>4. QED
      BY <3>3 DEF c
  <2>3. QED
    BY <1>5, <2>1, <2>2 DEF S
<1>8. QED
  BY <1>6, <1>7

(* A block's polynomial has its columns' values at the guest's rows.       *)
LEMMA ReducedRight ==
    ASSUME ArgumentsFit, PiecesFit, phase = "respond", IdsFit(newIds), powers = PowersOf(newIds),
           NEW b \in Nat, b < blocks, NEW mask \in Masks
    PROVE  /\ poly_reduce(pieces[1 + (b % Slots)], mask) \in [Ring -> Fp]
           /\ \A r \in Below(factor), k \in 1 .. batch :
                 Same(Read(poly_reduce(pieces[1 + (b % Slots)], mask), r, k),
                      ColumnOf((b * factor) + r)[newIds[k]])
<1> DEFINE s == 1 + (b % Slots)
           plains == pieces[s]
           red == poly_reduce(plains, mask)
           columns == ColumnsOf(s)
<1>1. batch \in Batches /\ batch \in Nat \ {0} /\ factor \in Nat \ {0}
  BY SizesIs DEF ArgumentsFit
<1>2. plains = encode(columns) /\ PlainsFit(plains)
  BY PiecesAre
<1>3. /\ ColumnsFit(columns)
      /\ \A r \in Below(factor) : columns[r + 1] = ColumnOf((b * factor) + r)
  BY SlotIs
<1>4. mask \in [Below(Half) -> Fp]
  BY PolyPirAssumption
<1> HIDE DEF s, plains, columns
<1>5. ASSUME NEW r \in Below(factor), NEW k \in 1 .. batch
      PROVE  /\ red \in [Ring -> Fp]
             /\ Same(Read(red, r, k), columns[r + 1][newIds[k]])
  <2> DEFINE W == PieceValues(plains, r, At1(newIds, k))
  <2>1. /\ red \in [Ring -> Fp]
        /\ Same(ValueOf(Lane(red, factor, r, 2 * batch), At1(newIds, k)), SumOn(Below(K), W))
    BY <1>1, <1>2, <1>4, ReducedLane
  <2>2. Same(SumOn(Below(K), PieceValues(encode(columns), r, At1(newIds, k))), columns[r + 1][newIds[k]])
    BY <1>1, <1>3, PiecesRight
  <2>3. Same(SumOn(Below(K), W), columns[r + 1][newIds[k]])
    BY <1>2, <2>2
  <2> HIDE DEF W, red
  <2>4. Same(Read(red, r, k), SumOn(Below(K), W))
    BY <2>1 DEF Read
  <2>5. QED
    BY <2>1, <2>3, <2>4 DEF Same, Congruent
<1>6. red \in [Ring -> Fp]
  <2> DEFINE zero == 0
             one == 1
  <2>1. zero \in Below(factor) /\ one \in 1 .. batch
    BY <1>1 DEF Below
  <2> HIDE DEF zero, one, red
  <2>2. QED
    BY <1>5, <2>1
<1>7. QED
  BY <1>3, <1>5, <1>6 DEF s, plains

(* The invariant has the type invariant in it.                             *)
LEMMA TypeHolds ==
    ASSUME IInv
    PROVE  TypeOK
<1>1. ArgumentsFit /\ PhaseFits /\ PiecesFit /\ ResponseFits
  BY DEF IInv
<1>2. batch \in Batches
  BY <1>1 DEF ArgumentsFit
<1>3. queries \in 0 .. MaxQueries
  BY <1>1 DEF PhaseFits
<1>4. \A s \in DOMAIN pieces : pieces[s] \in [1 .. K -> [Below(Half) -> Fp]]
  BY <1>1, PiecesAre DEF PlainsFit
<1>5. phase \in {"basis", "respond"} => powers \in [1 .. K -> [Ring -> Fp]]
  <2> SUFFICES ASSUME phase \in {"basis", "respond"} PROVE powers \in [1 .. K -> [Ring -> Fp]]
    OBVIOUS
  <2>1. IdsFit(newIds) /\ powers = PowersOf(newIds)
    BY <1>1 DEF PhaseFits, Asked, Loaded
  <2> DEFINE xs == CharaAndPowers(Chara(newIds))
  <2>2. \A j \in Below(K) : Spread(xs[j]) \in [Ring -> Fp]
    <3>1. \A j \in Below(K) : Small(xs[j])
      <4> TAKE j \in Below(K)
      <4>1. PICK n \in Nat : n <= batch + 1 /\ xs[j] \in [Below(n) -> Fp]
        BY <1>2, <2>1, CharaPowersAre
      <4> HIDE DEF xs
      <4>2. QED
        BY <1>2, <4>1, SmallIs
    <3> HIDE DEF xs
    <3>2. QED
      BY <1>2, <3>1, PowersIs
  <2>3. powers = [j \in 1 .. K |-> Spread(xs[j - 1])]
    BY <2>1 DEF PowersOf
  <2>4. \A j \in 1 .. K : j - 1 \in Below(K)
    BY <1>2, SizesIs DEF Below
  <2> HIDE DEF xs
  <2>5. QED
    BY <2>2, <2>3, <2>4
<1>6. Len(response) <= blocks /\ \A b \in DOMAIN response : response[b] \in [Ring -> Fp]
  BY <1>1 DEF ResponseFits
<1>7. QED
  BY <1>3, <1>4, <1>5, <1>6 DEF TypeOK

-----------------------------------------------------------------------------
(* One lemma for each action.                                              *)

(* The constructors establish the invariant.                               *)
LEMMA InitHolds ==
    ASSUME Init
    PROVE  IInv
<1>1. ArgumentsFit
  <2>1. batch \in Batches /\ data \in Tables
    BY DEF Init
  <2>2. Slots \in Nat \ {0}
    <3> DEFINE n == Len(data)
    <3>1. n \in Int /\ factor \in Nat \ {0}
      BY <2>1, SizesIs, PolyPirAssumption
    <3> HIDE DEF n
    <3>2. n \div factor \in Int
      BY <3>1, DivMod
    <3>3. Slots > 0 /\ Slots = n \div factor
      BY DEF Init, Slots, n
    <3>4. QED
      BY <3>2, <3>3
  <2>3. QED
    BY <2>1, <2>2 DEF Init, ArgumentsFit
<1>2. blocks \in Nat \ {0}
  BY <1>1, PolyPirAssumption DEF ArgumentsFit
<1>3. phase = "encode" /\ pieces = << >> /\ response = << >> /\ queries = 0
  BY DEF Init
<1>4. PhaseFits
  <2>1. queries \in 0 .. MaxQueries
    BY <1>3, PolyPirAssumption
  <2>2. QED
    BY <1>3, <2>1 DEF PhaseFits, Sharing, Asked, Loaded
<1>5. ResponseFits
  <2>1. response \in Seq([Ring -> Fp]) /\ Len(response) = 0
    BY <1>3
  <2>2. QED
    BY <1>2, <1>3, <2>1 DEF ResponseFits
<1>6. PiecesFit /\ KeepersSent /\ BasisRight /\ ResponseRight /\ FaultsRight
  BY <1>3 DEF PiecesFit, KeepersSent, BasisRight, ResponseRight, FaultsRight
<1>7. SharesAddUp /\ RetrievalRight
  BY <1>3 DEF SharesAddUp, RetrievalRight
<1>8. QED
  BY <1>1, <1>4, <1>5, <1>6, <1>7 DEF IInv

(* What a step that leaves the arguments, and the pieces, alone keeps.     *)
LEMMA ArgumentsStay ==
    ASSUME ArgumentsFit, UNCHANGED arguments
    PROVE  ArgumentsFit'
<1>1. batch' = batch /\ data' = data /\ blocks' = blocks /\ share' = share
  BY SizesStay
<1>2. factor' = factor /\ Slots' = Slots
  BY SizesStay
<1>3. QED
  BY <1>1, <1>2 DEF ArgumentsFit

(* The slots do not change after the encoding.                             *)
LEMMA PiecesStay ==
    ASSUME PiecesFit, UNCHANGED <<arguments, pieces>>, phase # "encode", phase' # "encode"
    PROVE  PiecesFit'
<1>1. data' = data /\ blocks' = blocks /\ factor' = factor /\ Slots' = Slots
  BY SizesStay
<1>2. \A s : ColumnsOf(s)' = ColumnsOf(s)
  BY <1>1 DEF ColumnsOf
<1>3. \A c : encode(c)' = encode(c)
  BY EncodeStays
<1>4. QED
  BY <1>1, <1>2, <1>3 DEF PiecesFit

(* Before a response there is nothing to be right or wrong about.          *)
LEMMA Blank ==
    ASSUME UNCHANGED arguments, phase' \notin {"respond", "extract", "done", "fault"}
    PROVE  BasisRight' /\ ResponseRight' /\ FaultsRight' /\ SharesAddUp' /\ RetrievalRight'
BY DEF BasisRight, ResponseRight, FaultsRight, SharesAddUp, RetrievalRight

(* The host's constructor encodes its table.                               *)
LEMMA HostEncodeKeeps ==
    ASSUME IInv, HostEncode
    PROVE  IInv'
<1>1. /\ phase = "encode" /\ phase' = "query" /\ UNCHANGED arguments
      /\ queries' = queries /\ response' = response
  BY DEF HostEncode, guest
<1>2. ArgumentsFit /\ PhaseFits /\ ResponseFits
  BY DEF IInv
<1>3. ArgumentsFit'
  BY <1>1, <1>2, ArgumentsStay
<1>4. PhaseFits'
  BY <1>1, <1>2 DEF PhaseFits, Sharing, Asked, Loaded
<1>5. PiecesFit'
  <2>1. data' = data /\ blocks' = blocks /\ factor' = factor /\ Slots' = Slots
    BY <1>1, SizesStay
  <2>2. \A s : ColumnsOf(s)' = ColumnsOf(s)
    BY <2>1 DEF ColumnsOf
  <2>3. \A c : encode(c)' = encode(c)
    BY <1>1, EncodeStays
  <2>4. pieces' = [s \in 1 .. Min({Slots, blocks}) |-> encode(ColumnsOf(s))]
    BY DEF HostEncode, ColumnsOf
  <2>5. QED
    BY <1>1, <2>1, <2>2, <2>3, <2>4 DEF PiecesFit
<1>6. KeepersSent'
  BY <1>1 DEF KeepersSent
<1>7. ResponseFits'
  <2>1. blocks' = blocks
    BY <1>1, SizesStay
  <2>2. QED
    BY <1>1, <1>2, <2>1 DEF ResponseFits
<1>8. BasisRight' /\ ResponseRight' /\ FaultsRight' /\ SharesAddUp' /\ RetrievalRight'
  BY <1>1, Blank
<1>9. QED
  BY <1>3, <1>4, <1>5, <1>6, <1>7, <1>8 DEF IInv

(* The guest makes the first part of a query.                              *)
LEMMA GuestPowersKeeps ==
    ASSUME IInv, NEW ids \in IdLists, GuestPowers(ids)
    PROVE  IInv'
<1>1. /\ phase = "query" /\ queries < MaxQueries /\ Len(ids) = batch
      /\ UNCHANGED <<arguments, pieces>>
      /\ queries' = queries + 1 /\ response' = << >> /\ newIds' = ids
      /\ chara' = BuildFromRoots(PointsOf(ids))
      /\ query' = [form |-> "powers", powers |-> interleave(CharaAndPowers(BuildFromRoots(PointsOf(ids)))),
                   rows |-> << >>, cols |-> << >>]
      /\ phase' = IF share THEN "keepers" ELSE "load"
  BY DEF GuestPowers, host
<1>2. ArgumentsFit /\ PhaseFits /\ PiecesFit
  BY DEF IInv
<1>3. batch' = batch /\ share' = share /\ factor' = factor /\ K' = K /\ blocks' = blocks
  BY <1>1, SizesStay
<1>4. ArgumentsFit'
  BY <1>1, <1>2, ArgumentsStay
<1>5. phase' \in {"keepers", "load"} /\ (phase' = "keepers" => share) /\ (phase' = "load" => ~ share)
  BY <1>1
<1>6. PhaseFits'
  <2>1. queries' \in 0 .. MaxQueries
    BY <1>1, <1>2, PolyPirAssumption DEF PhaseFits
  <2>2. IdsFit(newIds)'
    <3>1. ids \in Seq(Below(Points))
      BY PolyPirAssumption
    <3>2. QED
      BY <1>1, <1>3, <3>1 DEF IdsFit
  <2>3. chara' = Chara(newIds)'
    BY <1>1 DEF Chara
  <2>4. query'.powers = interleave(CharaAndPowers(chara))'
    <3>1. \A ch : CharaAndPowers(ch)' = CharaAndPowers(ch)
      BY <1>3 DEF CharaAndPowers
    <3>2. \A xs : interleave(xs)' = interleave(xs)
      BY <1>3 DEF interleave
    <3>3. query'.powers = interleave(CharaAndPowers(chara'))
      BY <1>1
    <3>4. QED
      BY <1>3, <3>3 DEF CharaAndPowers, interleave
  <2>5. QED
    BY <1>3, <1>5, <2>1, <2>2, <2>3, <2>4 DEF PhaseFits, Sharing, Asked, Loaded
<1>7. PiecesFit'
  BY <1>1, <1>2, <1>5, PiecesStay
<1>8. KeepersSent'
  BY <1>3, <1>5 DEF KeepersSent
<1>9. ResponseFits'
  <2>1. response' \in Seq([Ring -> Fp]) /\ Len(response') = 0 /\ blocks' \in Nat
    BY <1>1, <1>2, <1>3, PolyPirAssumption DEF ArgumentsFit
  <2>2. QED
    BY <1>1, <1>5, <2>1 DEF ResponseFits
<1>10. BasisRight' /\ ResponseRight' /\ FaultsRight' /\ SharesAddUp' /\ RetrievalRight'
  BY <1>1, <1>5, Blank
<1>11. QED
  BY <1>4, <1>6, <1>7, <1>8, <1>9, <1>10 DEF IInv

(* The guest makes its keepers.                                            *)
LEMMA GuestKeepersKeeps ==
    ASSUME IInv, NEW form \in {"query", "stream"}, NEW g \in Garbage, GuestKeepers(form, g)
    PROVE  IInv'
<1>1. /\ phase = "keepers" /\ phase' = "load" /\ GridFits /\ KeepersExist
      /\ UNCHANGED <<arguments, pieces, newIds, chara>>
      /\ queries' = queries /\ response' = response
      /\ query' = [form |-> form, powers |-> query.powers,
                   rows |-> [l \in DOMAIN RowLines |-> Placed(Keeper(PointsOf(newIds), RowLines[l]), g)],
                   cols |-> [l \in DOMAIN ColLines |-> Placed(Keeper(PointsOf(newIds), ColLines[l]), g)]]
  BY DEF GuestKeepers, host, guest
<1>2. ArgumentsFit /\ PhaseFits /\ PiecesFit /\ ResponseFits
  BY DEF IInv
<1>3. batch' = batch /\ share' = share /\ factor' = factor /\ K' = K /\ blocks' = blocks /\ GridFits' = GridFits
  BY <1>1, SizesStay
<1>4. ArgumentsFit'
  BY <1>1, <1>2, ArgumentsStay
<1>5. PhaseFits'
  <2>1. IdsFit(newIds)' = IdsFit(newIds) /\ Chara(newIds)' = Chara(newIds)
    BY <1>1, IdsStay
  <2>2. IdsFit(newIds) /\ chara = Chara(newIds) /\ query.powers = interleave(CharaAndPowers(chara))
    BY <1>1, <1>2 DEF PhaseFits, Asked
  <2>3. query'.powers = interleave(CharaAndPowers(chara))'
    <3>1. query'.powers = interleave(CharaAndPowers(chara'))
      BY <1>1, <2>2
    <3>2. QED
      BY <1>3, <3>1 DEF CharaAndPowers, interleave
  <2>4. QED
    BY <1>1, <1>2, <2>1, <2>2, <2>3 DEF PhaseFits, Sharing, Asked, Loaded
<1>6. PiecesFit'
  BY <1>1, <1>2, PiecesStay
<1>7. KeepersSent'
  <2>1. KeepersExist'
    BY <1>1, IdsStay
  <2>2. SentLines(RowLines, g)' = SentLines(RowLines, g) /\ SentLines(ColLines, g)' = SentLines(ColLines, g)
    BY <1>1, IdsStay
  <2>3. query'.rows = SentLines(RowLines, g) /\ query'.cols = SentLines(ColLines, g)
    BY <1>1 DEF SentLines
  <2>4. QED
    BY <1>1, <1>3, <2>1, <2>2, <2>3 DEF KeepersSent
<1>8. ResponseFits'
  BY <1>1, <1>2, <1>3 DEF ResponseFits
<1>9. BasisRight' /\ ResponseRight' /\ FaultsRight' /\ SharesAddUp' /\ RetrievalRight'
  BY <1>1, Blank
<1>10. QED
  BY <1>4, <1>5, <1>6, <1>7, <1>8, <1>9 DEF IInv

(* A step that throws, from any of the phases that may.                    *)
LEMMA FaultKeeps ==
    ASSUME IInv, NEW reason, Fault(reason), phase \in {"keepers", "load", "basis"},
           ~ SupportedSize \/ (share /\ ~ Distinct(newIds))
    PROVE  IInv'
<1>1. /\ phase' = "fault" /\ UNCHANGED <<arguments, pieces, newIds>>
      /\ queries' = queries /\ response' = response
  BY DEF Fault, host, guest
<1>2. ArgumentsFit /\ PhaseFits /\ PiecesFit /\ ResponseFits
  BY DEF IInv
<1>3. share' = share /\ blocks' = blocks /\ SupportedSize' = SupportedSize
  BY <1>1, SizesStay
<1>4. ArgumentsFit'
  BY <1>1, <1>2, ArgumentsStay
<1>5. PhaseFits'
  BY <1>1, <1>2 DEF PhaseFits, Sharing, Asked, Loaded
<1>6. PiecesFit'
  BY <1>1, <1>2, PiecesStay
<1>7. ResponseFits'
  BY <1>1, <1>2, <1>3 DEF ResponseFits
<1>8. FaultsRight'
  <2>1. Distinct(newIds)' = Distinct(newIds)
    BY <1>1, IdsStay
  <2>2. QED
    BY <1>3, <2>1 DEF FaultsRight
<1>9. KeepersSent' /\ BasisRight' /\ ResponseRight' /\ SharesAddUp' /\ RetrievalRight'
  BY <1>1 DEF KeepersSent, BasisRight, ResponseRight, SharesAddUp, RetrievalRight
<1>10. QED
  BY <1>4, <1>5, <1>6, <1>7, <1>8, <1>9 DEF IInv

(* The guest finds no grid, or a factor without an inverse.                *)
LEMMA GuestKeepersFaultKeeps ==
    ASSUME IInv, GuestKeepersFault
    PROVE  IInv'
<1>1. phase = "keepers" /\ batch \in Batches
  BY DEF GuestKeepersFault, IInv, ArgumentsFit
<1>2. IdsFit(newIds) /\ share
  BY <1>1 DEF IInv, PhaseFits, Asked, Sharing
<1>3. SupportedSize => GridFits
  BY <1>1, <1>2, GridIs DEF SupportedSize
<1>4. GridFits /\ Distinct(newIds) => KeepersExist
  BY <1>1, <1>2, DistinctKeepersExist
<1>5. ~ SupportedSize \/ (share /\ ~ Distinct(newIds))
  BY <1>2, <1>3, <1>4 DEF GuestKeepersFault
<1>6. CASE Fault("grid")
  BY <1>1, <1>5, <1>6, FaultKeeps
<1>7. CASE Fault("inverse")
  BY <1>1, <1>5, <1>7, FaultKeeps
<1>8. QED
  BY <1>6, <1>7 DEF GuestKeepersFault

(* The host misses a Galois key.                                           *)
LEMMA HostPowersFaultKeeps ==
    ASSUME IInv, HostPowersFault
    PROVE  IInv'
<1>1. phase = "load" /\ ~ KeysSuffice /\ Fault("galois") /\ batch \in Batches
  BY DEF HostPowersFault, IInv, ArgumentsFit
<1>2. ~ SupportedSize
  BY <1>1, KeysSufficeIs DEF SupportedSize
<1>3. QED
  BY <1>1, <1>2, FaultKeeps

(* The host's grid does not fit the keepers that were sent.                *)
LEMMA HostBasisFaultKeeps ==
    ASSUME IInv, HostBasisFault
    PROVE  IInv'
<1>1. phase = "basis" /\ ~ BasisLoads /\ Fault("basis") /\ batch \in Batches
  BY DEF HostBasisFault, IInv, ArgumentsFit
<1>2. share
  BY <1>1 DEF IInv, PhaseFits, Sharing
<1>3. PICK g \in Garbage : query.rows = SentLines(RowLines, g) /\ query.cols = SentLines(ColLines, g)
  BY <1>1, <1>2 DEF IInv, KeepersSent
<1>4. GridFits
  BY <1>1, <1>2 DEF IInv, KeepersSent
<1>5. HostCols # GuestCols
  BY <1>1, <1>3, <1>4, BasisLoadsIs
<1>6. ~ SupportedSize
  BY <1>1, <1>2, <1>5, GridIs DEF SupportedSize
<1>7. QED
  BY <1>1, <1>6, FaultKeeps

(* The host unzips the powers.                                             *)
LEMMA HostPowersKeeps ==
    ASSUME IInv, HostPowers
    PROVE  IInv'
<1>1. /\ phase = "load" /\ phase' = IF share THEN "basis" ELSE "respond"
      /\ powers' = unzip_vec([v \in DOMAIN query.powers |-> Lift(query.powers[v])])
      /\ UNCHANGED <<arguments, pieces, newIds, chara, query>>
      /\ queries' = queries /\ response' = response
  BY DEF HostPowers, guest
<1>2. ArgumentsFit /\ PhaseFits /\ PiecesFit /\ ResponseFits /\ KeepersSent
  BY DEF IInv
<1>3. share' = share /\ blocks' = blocks /\ GridFits' = GridFits
  BY <1>1, SizesStay
<1>4. ArgumentsFit'
  BY <1>1, <1>2, ArgumentsStay
<1>5. phase' \in {"basis", "respond"} /\ (phase' = "basis" => share) /\ (phase' = "respond" => ~ share)
  BY <1>1
<1>6. IdsFit(newIds) /\ chara = Chara(newIds) /\ query.powers = interleave(CharaAndPowers(chara))
  BY <1>1, <1>2 DEF PhaseFits, Asked
<1>7. powers' = PowersOf(newIds)
  <2> DEFINE xs == CharaAndPowers(Chara(newIds))
  <2>1. batch \in Batches
    BY <1>2 DEF ArgumentsFit
  <2>2. \A j \in Below(K) : Small(xs[j])
    <3> TAKE j \in Below(K)
    <3>1. PICK n \in Nat : n <= batch + 1 /\ xs[j] \in [Below(n) -> Fp]
      BY <1>6, <2>1, CharaPowersAre
    <3> HIDE DEF xs
    <3>2. QED
      BY <2>1, <3>1, SmallIs
  <2>3. powers' = unzip_vec([v \in DOMAIN interleave(xs) |-> Lift(interleave(xs)[v])])
    BY <1>1, <1>6
  <2>4. PowersOf(newIds) = [j \in 1 .. K |-> Spread(xs[j - 1])]
    BY DEF PowersOf
  <2> HIDE DEF xs
  <2>5. unzip_vec([v \in DOMAIN interleave(xs) |-> Lift(interleave(xs)[v])])
                = [j \in 1 .. K |-> Spread(xs[j - 1])]
    BY <2>1, <2>2, PowersIs
  <2>6. QED
    BY <2>3, <2>4, <2>5
<1>8. PhaseFits'
  <2>1. /\ IdsFit(newIds)' = IdsFit(newIds) /\ Chara(newIds)' = Chara(newIds)
        /\ PowersOf(newIds)' = PowersOf(newIds)
    BY <1>1, IdsStay
  <2>2. QED
    BY <1>1, <1>2, <1>3, <1>5, <1>6, <1>7, <2>1 DEF PhaseFits, Sharing, Asked, Loaded
<1>9. PiecesFit'
  BY <1>1, <1>2, <1>5, PiecesStay
<1>10. KeepersSent'
  <2>1. KeepersExist' = KeepersExist
    BY <1>1, IdsStay
  <2>2. \A g : /\ SentLines(RowLines, g)' = SentLines(RowLines, g)
               /\ SentLines(ColLines, g)' = SentLines(ColLines, g)
    BY <1>1, IdsStay
  <2>3. QED
    BY <1>1, <1>2, <1>3, <2>1, <2>2 DEF KeepersSent
<1>11. response = << >> /\ blocks \in Nat \ {0}
  BY <1>1, <1>2, PolyPirAssumption DEF ResponseFits, ArgumentsFit
<1>12. ResponseFits'
  <2>1. Len(response') = 0
    BY <1>1, <1>11
  <2>2. QED
    BY <1>1, <1>2, <1>3, <1>5, <1>11, <2>1 DEF ResponseFits
<1>13. ResponseRight'
  <2>1. Len(response') = 0 /\ 1 .. 0 = {}
    BY <1>1, <1>11
  <2>2. QED
    BY <2>1 DEF ResponseRight
<1>14. BasisRight' /\ FaultsRight' /\ SharesAddUp' /\ RetrievalRight'
  BY <1>3, <1>5 DEF BasisRight, FaultsRight, SharesAddUp, RetrievalRight
<1>15. QED
  BY <1>4, <1>8, <1>9, <1>10, <1>12, <1>13, <1>14 DEF IInv

(* The host makes the basis.                                               *)
LEMMA HostBasisKeeps ==
    ASSUME IInv, HostBasis
    PROVE  IInv'
<1>1. /\ phase = "basis" /\ phase' = "respond" /\ BasisLoads
      /\ basis' = [i \in 1 .. batch |-> RingMul(query.rows[1 + ((i - 1) \div BasisCols)],
                                                query.cols[1 + ((i - 1) % BasisCols)])]
      /\ UNCHANGED <<arguments, pieces, newIds, chara, powers>>
      /\ queries' = queries /\ response' = response
  BY DEF HostBasis, guest
<1>2. ArgumentsFit /\ PhaseFits /\ PiecesFit /\ ResponseFits /\ KeepersSent
  BY DEF IInv
<1>3. share' = share /\ blocks' = blocks /\ batch' = batch
  BY <1>1, SizesStay
<1>4. ArgumentsFit'
  BY <1>1, <1>2, ArgumentsStay
<1>5. IdsFit(newIds) /\ share
  BY <1>1, <1>2 DEF PhaseFits, Asked, Sharing
<1>6. PhaseFits'
  <2>1. /\ IdsFit(newIds)' = IdsFit(newIds) /\ Chara(newIds)' = Chara(newIds)
        /\ PowersOf(newIds)' = PowersOf(newIds)
    BY <1>1, IdsStay
  <2>2. QED
    BY <1>1, <1>2, <2>1 DEF PhaseFits, Sharing, Asked, Loaded
<1>7. PiecesFit'
  BY <1>1, <1>2, PiecesStay
<1>8. BasisRight'
  <2>1. batch \in Batches /\ GridFits /\ KeepersExist
    BY <1>1, <1>2, <1>5 DEF ArgumentsFit, KeepersSent
  <2>2. PICK g \in Garbage : query.rows = SentLines(RowLines, g) /\ query.cols = SentLines(ColLines, g)
    BY <1>1, <1>2, <1>5 DEF KeepersSent
  <2>3. g \in Nat
    BY PolyPirAssumption
  <2>4. basis' = SentBasis(g)
    BY <1>1, <2>1, <2>2, BasisIsSent
  <2> DEFINE bs == SentBasis(g)
  <2>5. BasisFits(bs) /\ (KeepersFull => \A k \in 1 .. batch : UnitAt(bs, k, At1(newIds, k)))
    BY <1>5, <2>1, <2>3, SentBasisIs
  <2>6. basis' = bs
    BY <2>4
  <2> HIDE DEF bs
  <2>7. KeepersFull' = KeepersFull
    BY <1>1, IdsStay
  <2>8. BasisFits(basis)'
    <3>1. factor' = factor
      BY <1>1, SizesStay
    <3>2. QED
      BY <1>3, <2>5, <2>6, <3>1 DEF BasisFits
  <2>9. KeepersFull' => (\A k \in 1 .. batch : UnitAt(basis, k, At1(newIds, k)))'
    <3>1. factor' = factor
      BY <1>1, SizesStay
    <3>2. QED
      BY <1>1, <1>3, <2>5, <2>6, <2>7, <3>1 DEF UnitAt
  <2>10. QED
    BY <2>8, <2>9 DEF BasisRight
<1>9. response = << >> /\ blocks \in Nat \ {0}
  BY <1>1, <1>2, PolyPirAssumption DEF ResponseFits, ArgumentsFit
<1>10. ResponseFits'
  <2>1. Len(response') = 0
    BY <1>1, <1>9
  <2>2. QED
    BY <1>1, <1>2, <1>3, <1>9, <2>1 DEF ResponseFits
<1>11. ResponseRight'
  <2>1. Len(response') = 0 /\ 1 .. 0 = {}
    BY <1>1, <1>9
  <2>2. QED
    BY <2>1 DEF ResponseRight
<1>12. KeepersSent' /\ FaultsRight' /\ SharesAddUp' /\ RetrievalRight'
  BY <1>1 DEF KeepersSent, FaultsRight, SharesAddUp, RetrievalRight
<1>13. QED
  BY <1>4, <1>6, <1>7, <1>8, <1>10, <1>11, <1>12 DEF IInv

(* What a block's polynomial means to the guest, sent as it is or as a     *)
(* share.                                                                  *)
LEMMA SentRight ==
    ASSUME ArgumentsFit, PiecesFit, BasisRight, phase = "respond", IdsFit(newIds), powers = PowersOf(newIds),
           NEW b \in Nat, b < blocks, NEW mask \in Masks, NEW s \in Shares,
           NEW red, red = poly_reduce(pieces[1 + (b % Slots)], mask)
    PROVE  /\ red \in [Ring -> Fp]
           /\ \A r \in Below(factor), k \in 1 .. batch :
                 Same(Read(red, r, k), ColumnOf((b * factor) + r)[newIds[k]])
           /\ share => /\ poly_cipher_toShare(red, s) \in [Ring -> Fp]
                       /\ \A r \in Below(factor), k \in 1 .. batch :
                             /\ s[r][k - 1] \in Int
                             /\ KeepersFull => Same(Read(poly_cipher_toShare(red, s), r, k),
                                                    ColumnOf((b * factor) + r)[newIds[k]] - s[r][k - 1])
<1>1. batch \in Batches /\ ShareFits(s)
  BY PolyPirAssumption DEF ArgumentsFit, ShareFits
<1>2. /\ red \in [Ring -> Fp]
      /\ \A r \in Below(factor), k \in 1 .. batch :
           Same(Read(red, r, k), ColumnOf((b * factor) + r)[newIds[k]])
  BY ReducedRight
<1>3. ASSUME share
      PROVE  /\ poly_cipher_toShare(red, s) \in [Ring -> Fp]
             /\ \A r \in Below(factor), k \in 1 .. batch :
                   /\ s[r][k - 1] \in Int
                   /\ KeepersFull => Same(Read(poly_cipher_toShare(red, s), r, k),
                                          ColumnOf((b * factor) + r)[newIds[k]] - s[r][k - 1])
  <2>1. /\ BasisFits(basis)
        /\ KeepersFull => \A k \in 1 .. batch : UnitAt(basis, k, At1(newIds, k))
    BY <1>3 DEF BasisRight
  <2>2. /\ poly_cipher_toShare(red, s) \in [Ring -> Fp]
        /\ \A r \in Below(factor), k \in 1 .. batch, x \in Int : UnitAt(basis, k, x) =>
                Same(ValueOf(Lane(poly_cipher_toShare(red, s), factor, r, 2 * batch), x),
                     ValueOf(Lane(red, factor, r, 2 * batch), x) - s[r][k - 1])
    BY <1>1, <1>2, <2>1, ToShareIs
  <2>3. ASSUME NEW r \in Below(factor), NEW k \in 1 .. batch PROVE s[r][k - 1] \in Int
    <3>1. Slice(s, k) \in [Below(factor) -> Fp]
      BY <1>1, SliceIs
    <3>2. Slice(s, k)[r] = s[r][k - 1]
      BY DEF Slice
    <3>3. QED
      BY <3>1, <3>2, FpInt
  <2>4. ASSUME NEW r \in Below(factor), NEW k \in 1 .. batch, KeepersFull
        PROVE  Same(Read(poly_cipher_toShare(red, s), r, k),
                    ColumnOf((b * factor) + r)[newIds[k]] - s[r][k - 1])
    <3> DEFINE x == At1(newIds, k)
               u == ValueOf(Lane(poly_cipher_toShare(red, s), factor, r, 2 * batch), x)
               v == ValueOf(Lane(red, factor, r, 2 * batch), x)
               w == ColumnOf((b * factor) + r)[newIds[k]]
               t == s[r][k - 1]
    <3>1. x \in Int /\ newIds[k] \in Below(Points)
      BY PointsOfIs
    <3>2. Same(u, v - t)
      BY <2>1, <2>2, <2>4, <3>1
    <3>3. Same(v, w)
      BY <1>2 DEF Read
    <3>4. v \in Int
      <4>1. factor \in Nat \ {0} /\ 2 * batch \in Nat /\ N = (2 * batch) * factor
        BY <1>1, SizesIs
      <4>2. Lane(red, factor, r, 2 * batch) \in Polys(2 * batch)
        BY <1>2, <4>1, LaneType
      <4> HIDE DEF x
      <4>3. QED
        BY <3>1, <4>1, <4>2, ValueInt
    <3>5. w \in Int
      <4>1. (b * factor) + r \in Nat
        <5>1. factor \in Nat /\ r \in Nat
          BY <1>1, SizesIs, BelowIs
        <5>2. QED
          BY <5>1
      <4>2. ColumnOf((b * factor) + r) \in [Below(Points) -> Fp]
        BY <4>1, TableIs
      <4>3. QED
        BY <3>1, <4>2, FpInt
    <3>6. t \in Int
      BY <2>3
    <3>7. u = Read(poly_cipher_toShare(red, s), r, k)
      BY DEF Read
    <3> HIDE DEF u, v, w, t
    <3>8. Same(t, t)
      BY DEF Same, Congruent
    <3>9. Same(v - t, w - t)
      BY <3>3, <3>4, <3>5, <3>6, <3>8, SameArithmetic
    <3>10. Same(u, w - t)
      BY <3>2, <3>9 DEF Same, Congruent
    <3>11. QED
      BY <3>7, <3>10 DEF w, t
  <2>5. QED
    BY <2>2, <2>3, <2>4
<1>4. QED
  BY <1>2, <1>3

(* The block and the lane of a feature.                                    *)
LEMMA FeatureOf ==
    ASSUME NEW F \in Nat \ {0}, NEW b \in Nat, NEW r \in Below(F)
    PROVE  /\ ((b * F) + r) \div F = b /\ ((b * F) + r) % F = r
           /\ (b * F) + r \in b * F .. (b + 1) * F - 1
<1>1. ((b * F) + r) \div F = b /\ ((b * F) + r) % F = r
  BY Strides
<1>2. r \in Nat /\ r < F /\ b * F \in Nat /\ (b + 1) * F = b * F + F
  BY BelowIs
<1> DEFINE a == b * F
           c == (b + 1) * F
<1>3. a \in Nat /\ c = a + F /\ r \in Nat /\ r < F
  BY <1>2
<1> HIDE DEF a, c
<1>4. a + r \in a .. c - 1
  BY <1>3
<1>5. QED
  BY <1>1, <1>4 DEF a, c

(* The host answers a block: the answer is right by SentRight, and the     *)
(* share it keeps is the one it subtracted.                                *)
LEMMA HostRespondKeeps ==
    ASSUME IInv, NEW mask \in Masks, NEW s \in Shares, HostRespond(mask, s)
    PROVE  IInv'
<1> DEFINE b == Len(response)
           red == poly_reduce(pieces[1 + (b % Slots)], mask)
           new == IF share THEN poly_cipher_toShare(red, s) ELSE red
<1>1. /\ phase = "respond" /\ response' = Append(response, new)
      /\ phase' = IF b + 1 = blocks THEN "extract" ELSE "respond"
      /\ UNCHANGED <<arguments, pieces, powers, basis, newIds, chara>>
      /\ queries' = queries
  BY DEF HostRespond, guest
<1>2. result0' = IF ~ share THEN result0
                 ELSE [f \in DOMAIN result0 \cup (b * factor .. (b + 1) * factor - 1) |->
                         IF f \div factor = b THEN [k \in 1 .. batch |-> s[f % factor][k - 1]]
                         ELSE result0[f]]
  BY DEF HostRespond
<1>3. ArgumentsFit /\ PhaseFits /\ PiecesFit /\ BasisRight /\ ResponseFits /\ ResponseRight
  BY DEF IInv
<1>4. /\ share' = share /\ blocks' = blocks /\ batch' = batch /\ factor' = factor
      /\ \A f : ColumnOf(f)' = ColumnOf(f)
  BY <1>1, SizesStay
<1>5. ArgumentsFit'
  BY <1>1, <1>3, ArgumentsStay
<1>6. phase' \in {"respond", "extract"}
  BY <1>1
<1>7. IdsFit(newIds) /\ chara = Chara(newIds) /\ powers = PowersOf(newIds)
  BY <1>1, <1>3 DEF PhaseFits, Asked, Loaded
<1>8. /\ IdsFit(newIds)' = IdsFit(newIds) /\ Chara(newIds)' = Chara(newIds)
      /\ PowersOf(newIds)' = PowersOf(newIds) /\ KeepersFull' = KeepersFull
  BY <1>1, IdsStay
<1>9. PhaseFits'
  BY <1>1, <1>3, <1>6, <1>7, <1>8 DEF PhaseFits, Sharing, Asked, Loaded
<1>10. PiecesFit'
  BY <1>1, <1>3, <1>6, PiecesStay
<1>11. BasisRight'
  <2>1. share => BasisFits(basis) /\ (KeepersFull => \A k \in 1 .. batch : UnitAt(basis, k, At1(newIds, k)))
    BY <1>1, <1>3 DEF BasisRight
  <2>2. share => BasisFits(basis)'
    BY <1>1, <1>4, <2>1 DEF BasisFits
  <2>3. share /\ KeepersFull => (\A k \in 1 .. batch : UnitAt(basis, k, At1(newIds, k)))'
    BY <1>1, <1>4, <2>1 DEF UnitAt
  <2>4. QED
    BY <1>4, <1>8, <2>2, <2>3 DEF BasisRight
<1>12. /\ response \in Seq([Ring -> Fp]) /\ b \in Nat /\ b < blocks /\ blocks \in Nat
       /\ batch \in Batches /\ factor \in Nat \ {0} /\ factor \in Nat
  BY <1>1, <1>3, SizesIs DEF ResponseFits, ArgumentsFit
<1> HIDE DEF b
<1>13. /\ red \in [Ring -> Fp]
       /\ \A r \in Below(factor), k \in 1 .. batch :
             Same(Read(red, r, k), ColumnOf((b * factor) + r)[newIds[k]])
       /\ share => /\ poly_cipher_toShare(red, s) \in [Ring -> Fp]
                   /\ \A r \in Below(factor), k \in 1 .. batch :
                         /\ s[r][k - 1] \in Int
                         /\ KeepersFull => Same(Read(poly_cipher_toShare(red, s), r, k),
                                                ColumnOf((b * factor) + r)[newIds[k]] - s[r][k - 1])
  BY <1>1, <1>3, <1>7, <1>12, SentRight
<1> HIDE DEF red
<1>14. /\ new \in [Ring -> Fp]
       /\ ~ share => \A r \in Below(factor), k \in 1 .. batch :
             Same(Read(new, r, k), ColumnOf((b * factor) + r)[newIds[k]])
       /\ share => \A r \in Below(factor), k \in 1 .. batch :
                         /\ s[r][k - 1] \in Int
                         /\ KeepersFull => Same(Read(new, r, k),
                                                ColumnOf((b * factor) + r)[newIds[k]] - s[r][k - 1])
  BY <1>13
<1> HIDE DEF new
<1>15. /\ response' \in Seq([Ring -> Fp]) /\ Len(response') = b + 1
       /\ \A c \in 1 .. b : response'[c] = response[c]
       /\ response'[b + 1] = new
  BY <1>1, <1>12, <1>14 DEF b
<1>16. ResponseFits'
  <2>1. b + 1 <= blocks /\ (b + 1 # blocks => b + 1 < blocks)
    BY <1>12
  <2>2. QED
    BY <1>1, <1>4, <1>6, <1>15, <2>1 DEF ResponseFits
<1>17. ASSUME NEW c \in 1 .. b + 1, NEW r \in Below(factor), NEW k \in 1 .. batch,
              NEW f, f = (c - 1) * factor + r
       PROVE  IF share
              THEN /\ f \in DOMAIN result0' /\ result0'[f][k] \in Int
                   /\ KeepersFull => Same(Read(response'[c], r, k), ColumnOf(f)[newIds[k]] - result0'[f][k])
              ELSE Same(Read(response'[c], r, k), ColumnOf(f)[newIds[k]])
  <2> DEFINE d == c - 1
             D == DOMAIN result0 \cup (b * factor .. (b + 1) * factor - 1)
  <2>1. d \in Nat /\ d <= b /\ f = d * factor + r /\ (d # b => c \in 1 .. b) /\ (d = b => c = b + 1)
    BY <1>12, <1>17
  <2> HIDE DEF d, D
  <2>2. f \div factor = d /\ f % factor = r /\ f \in d * factor .. (d + 1) * factor - 1
    BY <1>12, <2>1, FeatureOf
  <2>3. CASE d = b
    <3>1. c = b + 1 /\ response'[c] = new
      BY <1>15, <2>1, <2>3
    <3>2. CASE share
      <4>1. result0' = [g \in D |->
                         IF g \div factor = b THEN [i \in 1 .. batch |-> s[g % factor][i - 1]]
                         ELSE result0[g]]
        BY <1>2, <3>2 DEF D
      <4>2. f \in D
        BY <2>2, <2>3 DEF D
      <4>3. result0'[f] = [i \in 1 .. batch |-> s[f % factor][i - 1]] /\ DOMAIN result0' = D
        BY <2>2, <2>3, <4>1, <4>2
      <4>4. result0'[f][k] = s[r][k - 1]
        BY <2>2, <4>3
      <4>5. s[r][k - 1] \in Int
        BY <1>14, <3>2
      <4>6. KeepersFull => Same(Read(new, r, k), ColumnOf(f)[newIds[k]] - s[r][k - 1])
        BY <1>14, <2>1, <2>3, <3>2
      <4>7. QED
        BY <3>1, <3>2, <4>2, <4>3, <4>4, <4>5, <4>6
    <3>3. CASE ~ share
      BY <1>14, <2>1, <2>3, <3>1, <3>3
    <3>4. QED
      BY <3>2, <3>3
  <2>4. CASE d # b
    <3>1. c \in 1 .. b /\ response'[c] = response[c]
      BY <1>15, <2>1, <2>4
    <3>2. c \in 1 .. Len(response)
      BY <3>1 DEF b
    <3>3. IF share
          THEN /\ f \in DOMAIN result0 /\ result0[f][k] \in Int
               /\ KeepersFull => Same(Read(response[c], r, k), ColumnOf(f)[newIds[k]] - result0[f][k])
          ELSE Same(Read(response[c], r, k), ColumnOf(f)[newIds[k]])
      BY <1>1, <1>3, <1>17, <3>2 DEF ResponseRight
    <3>4. CASE share
      <4>1. result0' = [g \in D |->
                         IF g \div factor = b THEN [i \in 1 .. batch |-> s[g % factor][i - 1]]
                         ELSE result0[g]]
        BY <1>2, <3>4 DEF D
      <4>2. f \in D
        BY <3>3, <3>4 DEF D
      <4>3. result0'[f] = result0[f] /\ DOMAIN result0' = D
        BY <2>2, <2>4, <4>1, <4>2
      <4>4. QED
        BY <3>1, <3>3, <3>4, <4>2, <4>3
    <3>5. CASE ~ share
      BY <3>1, <3>3, <3>5
    <3>6. QED
      BY <3>4, <3>5
  <2>5. QED
    BY <2>3, <2>4
<1>18. ResponseRight'
  <2> SUFFICES ASSUME NEW c \in 1 .. Len(response'), NEW r \in Below(factor'), NEW k \in 1 .. batch'
               PROVE  (LET f == (c - 1) * factor + r
                           value == ColumnOf(f)[newIds[k]]
                       IN  IF share
                           THEN /\ f \in DOMAIN result0 /\ result0[f][k] \in Int
                                /\ KeepersFull => Same(Read(response[c], r, k), value - result0[f][k])
                           ELSE Same(Read(response[c], r, k), value))'
    BY DEF ResponseRight
  <2> DEFINE f == (c - 1) * factor + r
  <2>1. c \in 1 .. b + 1 /\ r \in Below(factor) /\ k \in 1 .. batch
    BY <1>4, <1>15
  <2>2. IF share
        THEN /\ f \in DOMAIN result0' /\ result0'[f][k] \in Int
             /\ KeepersFull => Same(Read(response'[c], r, k), ColumnOf(f)[newIds[k]] - result0'[f][k])
        ELSE Same(Read(response'[c], r, k), ColumnOf(f)[newIds[k]])
    BY <1>17, <2>1
  <2>3. Read(response'[c], r, k) = Read(response[c], r, k)'
    BY <1>1, <1>4 DEF Read
  <2>4. ColumnOf((c - 1) * factor + r)' = ColumnOf(f)
    <3>1. Slots' = Slots /\ data' = data
      BY <1>1, SizesStay
    <3>2. QED
      BY <1>4, <3>1 DEF ColumnOf
  <2>5. QED
    BY <1>1, <1>4, <1>8, <2>2, <2>3, <2>4
<1>19. KeepersSent' /\ FaultsRight' /\ SharesAddUp' /\ RetrievalRight'
  BY <1>6 DEF KeepersSent, FaultsRight, SharesAddUp, RetrievalRight
<1>20. QED
  BY <1>5, <1>9, <1>10, <1>11, <1>16, <1>18, <1>19 DEF IInv

(* What the guest reads of the block of a feature.                         *)
LEMMA ValuesRead ==
    ASSUME IInv, phase = "extract", NEW f \in Features, NEW k \in 1 .. batch
    PROVE  /\ ColumnOf(f)[newIds[k]] \in Fp /\ Values(f)[k] \in Fp
           /\ ~ share => Values(f)[k] = ColumnOf(f)[newIds[k]]
           /\ share /\ KeepersFull =>
                (result0[f][k] + Values(f)[k]) % Prime = ColumnOf(f)[newIds[k]]
<1> DEFINE F == factor
           d == f \div F
           r == f % F
           c == 1 + d
           w == ColumnOf(f)[newIds[k]]
           v == Values(f)[k]
           u == Read(response[c], r, k)
           t == result0[f][k]
<1>1. ArgumentsFit /\ PhaseFits /\ ResponseFits /\ ResponseRight
  BY DEF IInv
<1>2. batch \in Batches /\ F \in Nat \ {0} /\ F \in Nat /\ blocks \in Nat
  BY <1>1, SizesIs DEF ArgumentsFit
<1>3. IdsFit(newIds) /\ chara = Chara(newIds) /\ Len(response) = blocks /\ response \in Seq([Ring -> Fp])
  BY <1>1 DEF PhaseFits, Asked, ResponseFits
<1>4. d \in Below(blocks) /\ r \in Below(F) /\ f = d * F + r /\ f \in Nat
  <2> HIDE DEF F
  <2>1. f \in Below(blocks * F)
    BY DEF Features, F
  <2>2. d \in Below(blocks) /\ r \in Below(F) /\ f = d * F + r
    BY <1>2, <2>1, StrideIndex
  <2>3. blocks * F \in Nat
    BY <1>2
  <2>4. f \in Nat
    BY <2>1, <2>3, BelowIs
  <2>5. QED
    BY <2>2, <2>4
<1>5. c \in 1 .. Len(response) /\ response[c] \in [Ring -> Fp] /\ c - 1 = d
  <2> HIDE DEF d
  <2>1. d \in Nat /\ d < blocks
    BY <1>2, <1>4, BelowIs
  <2>2. c \in 1 .. Len(response) /\ c - 1 = d
    BY <1>2, <1>3, <2>1
  <2> HIDE DEF c
  <2>3. QED
    BY <1>3, <2>2
<1>6. /\ v \in Fp /\ v \in Int
      /\ Same(v, u)
  BY <1>2, <1>3, <1>4, <1>5, ValuesAre DEF Read
<1>7. w \in Fp /\ w \in Int
  <2>1. ColumnOf(f) \in [Below(Points) -> Fp]
    BY <1>1, <1>4, TableIs
  <2>2. newIds[k] \in Below(Points)
    BY <1>3, PointsOfIs
  <2>3. QED
    BY <2>1, <2>2, FpInt
<1>8. IF share
      THEN /\ f \in DOMAIN result0 /\ t \in Int
           /\ KeepersFull => Same(u, w - t)
      ELSE Same(u, w)
  <2> HIDE DEF u, w, t, d, r, c
  <2>1. (c - 1) * factor + r = f
    BY <1>4, <1>5 DEF F
  <2>2. r \in Below(factor)
    BY <1>4 DEF F
  <2>3. QED
    BY <1>1, <1>5, <2>1, <2>2 DEF ResponseRight, u, w, t
<1> HIDE DEF u, v, w, t
<1>9. ASSUME ~ share PROVE v = w
  <2>1. Same(v, w)
    BY <1>6, <1>8, <1>9 DEF Same, Congruent
  <2>2. Same(w, w)
    BY DEF Same, Congruent
  <2>3. Same(v - w, w - w)
    BY <1>6, <1>7, <2>1, <2>2, SameArithmetic
  <2>4. w - w = 0
    BY <1>7
  <2>5. Same(v - w, 0)
    BY <2>3, <2>4
  <2>6. QED
    BY <1>6, <1>7, <2>5, FieldDistinct
<1>10. ASSUME share, KeepersFull PROVE (t + v) % Prime = w
  <2>1. t \in Int /\ Same(u, w - t)
    BY <1>8, <1>10
  <2>2. Same(v, w - t)
    BY <1>6, <2>1 DEF Same, Congruent
  <2>3. Same(t, t) /\ w - t \in Int
    BY <1>7, <2>1 DEF Same, Congruent
  <2>4. Same(t + v, t + (w - t))
    BY <1>6, <2>1, <2>2, <2>3, SameArithmetic
  <2>5. t + (w - t) = w
    BY <1>7, <2>1
  <2>6. (t + v) % Prime = w % Prime
    BY <2>4, <2>5 DEF Same, Congruent
  <2>7. w % Prime = w
    BY <1>7, SameIs
  <2>8. QED
    BY <2>6, <2>7
<1>11. QED
  BY <1>6, <1>7, <1>9, <1>10 DEF v, w, t

(* The guest reads the response: ValuesRead says what it finds.            *)
LEMMA GuestExtractKeeps ==
    ASSUME IInv, GuestExtract
    PROVE  IInv'
<1>1. /\ phase = "extract" /\ phase' = "done"
      /\ result1' = [f \in Features |-> Values(f)]
      /\ UNCHANGED <<arguments, pieces, powers, result0, newIds, chara>>
      /\ queries' = queries /\ response' = response
  BY DEF GuestExtract, host
<1>2. ArgumentsFit /\ PhaseFits /\ PiecesFit /\ ResponseFits
  BY DEF IInv
<1>3. /\ share' = share /\ blocks' = blocks /\ batch' = batch /\ Features' = Features
      /\ \A f : ColumnOf(f)' = ColumnOf(f)
  BY <1>1, SizesStay
<1>4. ArgumentsFit'
  BY <1>1, <1>2, ArgumentsStay
<1>5. /\ IdsFit(newIds)' = IdsFit(newIds) /\ Chara(newIds)' = Chara(newIds)
      /\ PowersOf(newIds)' = PowersOf(newIds) /\ KeepersFull' = KeepersFull
  BY <1>1, IdsStay
<1>6. PhaseFits'
  BY <1>1, <1>2, <1>5 DEF PhaseFits, Sharing, Asked, Loaded
<1>7. PiecesFit'
  BY <1>1, <1>2, PiecesStay
<1>8. ResponseFits'
  BY <1>1, <1>2, <1>3 DEF ResponseFits
<1>9. RetrievalRight'
  BY <1>1, <1>3, ValuesRead DEF RetrievalRight
<1>10. SharesAddUp'
  BY <1>1, <1>3, <1>5, ValuesRead DEF SharesAddUp
<1>11. KeepersSent' /\ BasisRight' /\ ResponseRight' /\ FaultsRight'
  BY <1>1 DEF KeepersSent, BasisRight, ResponseRight, FaultsRight
<1>12. QED
  BY <1>4, <1>6, <1>7, <1>8, <1>9, <1>10, <1>11 DEF IInv

(* The next query on the same objects.                                     *)
LEMMA NextQueryKeeps ==
    ASSUME IInv, NextQuery
    PROVE  IInv'
<1>1. /\ phase = "done" /\ phase' = "query" /\ UNCHANGED <<arguments, pieces>>
      /\ queries' = queries /\ response' = response
  BY DEF NextQuery, host
<1>2. ArgumentsFit /\ PhaseFits /\ PiecesFit /\ ResponseFits
  BY DEF IInv
<1>3. blocks' = blocks
  BY <1>1, SizesStay
<1>4. ArgumentsFit' /\ PiecesFit'
  BY <1>1, <1>2, ArgumentsStay, PiecesStay
<1>5. PhaseFits'
  BY <1>1, <1>2 DEF PhaseFits, Sharing, Asked, Loaded
<1>6. ResponseFits'
  BY <1>1, <1>2, <1>3 DEF ResponseFits
<1>7. KeepersSent'
  BY <1>1 DEF KeepersSent
<1>8. BasisRight' /\ ResponseRight' /\ FaultsRight' /\ SharesAddUp' /\ RetrievalRight'
  BY <1>1, Blank
<1>9. QED
  BY <1>4, <1>5, <1>6, <1>7, <1>8 DEF IInv

(* A stutter.                                                              *)
LEMMA StutterKeeps ==
    ASSUME IInv, UNCHANGED vars
    PROVE  IInv'
<1>1. UNCHANGED <<arguments, phase, queries, pieces, powers, basis, result0, newIds, chara, query, response, result1>>
  BY DEF vars, host, guest
<1>2. /\ ArgumentsFit /\ PhaseFits /\ PiecesFit /\ KeepersSent /\ BasisRight
      /\ ResponseFits /\ ResponseRight /\ FaultsRight /\ SharesAddUp /\ RetrievalRight
  BY DEF IInv
<1>3. /\ batch' = batch /\ share' = share /\ blocks' = blocks /\ factor' = factor /\ K' = K
      /\ data' = data /\ Slots' = Slots /\ GridFits' = GridFits
      /\ Features' = Features /\ SupportedSize' = SupportedSize
  BY <1>1, SizesStay
<1>4. \A f : ColumnOf(f)' = ColumnOf(f)
  BY <1>1, SizesStay
<1>5. /\ IdsFit(newIds)' = IdsFit(newIds) /\ Chara(newIds)' = Chara(newIds)
      /\ PowersOf(newIds)' = PowersOf(newIds) /\ KeepersFull' = KeepersFull
      /\ KeepersExist' = KeepersExist /\ Distinct(newIds)' = Distinct(newIds)
  BY <1>1, IdsStay
<1>6. ArgumentsFit'
  BY <1>1, <1>2, ArgumentsStay
<1>7. PhaseFits'
  <2>1. interleave(CharaAndPowers(chara))' = interleave(CharaAndPowers(chara))
    BY <1>1, <1>3 DEF interleave, CharaAndPowers
  <2>2. QED
    BY <1>1, <1>2, <1>3, <1>5, <2>1 DEF PhaseFits
<1>8. PiecesFit'
  <2>1. \A s : ColumnsOf(s)' = ColumnsOf(s)
    BY <1>3 DEF ColumnsOf
  <2>2. \A c : encode(c)' = encode(c)
    BY <1>1, EncodeStays
  <2>3. QED
    BY <1>1, <1>2, <1>3, <2>1, <2>2 DEF PiecesFit
<1>9. KeepersSent'
  <2>1. \A g : /\ SentLines(RowLines, g)' = SentLines(RowLines, g)
               /\ SentLines(ColLines, g)' = SentLines(ColLines, g)
    BY <1>1, IdsStay
  <2>2. QED
    BY <1>1, <1>2, <1>3, <1>5, <2>1 DEF KeepersSent
<1>10. BasisRight'
  <2>1. share /\ phase = "respond" => BasisFits(basis)'
    BY <1>1, <1>2, <1>3 DEF BasisRight, BasisFits
  <2>2. share /\ phase = "respond" /\ KeepersFull => (\A k \in 1 .. batch : UnitAt(basis, k, At1(newIds, k)))'
    BY <1>1, <1>2, <1>3 DEF BasisRight, UnitAt
  <2>3. QED
    BY <1>1, <1>3, <1>5, <2>1, <2>2 DEF BasisRight
<1>11. ResponseFits'
  BY <1>1, <1>2, <1>3 DEF ResponseFits
<1>12. ResponseRight'
  BY <1>1, <1>2, <1>3, <1>5 DEF ResponseRight, Read, ColumnOf
<1>13. FaultsRight'
  BY <1>1, <1>2, <1>3, <1>5 DEF FaultsRight
<1>14. SharesAddUp'
  BY <1>1, <1>2, <1>3, <1>5 DEF SharesAddUp, ColumnOf
<1>15. RetrievalRight'
  BY <1>1, <1>2, <1>3 DEF RetrievalRight, ColumnOf
<1>16. QED
  BY <1>6, <1>7, <1>8, <1>9, <1>10, <1>11, <1>12, <1>13, <1>14, <1>15 DEF IInv

(* Every step keeps the invariant.                                         *)
LEMMA NextKeeps ==
    ASSUME IInv, [Next]_vars
    PROVE  IInv'
<1>1. CASE HostEncode
  BY <1>1, HostEncodeKeeps
<1>2. ASSUME NEW ids \in IdLists, GuestPowers(ids) PROVE IInv'
  BY <1>2, GuestPowersKeeps
<1>3. ASSUME NEW form \in {"query", "stream"}, NEW g \in Garbage, GuestKeepers(form, g) PROVE IInv'
  BY <1>3, GuestKeepersKeeps
<1>4. CASE GuestKeepersFault
  BY <1>4, GuestKeepersFaultKeeps
<1>5. CASE HostPowers
  BY <1>5, HostPowersKeeps
<1>6. CASE HostPowersFault
  BY <1>6, HostPowersFaultKeeps
<1>7. CASE HostBasis
  BY <1>7, HostBasisKeeps
<1>8. CASE HostBasisFault
  BY <1>8, HostBasisFaultKeeps
<1>9. ASSUME NEW mask \in Masks, NEW s \in Shares, HostRespond(mask, s) PROVE IInv'
  BY <1>9, HostRespondKeeps
<1>10. CASE GuestExtract
  BY <1>10, GuestExtractKeeps
<1>11. CASE NextQuery
  BY <1>11, NextQueryKeeps
<1>12. CASE Stopped
  BY <1>12, StutterKeeps DEF Stopped
<1>13. CASE UNCHANGED vars
  BY <1>13, StutterKeeps
<1>14. QED
  BY <1>1, <1>2, <1>3, <1>4, <1>5, <1>6, <1>7, <1>8, <1>9, <1>10, <1>11, <1>12, <1>13 DEF Next

(* The invariant holds in every state of the host and the guest of         *)
(* batch_pir_basic.h.                                                      *)
LEMMA Inductive == Spec => []IInv
<1>1. Init => IInv
  BY InitHolds
<1>2. IInv /\ [Next]_vars => IInv'
  BY NextKeeps
<1>3. QED
  BY <1>1, <1>2, PTL DEF Spec

(* Every reachable state has its type: no step of the constructor,         *)
(* gen_query, gen_response or extract_answer leaves the vectors with       *)
(* another shape.                                                          *)
THEOREM PolyPirTyped == Spec => []TypeOK
<1>1. IInv => TypeOK
  BY TypeHolds
<1>2. QED
  BY <1>1, Inductive, PTL

(* Without shares (BatchPirServer, BatchPirClient): what extract_answer    *)
(* gives the guest for a feature and a row of its query is the value in    *)
(* the host's table, for every table, every rows, every number of blocks   *)
(* and of queries.                                                         *)
THEOREM RetrievalIsRight == Spec => []RetrievalRight
<1>1. IInv => RetrievalRight
  BY DEF IInv
<1>2. QED
  BY <1>1, Inductive, PTL

(* With shares (BatchPirToShareServer, BatchPirToShareClient): the host's  *)
(* result0 and what the guest extracts add up to the value in the host's   *)
(* table, unless a keeper was too short to be copied (set_evaluate_basis,  *)
(* line 1038).                                                             *)
THEOREM ShareSumsAreRight == Spec => []SharesAddUp
<1>1. IInv => SharesAddUp
  BY DEF IInv
<1>2. QED
  BY <1>1, Inductive, PTL

(* No query of rows without repetition ends in one of the exceptions or    *)
(* failed checks of batch_pir_basic.h, if the batch has a size with enough *)
(* Galois keys and whose grid both sides compute alike.                    *)
THEOREM SupportedSizesNeverFault == Spec => []SupportedNeverFaults
<1>1. IInv => SupportedNeverFaults
  BY DEF IInv, FaultsRight, SupportedNeverFaults
<1>2. QED
  BY <1>1, Inductive, PTL
=============================================================================
